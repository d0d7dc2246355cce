-------------------------- MODULE AccountingProofs --------------------------
(***************************************************************************)
(* The invariants of Accounting, for any number of peers, requests and     *)
(* debits, any prices, thresholds and payments: first the operations of    *)
(* Ledger on one account, the sums over the requests and debits in         *)
(* progress and the invariant of a single account, then the steps.         *)
(***************************************************************************)
EXTENDS Accounting, FiniteSetTheorems, TLAPS

-----------------------------------------------------------------------------
(* Sums over a finite set. *)

\* The tokens of one element are as many as the value of f there.
LEMMA TokensOfOne ==
  ASSUME NEW f, NEW s, f[s] \in Nat
  PROVE  /\ IsFiniteSet({s} \X (1..f[s]))
         /\ Cardinality({s} \X (1..f[s])) = f[s]
  <1>1. IsFiniteSet({s}) /\ Cardinality({s}) = 1
    BY FS_Singleton, Zenon
  <1>2. IsFiniteSet(1..f[s]) /\ Cardinality(1..f[s]) = f[s]
    <2>1. 1 \in Int /\ f[s] \in Int
      OBVIOUS
    <2>2. /\ IsFiniteSet(1..f[s])
          /\ Cardinality(1..f[s]) = IF 1 > f[s] THEN 0 ELSE f[s] - 1 + 1
      BY <2>1, FS_Interval, Zenon
    <2> QED
      BY <2>2
  <1>3. /\ IsFiniteSet({s} \X (1..f[s]))
        /\ Cardinality({s} \X (1..f[s])) = Cardinality({s}) * Cardinality(1..f[s])
    BY <1>1, <1>2, FS_Product, Zenon
  <1> QED BY <1>1, <1>2, <1>3

\* A finite set has finitely many tokens, so its sum is a natural number.
LEMMA SumType ==
  ASSUME NEW S, IsFiniteSet(S), NEW f, \A s \in S : f[s] \in Nat
  PROVE  IsFiniteSet(Tokens(f, S)) /\ SumOver(f, S) \in Nat
  <1> DEFINE g == [s \in S |-> {s} \X (1..f[s])]
             T == {{s} \X (1..f[s]) : s \in S}
  <1>1. g \in Surjection(S, T)
    BY Zenon DEF Surjection
  <1>2. IsFiniteSet(T)
    BY <1>1, FS_Surjection
  <1>3. \A t \in T : IsFiniteSet(t)
    BY TokensOfOne, Zenon
  <1>4. IsFiniteSet(UNION T)
    BY <1>2, <1>3, FS_UNION, Zenon
  <1> QED BY <1>4, FS_CardinalityType DEF Tokens, SumOver

\* The sum over the empty set is 0.
LEMMA SumEmpty ==
  ASSUME NEW f
  PROVE  SumOver(f, {}) = 0
  <1>1. Tokens(f, {}) = {}
    BY DEF Tokens
  <1> QED BY <1>1, FS_EmptySet DEF SumOver

\* Functions that agree on S have the same sum over S.
LEMMA SumSame ==
  ASSUME NEW S, NEW f, NEW g, \A s \in S : f[s] = g[s]
  PROVE  SumOver(f, S) = SumOver(g, S)
  <1>1. Tokens(f, S) = Tokens(g, S)
    BY DEF Tokens
  <1> QED BY <1>1 DEF SumOver

\* A new element adds its value to the sum.
LEMMA SumAdd ==
  ASSUME NEW S, IsFiniteSet(S), NEW f, \A s \in S : f[s] \in Nat,
         NEW x, x \notin S, f[x] \in Nat
  PROVE  SumOver(f, S \cup {x}) = SumOver(f, S) + f[x]
  <1> DEFINE X == {x} \X (1..f[x])
  <1>1. Tokens(f, S \cup {x}) = Tokens(f, S) \cup X
    BY DEF Tokens
  <1>2. Tokens(f, S) \cap X = {}
    BY DEF Tokens
  <1>3. IsFiniteSet(Tokens(f, S))
    BY SumType
  <1>4. IsFiniteSet(X) /\ Cardinality(X) = f[x]
    BY TokensOfOne, Zenon
  <1>5. Cardinality(Tokens(f, S) \cup X) =
          Cardinality(Tokens(f, S)) + Cardinality(X) - Cardinality({})
    <2> HIDE DEF X
    <2> QED BY <1>2, <1>3, <1>4, FS_Union
  <1>6. Cardinality({}) = 0
    BY FS_EmptySet
  <1>7. Cardinality(Tokens(f, S)) \in Nat
    BY <1>3, FS_CardinalityType
  <1>8. Cardinality(Tokens(f, S) \cup X) = Cardinality(Tokens(f, S)) + f[x]
    <2> HIDE DEF X
    <2> QED BY <1>4, <1>5, <1>6, <1>7
  <1> HIDE DEF X
  <1> QED BY <1>1, <1>8, Zenon DEF SumOver

\* Removing an element takes its value out of the sum.
LEMMA SumRemove ==
  ASSUME NEW S, IsFiniteSet(S), NEW f, \A s \in S : f[s] \in Nat,
         NEW x \in S
  PROVE  /\ SumOver(f, S) = SumOver(f, S \ {x}) + f[x]
         /\ f[x] <= SumOver(f, S)
  <1>1. IsFiniteSet(S \ {x})
    BY FS_RemoveElement
  <1>2. S = (S \ {x}) \cup {x}
    OBVIOUS
  <1>3. SumOver(f, (S \ {x}) \cup {x}) = SumOver(f, S \ {x}) + f[x]
    BY <1>1, SumAdd, Zenon
  <1>4. SumOver(f, S \ {x}) \in Nat
    BY <1>1, SumType
  <1>5. f[x] \in Nat
    OBVIOUS
  <1>6. SumOver(f, S) = SumOver(f, S \ {x}) + f[x]
    BY <1>2, <1>3
  <1> QED BY <1>4, <1>5, <1>6

\* A sum over a smaller set is no larger.
LEMMA SumSubset ==
  ASSUME NEW S, IsFiniteSet(S), NEW f, \A s \in S : f[s] \in Nat,
         NEW R \in SUBSET S
  PROVE  SumOver(f, R) <= SumOver(f, S)
  <1>1. Tokens(f, R) \in SUBSET Tokens(f, S)
    BY DEF Tokens
  <1>2. IsFiniteSet(Tokens(f, S))
    BY SumType
  <1> QED BY <1>1, <1>2, FS_Subset DEF SumOver

-----------------------------------------------------------------------------
(* What the operations of Ledger do to the fields of an account, for every *)
(* account and every amount.  The other proofs use these facts and never   *)
(* look inside the operations.                                             *)

\* A cheque is never empty: its minimum is positive.
LEMMA MinimumPaymentPositive == MinimumPayment \in Nat /\ MinimumPayment > 0
  BY LedgerAssumption DEF MinimumPayment

\* Debt is a natural number and it moves with the balance.
LEMMA DebtType ==
  ASSUME NEW a \in Account
  PROVE  Debt(a) \in Nat /\ Debt(a) >= -a.balance /\ (a.balance >= 0 => Debt(a) = 0)
  BY DEF Account, Debt, Greater

\* The account of a peer never seen before is an account.
LEMMA NewAccountFacts ==
  NewAccount \in Account
  BY LedgerAssumption DEF Account, NewAccount

\* Reserve adds to the reserved balance and touches nothing else.
LEMMA ReservedFacts ==
  ASSUME NEW a \in Account, NEW price \in Nat
  PROVE  LET b == Reserved(a, price) IN
         /\ b \in Account
         /\ b.reserved = a.reserved + price
         /\ b.connected = a.connected /\ b.balance = a.balance /\ b.surplus = a.surplus
         /\ b.originated = a.originated /\ b.shadow = a.shadow /\ b.paying = a.paying
         /\ b.threshold = a.threshold
  <1> DEFINE b == Reserved(a, price)
  <1>1. b \in Account
    BY DEF Account, Reserved
  <1>2. /\ b.reserved = a.reserved + price
        /\ b.connected = a.connected /\ b.balance = a.balance /\ b.surplus = a.surplus
        /\ b.originated = a.originated /\ b.shadow = a.shadow /\ b.paying = a.paying
        /\ b.threshold = a.threshold
    BY DEF Account, Reserved
  <1> QED BY <1>1, <1>2

\* Release lowers the reserved balance by the price, or to zero.
LEMMA ReleasedFacts ==
  ASSUME NEW a \in Account, NEW price \in Nat
  PROVE  LET b == Released(a, price) IN
         /\ b \in Account
         /\ b.reserved = IF price > a.reserved THEN 0 ELSE a.reserved - price
         /\ b.connected = a.connected /\ b.balance = a.balance /\ b.surplus = a.surplus
         /\ b.originated = a.originated /\ b.shadow = a.shadow /\ b.paying = a.paying
         /\ b.threshold = a.threshold
  <1> DEFINE b == Released(a, price)
  <1>1. b \in Account
    BY DEF Account, Released
  <1>2. /\ b.reserved = IF price > a.reserved THEN 0 ELSE a.reserved - price
        /\ b.connected = a.connected /\ b.balance = a.balance /\ b.surplus = a.surplus
        /\ b.originated = a.originated /\ b.shadow = a.shadow /\ b.paying = a.paying
        /\ b.threshold = a.threshold
    BY DEF Account, Released
  <1> QED BY <1>1, <1>2

\* Credit raises the debt by the price; an originated one raises the
\* originated debt by no more.
LEMMA CreditedFacts ==
  ASSUME NEW a \in Account, NEW price \in Nat, NEW originated \in BOOLEAN
  PROVE  LET b == Credited(a, price, originated) IN
         /\ b \in Account
         /\ b.balance = a.balance - price
         /\ b.originated \in {a.originated, a.originated - price, Smaller(b.balance, 0)}
         /\ b.originated = a.originated \/ b.originated >= Smaller(b.balance, 0)
         /\ b.connected = a.connected /\ b.reserved = a.reserved /\ b.surplus = a.surplus
         /\ b.shadow = a.shadow /\ b.paying = a.paying /\ b.threshold = a.threshold
  <1> DEFINE b == Credited(a, price, originated)
  <1>1. /\ a.balance - price \in Int /\ a.originated - price \in Int
        /\ Greater(a.originated - price, Smaller(a.balance - price, 0)) \in Int
    BY DEF Account, Greater, Smaller
  <1>2. b \in Account
    BY <1>1, Zenon DEF Account, Credited, OriginatedLimited
  <1>3. /\ b.balance = a.balance - price
        /\ b.originated \in {a.originated, a.originated - price, Smaller(b.balance, 0)}
        /\ b.originated = a.originated \/ b.originated >= Smaller(b.balance, 0)
        /\ b.connected = a.connected /\ b.reserved = a.reserved /\ b.surplus = a.surplus
        /\ b.shadow = a.shadow /\ b.paying = a.paying /\ b.threshold = a.threshold
    BY DEF Account, Credited, OriginatedLimited, Greater, Smaller
  <1> QED BY <1>2, <1>3

\* A refreshment lowers the debt by what was accepted and keeps the
\* originated debt within it.
LEMMA RefreshedFacts ==
  ASSUME NEW a \in Account, NEW accepted \in Nat, NEW stamp \in Int
  PROVE  LET b == Refreshed(a, accepted, stamp) IN
         /\ b \in Account
         /\ b.balance = a.balance + accepted
         /\ b.originated >= Smaller(b.balance, 0)
         /\ b.connected = a.connected /\ b.reserved = a.reserved /\ b.surplus = a.surplus
         /\ b.shadow = a.shadow /\ b.paying = a.paying /\ b.threshold = a.threshold
  <1> DEFINE b == Refreshed(a, accepted, stamp)
  <1>1. /\ a.balance + accepted \in Int
        /\ Greater(a.originated, Smaller(a.balance + accepted, 0)) \in Int
    BY DEF Account, Greater, Smaller
  <1>2. b \in Account
    BY <1>1, Zenon DEF Account, Refreshed, OriginatedLimited
  <1>3. /\ b.balance = a.balance + accepted
        /\ b.originated >= Smaller(b.balance, 0)
        /\ b.connected = a.connected /\ b.reserved = a.reserved /\ b.surplus = a.surplus
        /\ b.shadow = a.shadow /\ b.paying = a.paying /\ b.threshold = a.threshold
    BY DEF Account, Refreshed, OriginatedLimited, Greater, Smaller
  <1> QED BY <1>2, <1>3

\* The start of a cheque puts its amount into the shadow reserve.
LEMMA PaymentStartedFacts ==
  ASSUME NEW a \in Account
  PROVE  LET b == PaymentStarted(a) IN
         /\ b \in Account
         /\ b.paying = TRUE
         /\ b.shadow = a.shadow + PaymentAmount(a)
         /\ b.connected = a.connected /\ b.balance = a.balance /\ b.surplus = a.surplus
         /\ b.originated = a.originated /\ b.reserved = a.reserved
         /\ b.threshold = a.threshold
  <1> DEFINE b == PaymentStarted(a)
  <1>1. a.shadow + PaymentAmount(a) \in Int
    BY DEF Account, PaymentAmount
  <1>2. b \in Account
    BY <1>1, Zenon DEF Account, PaymentStarted, PaymentAmount
  <1>3. /\ b.paying = TRUE
        /\ b.shadow = a.shadow + PaymentAmount(a)
        /\ b.connected = a.connected /\ b.balance = a.balance /\ b.surplus = a.surplus
        /\ b.originated = a.originated /\ b.reserved = a.reserved
        /\ b.threshold = a.threshold
    BY DEF Account, PaymentStarted, PaymentAmount
  <1> QED BY <1>2, <1>3

\* A cheque that was sent lowers the balance debt and the originated debt by
\* its amount and leaves the shadow reserve.
LEMMA PaymentSentFacts ==
  ASSUME NEW a \in Account, NEW amount \in Nat
  PROVE  LET b == PaymentSent(a, amount) IN
         /\ b \in Account
         /\ b.paying = FALSE
         /\ b.shadow = a.shadow - amount
         /\ b.balance = a.balance + amount
         /\ b.originated = a.originated + amount
         /\ b.connected = a.connected /\ b.surplus = a.surplus
         /\ b.reserved = a.reserved /\ b.threshold = a.threshold
  <1> DEFINE b == PaymentSent(a, amount)
  <1>1. /\ a.shadow - amount \in Int /\ a.balance + amount \in Int
        /\ a.originated + amount \in Int
    BY DEF Account
  <1>2. b \in Account
    BY <1>1, Zenon DEF Account, PaymentSent
  <1>3. /\ b.paying = FALSE
        /\ b.shadow = a.shadow - amount
        /\ b.balance = a.balance + amount
        /\ b.originated = a.originated + amount
        /\ b.connected = a.connected /\ b.surplus = a.surplus
        /\ b.reserved = a.reserved /\ b.threshold = a.threshold
    BY DEF Account, PaymentSent
  <1> QED BY <1>2, <1>3

\* A cheque that failed leaves the shadow reserve, and nothing is paid.
LEMMA PaymentFailedFacts ==
  ASSUME NEW a \in Account, NEW amount \in Nat, NEW now \in Int
  PROVE  LET b == PaymentFailed(a, amount, now) IN
         /\ b \in Account
         /\ b.paying = FALSE
         /\ b.shadow = a.shadow - amount
         /\ b.connected = a.connected /\ b.balance = a.balance /\ b.surplus = a.surplus
         /\ b.originated = a.originated /\ b.reserved = a.reserved
         /\ b.threshold = a.threshold
  <1> DEFINE b == PaymentFailed(a, amount, now)
  <1>1. a.shadow - amount \in Int
    BY DEF Account
  <1>2. b \in Account
    BY <1>1, Zenon DEF Account, PaymentFailed
  <1>3. /\ b.paying = FALSE
        /\ b.shadow = a.shadow - amount
        /\ b.connected = a.connected /\ b.balance = a.balance /\ b.surplus = a.surplus
        /\ b.originated = a.originated /\ b.reserved = a.reserved
        /\ b.threshold = a.threshold
    BY DEF Account, PaymentFailed
  <1> QED BY <1>2, <1>3

\* A payment received never increases our debt, and every unit of it is
\* found again: the balance falls or the surplus grows by it.
LEMMA PaymentReceivedFacts ==
  ASSUME NEW a \in Account, NEW amount \in Nat
  PROVE  LET b == PaymentReceived(a, amount) IN
         /\ b \in Account
         /\ b.balance - b.surplus = a.balance - a.surplus - amount
         /\ Debt(b) = Debt(a)
         /\ b.connected = a.connected /\ b.originated = a.originated
         /\ b.reserved = a.reserved /\ b.shadow = a.shadow /\ b.paying = a.paying
         /\ b.threshold = a.threshold
  <1> DEFINE b == PaymentReceived(a, amount)
  <1>1. /\ a.surplus + amount \in Nat /\ Greater(a.balance - amount, 0) \in Int
        /\ a.surplus + Greater(amount - a.balance, 0) \in Nat
    BY DEF Account, Greater
  <1>2. b \in Account
    BY <1>1, Zenon DEF Account, PaymentReceived, Debt
  <1>3. /\ b.balance - b.surplus = a.balance - a.surplus - amount
        /\ Debt(b) = Debt(a)
        /\ b.connected = a.connected /\ b.originated = a.originated
        /\ b.reserved = a.reserved /\ b.shadow = a.shadow /\ b.paying = a.paying
        /\ b.threshold = a.threshold
    BY DEF Account, PaymentReceived, Greater, Debt
  <1> QED BY <1>2, <1>3

\* A refreshment of the peer lowers the balance by its amount.
LEMMA RefreshmentReceivedFacts ==
  ASSUME NEW a \in Account, NEW amount \in Nat
  PROVE  LET b == RefreshmentReceived(a, amount) IN
         /\ b \in Account
         /\ b.balance = a.balance - amount
         /\ b.connected = a.connected /\ b.surplus = a.surplus
         /\ b.originated = a.originated /\ b.reserved = a.reserved
         /\ b.shadow = a.shadow /\ b.paying = a.paying /\ b.threshold = a.threshold
  <1> DEFINE b == RefreshmentReceived(a, amount)
  <1>1. b \in Account
    BY DEF Account, RefreshmentReceived
  <1>2. /\ b.balance = a.balance - amount
        /\ b.connected = a.connected /\ b.surplus = a.surplus
        /\ b.originated = a.originated /\ b.reserved = a.reserved
        /\ b.shadow = a.shadow /\ b.paying = a.paying /\ b.threshold = a.threshold
    BY DEF Account, RefreshmentReceived
  <1> QED BY <1>1, <1>2

\* PrepareDebit adds the price to the shadow reserve.
LEMMA DebitPreparedFacts ==
  ASSUME NEW a \in Account, NEW price \in Nat
  PROVE  LET b == DebitPrepared(a, price) IN
         /\ b \in Account
         /\ b.shadow = a.shadow + price
         /\ b.connected = a.connected /\ b.balance = a.balance /\ b.surplus = a.surplus
         /\ b.originated = a.originated /\ b.reserved = a.reserved
         /\ b.paying = a.paying /\ b.threshold = a.threshold
  <1> DEFINE b == DebitPrepared(a, price)
  <1>1. b \in Account
    BY DEF Account, DebitPrepared
  <1>2. /\ b.shadow = a.shadow + price
        /\ b.connected = a.connected /\ b.balance = a.balance /\ b.surplus = a.surplus
        /\ b.originated = a.originated /\ b.reserved = a.reserved
        /\ b.paying = a.paying /\ b.threshold = a.threshold
    BY DEF Account, DebitPrepared
  <1> QED BY <1>1, <1>2

\* A debit is found again too: the surplus falls or the balance grows by it.
LEMMA DebitAppliedFacts ==
  ASSUME NEW a \in Account, NEW price \in Nat
  PROVE  LET b == DebitApplied(a, price) IN
         /\ b \in Account
         /\ b.balance - b.surplus = a.balance - a.surplus + price
         /\ b.balance >= a.balance
         /\ b.shadow = a.shadow - price
         /\ \/ b.originated = a.originated /\ b.balance = a.balance
            \/ b.originated >= Smaller(b.balance, 0)
         /\ b.connected = a.connected /\ b.reserved = a.reserved
         /\ b.paying = a.paying /\ b.threshold = a.threshold
  <1> DEFINE b == DebitApplied(a, price)
  <1>1. /\ a.shadow - price \in Int /\ a.balance + (price - a.surplus) \in Int
        /\ (a.surplus >= price => a.surplus - price \in Nat)
        /\ Greater(a.originated, Smaller(a.balance + (price - a.surplus), 0)) \in Int
    BY DEF Account, Greater, Smaller
  <1>2. b \in Account
    BY <1>1, Zenon DEF Account, DebitApplied, BalanceIncreased, OriginatedLimited
  <1>3. /\ b.balance - b.surplus = a.balance - a.surplus + price
        /\ b.balance >= a.balance
        /\ b.shadow = a.shadow - price
        /\ \/ b.originated = a.originated /\ b.balance = a.balance
           \/ b.originated >= Smaller(b.balance, 0)
        /\ b.connected = a.connected /\ b.reserved = a.reserved
        /\ b.paying = a.paying /\ b.threshold = a.threshold
    BY DEF Account, DebitApplied, BalanceIncreased, OriginatedLimited, Greater, Smaller
  <1> QED BY <1>2, <1>3

\* Cleanup moves the price from the shadow reserve to the ghost balance.
LEMMA DebitCleanedUpFacts ==
  ASSUME NEW a \in Account, NEW price \in Nat
  PROVE  LET b == DebitCleanedUp(a, price) IN
         /\ b \in Account
         /\ b.shadow = a.shadow - price
         /\ b.connected = a.connected /\ b.balance = a.balance /\ b.surplus = a.surplus
         /\ b.originated = a.originated /\ b.reserved = a.reserved
         /\ b.paying = a.paying /\ b.threshold = a.threshold
  <1> DEFINE b == DebitCleanedUp(a, price)
  <1>1. /\ a.shadow - price \in Int /\ a.ghost + price \in Nat
    BY DEF Account
  <1>2. b \in Account
    BY <1>1, Zenon DEF Account, DebitCleanedUp
  <1>3. /\ b.shadow = a.shadow - price
        /\ b.connected = a.connected /\ b.balance = a.balance /\ b.surplus = a.surplus
        /\ b.originated = a.originated /\ b.reserved = a.reserved
        /\ b.paying = a.paying /\ b.threshold = a.threshold
    BY DEF Account, DebitCleanedUp
  <1> QED BY <1>2, <1>3

\* Connect zeroes balance, surplus, reserved and shadow, and keeps the
\* originated balance, the threshold and the cheque in progress.
LEMMA ConnectedFacts ==
  ASSUME NEW a \in Account
  PROVE  LET b == Connected(a) IN
         /\ b \in Account
         /\ b.connected = TRUE
         /\ b.balance = 0 /\ b.surplus = 0 /\ b.reserved = 0 /\ b.shadow = 0
         /\ b.originated = a.originated /\ b.paying = a.paying
         /\ b.threshold = a.threshold
  <1> DEFINE b == Connected(a)
  <1>1. /\ 0 \in Nat /\ 0 \in Int /\ TRUE \in BOOLEAN
    OBVIOUS
  <1>2. b \in Account
    BY <1>1, Zenon DEF Account, Connected
  <1>3. /\ b.connected = TRUE
        /\ b.balance = 0 /\ b.surplus = 0 /\ b.reserved = 0 /\ b.shadow = 0
        /\ b.originated = a.originated /\ b.paying = a.paying
        /\ b.threshold = a.threshold
    BY DEF Account, Connected
  <1> QED BY <1>2, <1>3

\* Disconnect only clears the connected flag.
LEMMA DisconnectedFacts ==
  ASSUME NEW a \in Account
  PROVE  LET b == Disconnected(a) IN
         /\ b \in Account
         /\ b.connected = FALSE
         /\ b.balance = a.balance /\ b.surplus = a.surplus /\ b.reserved = a.reserved
         /\ b.shadow = a.shadow /\ b.originated = a.originated /\ b.paying = a.paying
         /\ b.threshold = a.threshold
  <1> DEFINE b == Disconnected(a)
  <1>1. b \in Account
    BY Zenon DEF Account, Disconnected
  <1>2. /\ b.connected = FALSE
        /\ b.balance = a.balance /\ b.surplus = a.surplus /\ b.reserved = a.reserved
        /\ b.shadow = a.shadow /\ b.originated = a.originated /\ b.paying = a.paying
        /\ b.threshold = a.threshold
    BY DEF Account, Disconnected
  <1> QED BY <1>1, <1>2

\* A restart keeps the stored balances and zeroes the rest.
LEMMA RestartedFacts ==
  ASSUME NEW a \in Account
  PROVE  LET b == Restarted(a) IN
         /\ b \in Account
         /\ b.connected = FALSE /\ b.paying = FALSE
         /\ b.reserved = 0 /\ b.shadow = 0
         /\ b.balance = a.balance /\ b.surplus = a.surplus /\ b.originated = a.originated
  <1> DEFINE b == Restarted(a)
  <1>1. NewAccount \in Account
    BY NewAccountFacts
  <1>2. b \in Account
    BY <1>1, Zenon DEF Account, Restarted
  <1>3. /\ b.connected = FALSE /\ b.paying = FALSE
        /\ b.reserved = 0 /\ b.shadow = 0
        /\ b.balance = a.balance /\ b.surplus = a.surplus /\ b.originated = a.originated
    BY LedgerAssumption DEF Account, Restarted, NewAccount
  <1> QED BY <1>2, <1>3

-----------------------------------------------------------------------------
\* Most leaves are first-order; the ones with arithmetic cite SMT.
USE Zenon

-----------------------------------------------------------------------------
(* What the steps of a request and of a debit do to the sums. *)

\* The sums over requests and debits are natural numbers, and what is not
\* credited is part of what is open.
LEMMA TotalsType ==
  ASSUME TypeOK, NEW p
  PROVE  /\ IsFiniteSet(Open(p)) /\ IsFiniteSet(Uncredited(p)) /\ IsFiniteSet(Prepared(p))
         /\ \A r \in Requests : RequestPrices[r] \in Nat
         /\ \A d \in Debits : DebitPrices[d] \in Nat
         /\ OpenTotal(p) \in Nat /\ UncreditedTotal(p) \in Nat /\ PreparedTotal(p) \in Nat
         /\ UncreditedTotal(p) <= OpenTotal(p)
  <1>1. \A r \in Requests : RequestPrices[r] \in Nat
    <2>1. \A x \in Request : x.price = 0 \/ x.price \in Prices
      BY SMTT(20) DEF Request, NoRequest
    <2>2. \A r \in Requests : request[r] \in Request /\ RequestPrices[r] = request[r].price
      BY DEF TypeOK, RequestPrices
    <2>3. Prices \subseteq Nat /\ 0 \in Nat
      BY AccountingAssumption
    <2> QED BY <2>1, <2>2, <2>3
  <1>2. \A d \in Debits : DebitPrices[d] \in Nat
    <2>1. \A x \in Debit : x.price = 0 \/ x.price \in Prices
      BY SMTT(20) DEF Debit, NoDebit
    <2>2. \A d \in Debits : debit[d] \in Debit /\ DebitPrices[d] = debit[d].price
      BY DEF TypeOK, DebitPrices
    <2>3. Prices \subseteq Nat /\ 0 \in Nat
      BY AccountingAssumption
    <2> QED BY <2>1, <2>2, <2>3
  <1>3. /\ Open(p) \in SUBSET Requests
        /\ Uncredited(p) \in SUBSET Open(p)
        /\ Uncredited(p) \in SUBSET Requests
        /\ Prepared(p) \in SUBSET Debits
    BY DEF Open, Uncredited, Prepared
  <1>4. IsFiniteSet(Open(p)) /\ IsFiniteSet(Uncredited(p)) /\ IsFiniteSet(Prepared(p))
    BY <1>3, FS_Subset, AccountingAssumption
  <1>5. OpenTotal(p) \in Nat
    BY <1>1, <1>3, <1>4, SumType DEF OpenTotal
  <1>6. UncreditedTotal(p) \in Nat
    BY <1>1, <1>3, <1>4, SumType DEF UncreditedTotal
  <1>7. PreparedTotal(p) \in Nat
    BY <1>2, <1>3, <1>4, SumType DEF PreparedTotal
  <1>8. UncreditedTotal(p) <= OpenTotal(p)
    BY <1>1, <1>3, <1>4, SumSubset DEF UncreditedTotal, OpenTotal
  <1> QED BY <1>1, <1>2, <1>4, <1>5, <1>6, <1>7, <1>8

\* The same for all peers at once.
LEMMA TotalsNat ==
  TypeOK => \A p \in Peers : OpenTotal(p) \in Nat /\ UncreditedTotal(p) \in Nat
  BY TotalsType

\* The same after a step.
LEMMA TotalsNatPrime ==
  TypeOK' => (\A p \in Peers : OpenTotal(p) \in Nat /\ UncreditedTotal(p) \in Nat)'
  BY TotalsNat, PTL

\* The step of a request that reserves its price.
StartsRequest(r, p, price, originated) ==
  /\ request[r].pc = "new"
  /\ request' = [request EXCEPT ![r] = Started(p, price, originated)]

\* A request that starts adds its price to both sums of its peer.
LEMMA RequestStarts ==
  ASSUME TypeOK, NEW r \in Requests,
         NEW p \in Peers, NEW price \in Prices, NEW originated \in BOOLEAN,
         StartsRequest(r, p, price, originated), NEW q \in Peers
  PROVE  /\ request' \in [Requests -> Request]
         /\ OpenTotal(q)' = OpenTotal(q) + IF q = p THEN price ELSE 0
         /\ UncreditedTotal(q)' = UncreditedTotal(q) + IF q = p THEN price ELSE 0
  <1> USE DEF StartsRequest
  <1>1. request' \in [Requests -> Request]
    BY DEF TypeOK, Request, Started
  <1>2. request[r].peer = "none"
    BY SMTT(20) DEF TypeOK, Request, NoRequest
  <1>3. r \notin Open(q) /\ r \notin Uncredited(q)
    BY <1>2, AccountingAssumption DEF Open, Uncredited
  <1>4. /\ RequestPrices'[r] = price
        /\ \A x \in Requests \ {r} : RequestPrices'[x] = RequestPrices[x]
    BY DEF RequestPrices, TypeOK, Started
  <1>5. price \in Nat
    BY AccountingAssumption
  <1>6. /\ Open(q) \subseteq Requests \ {r}
        /\ Uncredited(q) \subseteq Requests \ {r}
    BY <1>3 DEF Open, Uncredited
  <1>7. /\ IsFiniteSet(Open(q)) /\ IsFiniteSet(Uncredited(q))
        /\ \A x \in Requests : RequestPrices[x] \in Nat
        /\ OpenTotal(q) \in Nat /\ UncreditedTotal(q) \in Nat
    BY TotalsType
  <1>8. /\ SumOver(RequestPrices', Open(q)) = OpenTotal(q)
        /\ SumOver(RequestPrices', Uncredited(q)) = UncreditedTotal(q)
    BY <1>4, <1>6, SumSame DEF OpenTotal, UncreditedTotal
  <1>9. CASE q = p
    <2>1. Open(q)' = Open(q) \cup {r} /\ Uncredited(q)' = Uncredited(q) \cup {r}
      BY <1>9 DEF Open, Uncredited, TypeOK, Started
    <2>2. /\ SumOver(RequestPrices', Open(q) \cup {r}) = SumOver(RequestPrices', Open(q)) + price
          /\ SumOver(RequestPrices', Uncredited(q) \cup {r}) =
               SumOver(RequestPrices', Uncredited(q)) + price
      BY <1>3, <1>4, <1>5, <1>6, <1>7, SumAdd, SMTT(20)
    <2> QED BY <1>1, <1>8, <1>9, <2>1, <2>2 DEF OpenTotal, UncreditedTotal
  <1>10. CASE q # p
    <2>1. Open(q)' = Open(q) /\ Uncredited(q)' = Uncredited(q)
      BY <1>2, <1>10, AccountingAssumption DEF Open, Uncredited, TypeOK, Started
    <2> QED BY <1>1, <1>7, <1>8, <1>10, <2>1, SMTT(20) DEF OpenTotal, UncreditedTotal
  <1> QED BY <1>9, <1>10

\* A request that is credited leaves the uncredited sum.
LEMMA RequestCredited ==
  ASSUME TypeOK, NEW r \in Requests, request[r].pc = "reserved",
         request' = [request EXCEPT ![r].pc = "credited"], NEW q \in Peers
  PROVE  /\ request' \in [Requests -> Request]
         /\ OpenTotal(q)' = OpenTotal(q)
         /\ UncreditedTotal(q)' =
              UncreditedTotal(q) - IF q = request[r].peer THEN request[r].price ELSE 0
  <1>1. /\ request[r] \in Request
        /\ request[r].price \in Prices /\ request[r].peer \in Peers
        /\ request[r].originated \in BOOLEAN
    BY SMTT(20) DEF TypeOK, Request, NoRequest
  <1>2. /\ request'[r] = [pc |-> "credited", peer |-> request[r].peer,
                          price |-> request[r].price, originated |-> request[r].originated]
        /\ \A x \in Requests \ {r} : request'[x] = request[x]
    BY <1>1 DEF TypeOK, Request, NoRequest
  <1>3. request' \in [Requests -> Request]
    <2>1. request'[r] \in Request
      BY <1>1, <1>2, SMTT(20) DEF Request
    <2>2. \A x \in Requests : request'[x] \in Request
      BY <1>2, <2>1 DEF TypeOK
    <2>3. request' = [x \in Requests |-> request'[x]]
      BY DEF TypeOK
    <2> QED BY <2>2, <2>3
  <1>4. RequestPrices' = RequestPrices /\ Open(q)' = Open(q)
    BY <1>2, SMTT(20) DEF RequestPrices, Open
  <1>5. Uncredited(q)' = Uncredited(q) \ {r}
    BY <1>2, <1>4, SMTT(20) DEF Uncredited
  <1>6. /\ IsFiniteSet(Uncredited(q))
        /\ \A x \in Requests : RequestPrices[x] \in Nat
        /\ UncreditedTotal(q) \in Nat
        /\ Uncredited(q) \subseteq Requests
    BY TotalsType DEF Uncredited, Open
  <1>7. UncreditedTotal(q)' = SumOver(RequestPrices, Uncredited(q) \ {r})
    BY <1>4, <1>5 DEF UncreditedTotal
  <1>8. IsFiniteSet(Uncredited(q) \ {r})
    BY <1>6, FS_RemoveElement
  <1>9. SumOver(RequestPrices, Uncredited(q) \ {r}) \in Nat
    BY <1>6, <1>8, SumType
  <1>10. CASE q = request[r].peer
    <2>1. r \in Uncredited(q)
      BY <1>10 DEF Uncredited, Open
    <2>2. UncreditedTotal(q) = SumOver(RequestPrices, Uncredited(q) \ {r}) + RequestPrices[r]
      BY <1>6, <2>1, SumRemove DEF UncreditedTotal
    <2>3. RequestPrices[r] = request[r].price
      BY DEF RequestPrices
    <2>4. request[r].price \in Nat
      BY <1>1, AccountingAssumption
    <2> QED BY <1>3, <1>4, <1>7, <1>9, <1>10, <2>2, <2>3, <2>4, SMTT(20) DEF OpenTotal
  <1>11. CASE q # request[r].peer
    <2>1. Uncredited(q) \ {r} = Uncredited(q)
      BY <1>11 DEF Uncredited, Open
    <2> QED BY <1>3, <1>4, <1>6, <1>7, <1>11, <2>1, SMTT(20) DEF OpenTotal, UncreditedTotal
  <1> QED BY <1>10, <1>11

\* A request that ends leaves both sums of its peer.
LEMMA RequestEnds ==
  ASSUME TypeOK, NEW r \in Requests, request[r].pc \in {"reserved", "credited"},
         request' = [request EXCEPT ![r] = NoRequest("done")], NEW q \in Peers
  PROVE  /\ request' \in [Requests -> Request]
         /\ request[r].price \in Nat
         /\ request[r].peer = q =>
              /\ request[r].price <= OpenTotal(q)
              /\ OpenTotal(q)' = OpenTotal(q) - request[r].price
         /\ request[r].peer # q =>
              OpenTotal(q)' = OpenTotal(q) /\ UncreditedTotal(q)' = UncreditedTotal(q)
         /\ UncreditedTotal(q)' <= UncreditedTotal(q)
  <1>1. request[r].price \in Prices /\ request[r].peer \in Peers
    BY SMTT(20) DEF TypeOK, Request, NoRequest
  <1>2. request[r].price \in Nat /\ RequestPrices[r] = request[r].price
    BY <1>1, AccountingAssumption DEF RequestPrices
  <1>3. request' \in [Requests -> Request]
    BY DEF TypeOK, Request
  <1>4. /\ request'[r] = NoRequest("done")
        /\ \A x \in Requests \ {r} : request'[x] = request[x]
    BY DEF TypeOK
  <1>5. /\ Open(q)' = Open(q) \ {r}
        /\ Uncredited(q)' = Uncredited(q) \ {r}
    BY <1>4, AccountingAssumption, SMTT(20) DEF Open, Uncredited, NoRequest
  <1>6. \A x \in Requests \ {r} : RequestPrices'[x] = RequestPrices[x]
    BY <1>4, SMTT(20) DEF RequestPrices
  <1>7. /\ IsFiniteSet(Open(q)) /\ IsFiniteSet(Uncredited(q))
        /\ \A x \in Requests : RequestPrices[x] \in Nat
        /\ Open(q) \subseteq Requests /\ Uncredited(q) \subseteq Requests
    BY TotalsType DEF Uncredited, Open
  <1>8. /\ OpenTotal(q)' = SumOver(RequestPrices, Open(q) \ {r})
        /\ UncreditedTotal(q)' = SumOver(RequestPrices, Uncredited(q) \ {r})
    <2>1. /\ SumOver(RequestPrices', Open(q) \ {r}) = SumOver(RequestPrices, Open(q) \ {r})
          /\ SumOver(RequestPrices', Uncredited(q) \ {r}) =
               SumOver(RequestPrices, Uncredited(q) \ {r})
      BY <1>6, <1>7, SumSame
    <2> QED BY <1>5, <2>1 DEF OpenTotal, UncreditedTotal
  <1>9. UncreditedTotal(q)' <= UncreditedTotal(q)
    <2>1. Uncredited(q) \ {r} \in SUBSET Uncredited(q)
      OBVIOUS
    <2> QED BY <1>7, <1>8, <2>1, SumSubset DEF UncreditedTotal
  <1>10. ASSUME request[r].peer = q
         PROVE  /\ request[r].price <= OpenTotal(q)
                /\ OpenTotal(q)' = OpenTotal(q) - request[r].price
    <2>1. r \in Open(q)
      BY <1>10 DEF Open
    <2>2. /\ OpenTotal(q) = SumOver(RequestPrices, Open(q) \ {r}) + RequestPrices[r]
          /\ RequestPrices[r] <= OpenTotal(q)
      BY <1>7, <2>1, SumRemove DEF OpenTotal
    <2>3. IsFiniteSet(Open(q) \ {r})
      BY <1>7, FS_RemoveElement
    <2>4. SumOver(RequestPrices, Open(q) \ {r}) \in Nat
      BY <1>7, <2>3, SumType
    <2> QED BY <1>2, <1>8, <2>2, <2>4, SMTT(20)
  <1>11. ASSUME request[r].peer # q
         PROVE  OpenTotal(q)' = OpenTotal(q) /\ UncreditedTotal(q)' = UncreditedTotal(q)
    <2>1. Open(q) \ {r} = Open(q) /\ Uncredited(q) \ {r} = Uncredited(q)
      BY <1>11 DEF Open, Uncredited
    <2> QED BY <1>8, <2>1 DEF OpenTotal, UncreditedTotal
  <1> QED BY <1>2, <1>3, <1>9, <1>10, <1>11

\* A debit that is prepared adds its price to the sum of its peer.
LEMMA DebitStarts ==
  ASSUME TypeOK, NEW d \in Debits, debit[d].pc = "new",
         NEW p \in Peers, NEW price \in Prices,
         debit' = [debit EXCEPT ![d] = [pc |-> "prepared", peer |-> p, price |-> price]],
         NEW q \in Peers
  PROVE  /\ debit' \in [Debits -> Debit]
         /\ PreparedTotal(q)' = PreparedTotal(q) + IF q = p THEN price ELSE 0
  <1>1. debit' \in [Debits -> Debit]
    BY DEF TypeOK, Debit
  <1>2. debit[d].peer = "none"
    BY SMTT(20) DEF TypeOK, Debit, NoDebit
  <1>3. d \notin Prepared(q)
    BY <1>2, AccountingAssumption DEF Prepared
  <1>4. /\ DebitPrices'[d] = price
        /\ \A x \in Debits \ {d} : DebitPrices'[x] = DebitPrices[x]
    BY DEF DebitPrices, TypeOK
  <1>5. price \in Nat
    BY AccountingAssumption
  <1>6. Prepared(q) \subseteq Debits \ {d}
    BY <1>3 DEF Prepared
  <1>7. /\ IsFiniteSet(Prepared(q))
        /\ \A x \in Debits : DebitPrices[x] \in Nat
        /\ PreparedTotal(q) \in Nat
    BY TotalsType
  <1>8. SumOver(DebitPrices', Prepared(q)) = PreparedTotal(q)
    BY <1>4, <1>6, SumSame DEF PreparedTotal
  <1>9. CASE q = p
    <2>1. Prepared(q)' = Prepared(q) \cup {d}
      BY <1>9 DEF Prepared, TypeOK
    <2>2. SumOver(DebitPrices', Prepared(q) \cup {d}) = SumOver(DebitPrices', Prepared(q)) + price
      BY <1>3, <1>4, <1>5, <1>6, <1>7, SumAdd, SMTT(20)
    <2> QED BY <1>1, <1>8, <1>9, <2>1, <2>2 DEF PreparedTotal
  <1>10. CASE q # p
    <2>1. Prepared(q)' = Prepared(q)
      BY <1>2, <1>10, AccountingAssumption DEF Prepared, TypeOK
    <2> QED BY <1>1, <1>7, <1>8, <1>10, <2>1, SMTT(20) DEF PreparedTotal
  <1> QED BY <1>9, <1>10

\* A debit that is applied or cleaned up leaves the sum of its peer.
LEMMA DebitEnds ==
  ASSUME TypeOK, NEW d \in Debits, debit[d].pc = "prepared",
         debit' = [debit EXCEPT ![d] = NoDebit("done")], NEW q \in Peers
  PROVE  /\ debit' \in [Debits -> Debit]
         /\ debit[d].price \in Nat /\ debit[d].peer \in Peers
         /\ PreparedTotal(q)' =
              PreparedTotal(q) - IF q = debit[d].peer THEN debit[d].price ELSE 0
  <1>1. debit[d].price \in Prices /\ debit[d].peer \in Peers
    BY SMTT(20) DEF TypeOK, Debit, NoDebit
  <1>2. debit[d].price \in Nat /\ DebitPrices[d] = debit[d].price
    BY <1>1, AccountingAssumption DEF DebitPrices
  <1>3. debit' \in [Debits -> Debit]
    BY DEF TypeOK, Debit
  <1>4. /\ debit'[d] = NoDebit("done")
        /\ \A x \in Debits \ {d} : debit'[x] = debit[x]
    BY DEF TypeOK
  <1>5. Prepared(q)' = Prepared(q) \ {d}
    BY <1>4, AccountingAssumption, SMTT(20) DEF Prepared, NoDebit
  <1>6. \A x \in Debits \ {d} : DebitPrices'[x] = DebitPrices[x]
    BY <1>4, SMTT(20) DEF DebitPrices
  <1>7. /\ IsFiniteSet(Prepared(q))
        /\ \A x \in Debits : DebitPrices[x] \in Nat
        /\ Prepared(q) \subseteq Debits
        /\ PreparedTotal(q) \in Nat
    BY TotalsType DEF Prepared
  <1>8. PreparedTotal(q)' = SumOver(DebitPrices, Prepared(q) \ {d})
    <2>1. SumOver(DebitPrices', Prepared(q) \ {d}) = SumOver(DebitPrices, Prepared(q) \ {d})
      BY <1>6, <1>7, SumSame
    <2> QED BY <1>5, <2>1 DEF PreparedTotal
  <1>9. CASE q = debit[d].peer
    <2>1. d \in Prepared(q)
      BY <1>9 DEF Prepared
    <2>2. PreparedTotal(q) = SumOver(DebitPrices, Prepared(q) \ {d}) + DebitPrices[d]
      BY <1>7, <2>1, SumRemove DEF PreparedTotal
    <2>3. IsFiniteSet(Prepared(q) \ {d})
      BY <1>7, FS_RemoveElement
    <2>4. SumOver(DebitPrices, Prepared(q) \ {d}) \in Nat
      BY <1>7, <2>3, SumType
    <2> QED BY <1>1, <1>2, <1>3, <1>8, <1>9, <2>2, <2>4, SMTT(20)
  <1>10. CASE q # debit[d].peer
    <2>1. Prepared(q) \ {d} = Prepared(q)
      BY <1>10 DEF Prepared
    <2> QED BY <1>1, <1>2, <1>3, <1>7, <1>8, <1>10, <2>1, SMTT(20) DEF PreparedTotal
  <1> QED BY <1>9, <1>10

-----------------------------------------------------------------------------
(* The invariant of one account, as a relation between values, and what    *)
(* the operations of Ledger do to it.                                      *)

\* Account a with history s, cheque c, requests of price `open` in progress,
\* `uncredited` of it not credited, and debits of price `prepared`.
AccountInv(a, s, c, open, uncredited, prepared) ==
  /\ a.reserved <= open /\ open <= a.reserved + s.requests
  /\ Debt(a) + uncredited <= s.ceiling + s.requests + s.granted
  /\ a.shadow = prepared + c - s.debits
  /\ -a.originated <= Debt(a) + s.carried
  /\ a.paying <=> c > 0
  /\ a.connected => a.threshold <= s.ceiling

\* The types of the fields of an account.
LEMMA AccountFields ==
  ASSUME NEW a \in Account
  PROVE  /\ a.connected \in BOOLEAN /\ a.paying \in BOOLEAN
         /\ a.balance \in Int /\ a.originated \in Int /\ a.shadow \in Int
         /\ a.surplus \in Nat /\ a.reserved \in Nat /\ a.threshold \in Nat
  BY DEF Account

\* The types of the history of a connection.
LEMMA SessionFields ==
  ASSUME NEW s \in Session
  PROVE  /\ s.ceiling \in Nat /\ s.granted \in Nat /\ s.requests \in Nat
         /\ s.debits \in Nat /\ s.carried \in Nat
  BY DEF Session

\* Reserve keeps the invariant when it finds no overdraft: the new request is
\* in the exposure, which Overdraft bounds through the reserved balance.
LEMMA AccountInvReserve ==
  ASSUME NEW a \in Account, NEW s \in Session, NEW c \in Nat,
         NEW open \in Nat, NEW uncredited \in Nat, NEW prepared \in Nat,
         uncredited <= open, AccountInv(a, s, c, open, uncredited, prepared),
         a.connected, NEW price \in Nat, ~Overdraft(a, price)
  PROVE  AccountInv(Reserved(a, price), s, c, open + price, uncredited + price, prepared)
  <1> DEFINE b == Reserved(a, price)
  <1>1. /\ b \in Account
        /\ b.reserved = a.reserved + price
        /\ b.connected = a.connected /\ b.balance = a.balance /\ b.surplus = a.surplus
        /\ b.originated = a.originated /\ b.shadow = a.shadow /\ b.paying = a.paying
        /\ b.threshold = a.threshold
    BY ReservedFacts
  <1> HIDE DEF b
  <1>2. AccountInv(b, s, c, open + price, uncredited + price, prepared)
    BY <1>1, AccountFields, SessionFields, SMTT(20) DEF AccountInv, Overdraft, IncreasedExpectedDebt, Debt, Greater
  <1> QED BY <1>2 DEF b

\* A refreshment only lowers the debt.
LEMMA AccountInvRefresh ==
  ASSUME NEW a \in Account, NEW s \in Session, NEW c \in Nat,
         NEW open \in Nat, NEW uncredited \in Nat, NEW prepared \in Nat,
         AccountInv(a, s, c, open, uncredited, prepared),
         NEW accepted \in Nat, NEW stamp \in Int
  PROVE  AccountInv(Refreshed(a, accepted, stamp), s, c, open, uncredited, prepared)
  <1> DEFINE b == Refreshed(a, accepted, stamp)
  <1>1. /\ b \in Account
        /\ b.balance = a.balance + accepted
        /\ b.originated >= Smaller(b.balance, 0)
        /\ b.connected = a.connected /\ b.reserved = a.reserved /\ b.surplus = a.surplus
        /\ b.shadow = a.shadow /\ b.paying = a.paying /\ b.threshold = a.threshold
    BY RefreshedFacts
  <1> HIDE DEF b
  <1>2. AccountInv(b, s, c, open, uncredited, prepared)
    BY <1>1, AccountFields, SessionFields, SMTT(20) DEF AccountInv, Debt, Greater, Smaller
  <1> QED BY <1>2 DEF b

\* The start of a cheque keeps the invariant: the amount is in the shadow
\* reserve and the flag is set.
LEMMA AccountInvPay ==
  ASSUME NEW a \in Account, NEW s \in Session, NEW c \in Nat,
         NEW open \in Nat, NEW uncredited \in Nat, NEW prepared \in Nat,
         AccountInv(a, s, c, open, uncredited, prepared),
         NEW now \in Int, PaymentDue(a, now)
  PROVE  /\ PaymentAmount(a) \in Nat
         /\ AccountInv(PaymentStarted(a), s, PaymentAmount(a), open, uncredited, prepared)
  <1>1. PaymentAmount(a) \in Nat /\ PaymentAmount(a) > 0
    BY MinimumPaymentPositive, SMTT(20) DEF PaymentDue, PaymentAmount, Account
  <1>2. c = 0
    BY SMTT(20) DEF PaymentDue, AccountInv
  <1> DEFINE b == PaymentStarted(a)
  <1>3. /\ b \in Account
        /\ b.paying = TRUE
        /\ b.shadow = a.shadow + PaymentAmount(a)
        /\ b.connected = a.connected /\ b.balance = a.balance /\ b.surplus = a.surplus
        /\ b.originated = a.originated /\ b.reserved = a.reserved
        /\ b.threshold = a.threshold
    BY PaymentStartedFacts
  <1> HIDE DEF b
  <1>4. AccountInv(b, s, PaymentAmount(a), open, uncredited, prepared)
    BY <1>1, <1>2, <1>3, AccountFields, SessionFields, SMTT(20) DEF AccountInv, Debt, Greater
  <1> QED BY <1>1, <1>4 DEF b

\* Credit turns a request not credited into debt of the same amount.
LEMMA AccountInvCredit ==
  ASSUME NEW a \in Account, NEW s \in Session, NEW c \in Nat,
         NEW open \in Nat, NEW uncredited \in Nat, NEW prepared \in Nat,
         AccountInv(a, s, c, open, uncredited, prepared),
         NEW price \in Nat, NEW originated \in BOOLEAN, uncredited - price \in Nat
  PROVE  AccountInv(Credited(a, price, originated), s, c, open, uncredited - price, prepared)
  <1> DEFINE b == Credited(a, price, originated)
  <1>1. /\ b \in Account
        /\ b.balance = a.balance - price
        /\ b.originated \in {a.originated, a.originated - price, Smaller(b.balance, 0)}
        /\ b.originated = a.originated \/ b.originated >= Smaller(b.balance, 0)
        /\ b.connected = a.connected /\ b.reserved = a.reserved /\ b.surplus = a.surplus
        /\ b.shadow = a.shadow /\ b.paying = a.paying /\ b.threshold = a.threshold
    BY CreditedFacts
  <1> HIDE DEF b
  <1>2. AccountInv(b, s, c, open, uncredited - price, prepared)
    BY <1>1, AccountFields, SessionFields, SMTT(20) DEF AccountInv, Debt, Greater, Smaller
  <1> QED BY <1>2 DEF b

\* Release takes a request out of the reserved balance and out of the open
\* requests; what it cannot take was in progress at the last Connect.
LEMMA AccountInvRelease ==
  ASSUME NEW a \in Account, NEW s \in Session, NEW c \in Nat,
         NEW open \in Nat, NEW uncredited \in Nat, NEW prepared \in Nat,
         AccountInv(a, s, c, open, uncredited, prepared),
         NEW price \in Nat, price <= open, NEW left \in Nat, left <= uncredited
  PROVE  AccountInv(Released(a, price), s, c, open - price, left, prepared)
  <1> DEFINE b == Released(a, price)
  <1>1. /\ b \in Account
        /\ b.reserved = IF price > a.reserved THEN 0 ELSE a.reserved - price
        /\ b.connected = a.connected /\ b.balance = a.balance /\ b.surplus = a.surplus
        /\ b.originated = a.originated /\ b.shadow = a.shadow /\ b.paying = a.paying
        /\ b.threshold = a.threshold
    BY ReleasedFacts
  <1> HIDE DEF b
  <1>2. AccountInv(b, s, c, open - price, left, prepared)
    BY <1>1, AccountFields, SessionFields, SMTT(20) DEF AccountInv, Debt, Greater
  <1> QED BY <1>2 DEF b

\* The end of a cheque, sent or failed.
LEMMA AccountInvPaid ==
  ASSUME NEW a \in Account, NEW s \in Session, NEW c \in Nat,
         NEW open \in Nat, NEW uncredited \in Nat, NEW prepared \in Nat,
         AccountInv(a, s, c, open, uncredited, prepared), NEW now \in Int
  PROVE  /\ AccountInv(PaymentSent(a, c), s, 0, open, uncredited, prepared)
         /\ AccountInv(PaymentFailed(a, c, now), s, 0, open, uncredited, prepared)
  <1>1. AccountInv(PaymentSent(a, c), s, 0, open, uncredited, prepared)
    <2> DEFINE b == PaymentSent(a, c)
    <2>1. /\ b \in Account
          /\ b.paying = FALSE
          /\ b.shadow = a.shadow - c
          /\ b.balance = a.balance + c
          /\ b.originated = a.originated + c
          /\ b.connected = a.connected /\ b.surplus = a.surplus
          /\ b.reserved = a.reserved /\ b.threshold = a.threshold
      BY PaymentSentFacts
    <2> HIDE DEF b
    <2>2. AccountInv(b, s, 0, open, uncredited, prepared)
      BY <2>1, AccountFields, SessionFields, SMTT(20) DEF AccountInv, Debt, Greater
    <2> QED BY <2>2 DEF b
  <1>2. AccountInv(PaymentFailed(a, c, now), s, 0, open, uncredited, prepared)
    <2> DEFINE b == PaymentFailed(a, c, now)
    <2>1. /\ b \in Account
          /\ b.paying = FALSE
          /\ b.shadow = a.shadow - c
          /\ b.connected = a.connected /\ b.balance = a.balance /\ b.surplus = a.surplus
          /\ b.originated = a.originated /\ b.reserved = a.reserved
          /\ b.threshold = a.threshold
      BY PaymentFailedFacts
    <2> HIDE DEF b
    <2>2. AccountInv(b, s, 0, open, uncredited, prepared)
      BY <2>1, AccountFields, SessionFields, SMTT(20) DEF AccountInv, Debt, Greater
    <2> QED BY <2>2 DEF b
  <1> QED BY <1>1, <1>2

\* A payment or a refreshment of the peer: only the refreshment may raise our
\* debt, by what was granted.
LEMMA AccountInvReceive ==
  ASSUME NEW a \in Account, NEW s \in Session, NEW c \in Nat,
         NEW open \in Nat, NEW uncredited \in Nat, NEW prepared \in Nat,
         AccountInv(a, s, c, open, uncredited, prepared), NEW amount \in Nat
  PROVE  /\ AccountInv(PaymentReceived(a, amount), s, c, open, uncredited, prepared)
         /\ AccountInv(RefreshmentReceived(a, amount), [s EXCEPT !.granted = @ + amount],
                       c, open, uncredited, prepared)
         /\ [s EXCEPT !.granted = @ + amount] \in Session
  <1>1. AccountInv(PaymentReceived(a, amount), s, c, open, uncredited, prepared)
    <2> DEFINE b == PaymentReceived(a, amount)
    <2>1. /\ b \in Account
          /\ b.balance - b.surplus = a.balance - a.surplus - amount
          /\ Debt(b) = Debt(a)
          /\ b.connected = a.connected /\ b.originated = a.originated
          /\ b.reserved = a.reserved /\ b.shadow = a.shadow /\ b.paying = a.paying
          /\ b.threshold = a.threshold
      BY PaymentReceivedFacts
    <2> HIDE DEF b
    <2>2. AccountInv(b, s, c, open, uncredited, prepared)
      BY <2>1, AccountFields, SessionFields DEF AccountInv
    <2> QED BY <2>2 DEF b
  <1>2. [s EXCEPT !.granted = @ + amount] \in Session
    BY SMTT(20) DEF Session
  <1>3. AccountInv(RefreshmentReceived(a, amount), [s EXCEPT !.granted = @ + amount],
                   c, open, uncredited, prepared)
    <2> DEFINE b == RefreshmentReceived(a, amount)
               t == [s EXCEPT !.granted = @ + amount]
    <2>1. /\ b \in Account
          /\ b.balance = a.balance - amount
          /\ b.connected = a.connected /\ b.surplus = a.surplus
          /\ b.originated = a.originated /\ b.reserved = a.reserved
          /\ b.shadow = a.shadow /\ b.paying = a.paying /\ b.threshold = a.threshold
      BY RefreshmentReceivedFacts
    <2>2. /\ t.granted = s.granted + amount /\ t.ceiling = s.ceiling
          /\ t.requests = s.requests /\ t.debits = s.debits /\ t.carried = s.carried
      BY DEF Session
    <2> HIDE DEF b, t
    <2>3. AccountInv(b, t, c, open, uncredited, prepared)
      BY <2>1, <2>2, AccountFields, SessionFields, SMTT(20) DEF AccountInv, Debt, Greater
    <2> QED BY <2>3 DEF b, t
  <1> QED BY <1>1, <1>2, <1>3

\* A new threshold raises the ceiling when it is higher.
LEMMA AccountInvThreshold ==
  ASSUME NEW a \in Account, NEW s \in Session, NEW c \in Nat,
         NEW open \in Nat, NEW uncredited \in Nat, NEW prepared \in Nat,
         AccountInv(a, s, c, open, uncredited, prepared), NEW threshold \in Nat
  PROVE  LET b == [a EXCEPT !.threshold = threshold]
             t == [s EXCEPT !.ceiling = Greater(@, threshold)]
         IN  b \in Account /\ t \in Session /\ AccountInv(b, t, c, open, uncredited, prepared)
  <1> DEFINE b == [a EXCEPT !.threshold = threshold]
             t == [s EXCEPT !.ceiling = Greater(@, threshold)]
  <1>1. b \in Account
    BY DEF Account
  <1>2. t \in Session /\ t.ceiling >= s.ceiling /\ t.ceiling >= threshold
    BY SMTT(20) DEF Session, Greater
  <1>3. /\ t.requests = s.requests /\ t.granted = s.granted /\ t.debits = s.debits
        /\ t.carried = s.carried
    BY DEF Session
  <1>4. /\ b.threshold = threshold /\ b.reserved = a.reserved /\ b.balance = a.balance
        /\ b.shadow = a.shadow /\ b.originated = a.originated /\ b.paying = a.paying
        /\ b.connected = a.connected
    BY DEF Account
  <1>5. AccountInv(b, t, c, open, uncredited, prepared)
    <2> HIDE DEF b, t
    <2> QED BY <1>1, <1>2, <1>3, <1>4, SMTT(20) DEF AccountInv, Debt, Greater, Account, Session
  <1> QED BY <1>1, <1>2, <1>5

\* PrepareDebit, Apply and Cleanup move the shadow reserve with the debits
\* in progress, and never raise our debt.
LEMMA AccountInvDebit ==
  ASSUME NEW a \in Account, NEW s \in Session, NEW c \in Nat,
         NEW open \in Nat, NEW uncredited \in Nat, NEW prepared \in Nat,
         AccountInv(a, s, c, open, uncredited, prepared), NEW price \in Nat
  PROVE  /\ AccountInv(DebitPrepared(a, price), s, c, open, uncredited, prepared + price)
         /\ AccountInv(DebitApplied(a, price), s, c, open, uncredited, prepared - price)
         /\ AccountInv(DebitCleanedUp(a, price), s, c, open, uncredited, prepared - price)
  <1>1. AccountInv(DebitPrepared(a, price), s, c, open, uncredited, prepared + price)
    <2> DEFINE b == DebitPrepared(a, price)
    <2>1. /\ b \in Account
          /\ b.shadow = a.shadow + price
          /\ b.connected = a.connected /\ b.balance = a.balance /\ b.surplus = a.surplus
          /\ b.originated = a.originated /\ b.reserved = a.reserved
          /\ b.paying = a.paying /\ b.threshold = a.threshold
      BY DebitPreparedFacts
    <2> HIDE DEF b
    <2>2. AccountInv(b, s, c, open, uncredited, prepared + price)
      BY <2>1, AccountFields, SessionFields, SMTT(20) DEF AccountInv, Debt, Greater
    <2> QED BY <2>2 DEF b
  <1>2. AccountInv(DebitApplied(a, price), s, c, open, uncredited, prepared - price)
    <2> DEFINE b == DebitApplied(a, price)
    <2>1. /\ b \in Account
          /\ b.balance - b.surplus = a.balance - a.surplus + price
          /\ b.balance >= a.balance
          /\ b.shadow = a.shadow - price
          /\ \/ b.originated = a.originated /\ b.balance = a.balance
             \/ b.originated >= Smaller(b.balance, 0)
          /\ b.connected = a.connected /\ b.reserved = a.reserved
          /\ b.paying = a.paying /\ b.threshold = a.threshold
      BY DebitAppliedFacts
    <2> HIDE DEF b
    <2>2. AccountInv(b, s, c, open, uncredited, prepared - price)
      BY <2>1, AccountFields, SessionFields, SMTT(20) DEF AccountInv, Debt, Greater, Smaller
    <2> QED BY <2>2 DEF b
  <1>3. AccountInv(DebitCleanedUp(a, price), s, c, open, uncredited, prepared - price)
    <2> DEFINE b == DebitCleanedUp(a, price)
    <2>1. /\ b \in Account
          /\ b.shadow = a.shadow - price
          /\ b.connected = a.connected /\ b.balance = a.balance /\ b.surplus = a.surplus
          /\ b.originated = a.originated /\ b.reserved = a.reserved
          /\ b.paying = a.paying /\ b.threshold = a.threshold
      BY DebitCleanedUpFacts
    <2> HIDE DEF b
    <2>2. AccountInv(b, s, c, open, uncredited, prepared - price)
      BY <2>1, AccountFields, SessionFields, SMTT(20) DEF AccountInv, Debt, Greater
    <2> QED BY <2>2 DEF b
  <1> QED BY <1>1, <1>2, <1>3

\* Connect starts a new history from the requests and debits in progress.
LEMMA AccountInvConnect ==
  ASSUME NEW a \in Account, NEW s \in Session, NEW c \in Nat,
         NEW open \in Nat, NEW uncredited \in Nat, NEW prepared \in Nat,
         uncredited <= open, AccountInv(a, s, c, open, uncredited, prepared)
  PROVE  LET t == [ceiling |-> a.threshold, granted |-> 0, requests |-> open,
                   debits |-> prepared + c, carried |-> Greater(-a.originated, 0)]
         IN  /\ t \in Session
             /\ AccountInv(Connected(a), t, c, open, uncredited, prepared)
  <1> DEFINE b == Connected(a)
             t == [ceiling |-> a.threshold, granted |-> 0, requests |-> open,
                   debits |-> prepared + c, carried |-> Greater(-a.originated, 0)]
  <1>1. /\ b \in Account
        /\ b.connected = TRUE
        /\ b.balance = 0 /\ b.surplus = 0 /\ b.reserved = 0 /\ b.shadow = 0
        /\ b.originated = a.originated /\ b.paying = a.paying
        /\ b.threshold = a.threshold
    BY ConnectedFacts
  <1>2. Greater(-a.originated, 0) \in Nat /\ Greater(-a.originated, 0) >= -a.originated
    BY AccountFields, SMTT(20) DEF Greater
  <1>3. t \in Session
    BY <1>2, AccountFields, SMTT(20) DEF Session
  <1>4. /\ t.granted = 0 /\ t.ceiling = a.threshold /\ t.requests = open
        /\ t.debits = prepared + c /\ t.carried = Greater(-a.originated, 0)
    OBVIOUS
  <1> HIDE DEF b, t
  <1>5. AccountInv(b, t, c, open, uncredited, prepared)
    BY <1>1, <1>2, <1>4, AccountFields, SMTT(20) DEF AccountInv, Debt, Greater
  <1> QED BY <1>3, <1>5 DEF b, t

\* Disconnect changes nothing that the invariant depends on.
LEMMA AccountInvDisconnect ==
  ASSUME NEW a \in Account, NEW s \in Session, NEW c \in Nat,
         NEW open \in Nat, NEW uncredited \in Nat, NEW prepared \in Nat,
         AccountInv(a, s, c, open, uncredited, prepared)
  PROVE  AccountInv(Disconnected(a), s, c, open, uncredited, prepared)
  <1> DEFINE b == Disconnected(a)
  <1>1. /\ b \in Account
        /\ b.connected = FALSE
        /\ b.balance = a.balance /\ b.surplus = a.surplus /\ b.reserved = a.reserved
        /\ b.shadow = a.shadow /\ b.originated = a.originated /\ b.paying = a.paying
        /\ b.threshold = a.threshold
    BY DisconnectedFacts
  <1> HIDE DEF b
  <1>2. AccountInv(b, s, c, open, uncredited, prepared)
    BY <1>1, AccountFields, SessionFields DEF AccountInv, Debt, Greater
  <1> QED BY <1>2 DEF b

\* A restart keeps the stored balances, and no goroutine is left.
LEMMA AccountInvRestart ==
  ASSUME NEW a \in Account, NEW s \in Session, NEW c \in Nat,
         NEW open \in Nat, NEW uncredited \in Nat, NEW prepared \in Nat,
         AccountInv(a, s, c, open, uncredited, prepared)
  PROVE  LET t == [s EXCEPT !.debits = 0]
         IN  t \in Session /\ AccountInv(Restarted(a), t, 0, 0, 0, 0)
  <1> DEFINE t == [s EXCEPT !.debits = 0]
  <1>1. /\ t \in Session
        /\ t.requests = s.requests /\ t.granted = s.granted /\ t.debits = 0
        /\ t.carried = s.carried /\ t.ceiling = s.ceiling
    BY DEF Session
  <1>2. AccountInv(Restarted(a), t, 0, 0, 0, 0)
    <2> DEFINE b == Restarted(a)
    <2>1. /\ b \in Account
          /\ b.connected = FALSE /\ b.paying = FALSE
          /\ b.reserved = 0 /\ b.shadow = 0
          /\ b.balance = a.balance /\ b.surplus = a.surplus /\ b.originated = a.originated
      BY RestartedFacts
    <2> HIDE DEF b, t
    <2>2. AccountInv(b, t, 0, 0, 0, 0)
      BY <1>1, <2>1, AccountFields, SessionFields, SMTT(20) DEF AccountInv, Debt, Greater
    <2> QED BY <2>2 DEF b
  <1> QED BY <1>1, <1>2

-----------------------------------------------------------------------------
\* Most leaves are first-order; the ones with arithmetic cite SMT.
USE Zenon

\* While connected, the threshold in force is one the history knows of.
ThresholdKnown ==
  \A p \in Peers : account[p].connected => account[p].threshold <= session[p].ceiling

\* The inductive invariant.  ExposureBounded needs ReservedBacked (Reserve
\* looks at the reserved balance, not at the requests) and ThresholdKnown.
IInv ==
  /\ TypeOK
  /\ ReservedBacked
  /\ ExposureBounded
  /\ ShadowExact
  /\ OriginatedCovered
  /\ OnePayment
  /\ ThresholdKnown

-----------------------------------------------------------------------------
(* The invariant is preserved: one lemma per group of actions. *)

PeerInv(p) ==
  AccountInv(account[p], session[p], cheque[p],
             OpenTotal(p), UncreditedTotal(p), PreparedTotal(p))

\* The invariant, peer by peer.
LEMMA PeerInvEquiv == IInv <=> TypeOK /\ \A p \in Peers : PeerInv(p)
  BY DEF IInv, PeerInv, AccountInv, ReservedBacked, ExposureBounded, ShadowExact,
         OriginatedCovered, OnePayment, ThresholdKnown

\* The same after a step.
LEMMA PeerInvEquivPrime == TypeOK' /\ (\A p \in Peers : PeerInv(p)') => IInv'
  BY DEF IInv, PeerInv, AccountInv, ReservedBacked, ExposureBounded, ShadowExact,
         OriginatedCovered, OnePayment, ThresholdKnown

\* The types of what the invariant of a peer relates.
LEMMA PeerTypes ==
  ASSUME TypeOK, NEW p \in Peers
  PROVE  /\ account[p] \in Account /\ session[p] \in Session /\ cheque[p] \in Nat
         /\ OpenTotal(p) \in Nat /\ UncreditedTotal(p) \in Nat /\ PreparedTotal(p) \in Nat
         /\ UncreditedTotal(p) <= OpenTotal(p)
  BY TotalsType DEF TypeOK

\* The invariant holds initially.
LEMMA InitInv == Init => IInv
  <1> SUFFICES ASSUME Init PROVE IInv
    OBVIOUS
  <1>1. TypeOK
    <2>1. account \in [Peers -> Account]
      BY NewAccountFacts DEF Init
    <2>2. request \in [Requests -> Request] /\ debit \in [Debits -> Debit]
      BY DEF Init, Request, Debit
    <2>3. session \in [Peers -> Session]
      BY LedgerAssumption DEF Init, Session
    <2>4. cheque \in [Peers -> Nat] /\ grant \in [Peers -> Nat] /\ banned \subseteq Peers
      BY DEF Init
    <2>5. clock \in Nat /\ lives \in Nat
      BY AccountingAssumption DEF Init
    <2> QED BY <2>1, <2>2, <2>3, <2>4, <2>5 DEF TypeOK
  <1>2. ASSUME NEW p \in Peers PROVE PeerInv(p)
    <2>1. Open(p) = {} /\ Uncredited(p) = {} /\ Prepared(p) = {}
      BY AccountingAssumption DEF Init, Open, Uncredited, Prepared, NoRequest, NoDebit
    <2>2. OpenTotal(p) = 0 /\ UncreditedTotal(p) = 0 /\ PreparedTotal(p) = 0
      BY <2>1, SumEmpty DEF OpenTotal, UncreditedTotal, PreparedTotal
    <2>3. AccountInv(NewAccount, [ceiling |-> PaymentThreshold, granted |-> 0, requests |-> 0,
                                  debits |-> 0, carried |-> 0], 0, 0, 0, 0)
      BY LedgerAssumption, SMTT(20) DEF AccountInv, NewAccount, Debt, Greater
    <2> QED BY <2>2, <2>3 DEF PeerInv, Init
  <1> QED BY <1>1, <1>2, PeerInvEquiv

\* settle's last part, on an account that satisfies the invariant.
LEMMA PayIfDueInv ==
  ASSUME TypeOK, NEW p \in Peers, NEW a \in Account,
         NEW open \in Nat, NEW uncredited \in Nat,
         AccountInv(a, session[p], cheque[p], open, uncredited, PreparedTotal(p)),
         PayIfDue(p, a)
  PROVE  /\ account' \in [Peers -> Account] /\ cheque' \in [Peers -> Nat]
         /\ AccountInv(account'[p], session[p], cheque'[p], open, uncredited, PreparedTotal(p))
         /\ \A q \in Peers \ {p} : account'[q] = account[q] /\ cheque'[q] = cheque[q]
  <1>1. session[p] \in Session /\ cheque[p] \in Nat /\ PreparedTotal(p) \in Nat /\ clock \in Int
    BY PeerTypes, SMTT(20) DEF TypeOK
  <1>2. CASE PaymentDue(a, clock)
    <2>1. /\ PaymentAmount(a) \in Nat
          /\ AccountInv(PaymentStarted(a), session[p], PaymentAmount(a), open, uncredited,
                        PreparedTotal(p))
      BY <1>1, <1>2, AccountInvPay
    <2>2. PaymentStarted(a) \in Account
      BY PaymentStartedFacts
    <2>3. /\ account' = [account EXCEPT ![p] = PaymentStarted(a)]
          /\ cheque' = [cheque EXCEPT ![p] = PaymentAmount(a)]
      BY <1>2 DEF PayIfDue
    <2> QED BY <2>1, <2>2, <2>3 DEF TypeOK
  <1>3. CASE ~PaymentDue(a, clock)
    <2>1. account' = [account EXCEPT ![p] = a] /\ cheque' = cheque
      BY <1>3 DEF PayIfDue
    <2> QED BY <2>1 DEF TypeOK
  <1> QED BY <1>2, <1>3

\* The end of Reserve, on an account that satisfies the invariant.
LEMMA ReserveOnInv ==
  ASSUME IInv, NEW r \in Requests, request[r].pc = "new",
         NEW p \in Peers, NEW price \in Prices, NEW originated \in BOOLEAN,
         NEW a \in Account, a.connected,
         AccountInv(a, session[p], cheque[p], OpenTotal(p), UncreditedTotal(p), PreparedTotal(p)),
         ReserveOn(r, p, price, originated, a),
         UNCHANGED <<debit, grant, banned, clock, session, lives>>
  PROVE  IInv'
  <1>1. TypeOK /\ \A q \in Peers : PeerInv(q)
    BY PeerInvEquiv
  <1>2. \A q \in Peers : PreparedTotal(q)' = PreparedTotal(q)
    BY DEF PreparedTotal, DebitPrices, Prepared
  <1>3. price \in Nat
    BY AccountingAssumption
  <1>4. /\ OpenTotal(p) \in Nat /\ UncreditedTotal(p) \in Nat /\ PreparedTotal(p) \in Nat
        /\ UncreditedTotal(p) <= OpenTotal(p)
        /\ session[p] \in Session /\ cheque[p] \in Nat
    BY <1>1, PeerTypes
  <1>5. CASE Overdraft(a, price)
    <2>1. PayIfDue(p, a) /\ request' = request
      BY <1>5 DEF ReserveOn
    <2>2. \A q \in Peers : OpenTotal(q)' = OpenTotal(q) /\ UncreditedTotal(q)' = UncreditedTotal(q)
      BY <2>1 DEF OpenTotal, UncreditedTotal, RequestPrices, Open, Uncredited
    <2>3. /\ account' \in [Peers -> Account] /\ cheque' \in [Peers -> Nat]
          /\ AccountInv(account'[p], session[p], cheque'[p], OpenTotal(p), UncreditedTotal(p),
                        PreparedTotal(p))
          /\ \A q \in Peers \ {p} : account'[q] = account[q] /\ cheque'[q] = cheque[q]
      BY <1>1, <1>4, <2>1, PayIfDueInv
    <2>4. TypeOK'
      BY <1>1, <2>1, <2>3 DEF TypeOK
    <2>5. \A q \in Peers : PeerInv(q)'
      BY <1>1, <1>2, <2>2, <2>3 DEF PeerInv
    <2> QED BY <2>4, <2>5, PeerInvEquivPrime
  <1>6. CASE ~Overdraft(a, price)
    <2>1. /\ PayIfDue(p, Reserved(a, price))
          /\ request' = [request EXCEPT ![r] = Started(p, price, originated)]
      BY <1>6 DEF ReserveOn
    <2>2. /\ request' \in [Requests -> Request]
          /\ \A q \in Peers :
               /\ OpenTotal(q)' = OpenTotal(q) + IF q = p THEN price ELSE 0
               /\ UncreditedTotal(q)' = UncreditedTotal(q) + IF q = p THEN price ELSE 0
      <3>1. ASSUME NEW q \in Peers
            PROVE  /\ request' \in [Requests -> Request]
                   /\ OpenTotal(q)' = OpenTotal(q) + IF q = p THEN price ELSE 0
                   /\ UncreditedTotal(q)' = UncreditedTotal(q) + IF q = p THEN price ELSE 0
        <4>1. StartsRequest(r, p, price, originated)
          BY <2>1 DEF StartsRequest
        <4> QED BY <1>1, <4>1, RequestStarts
      <3> QED BY <3>1
    <2>3. /\ Reserved(a, price) \in Account
          /\ AccountInv(Reserved(a, price), session[p], cheque[p], OpenTotal(p) + price,
                        UncreditedTotal(p) + price, PreparedTotal(p))
      BY <1>3, <1>4, <1>6, ReservedFacts, AccountInvReserve
    <2>4. /\ account' \in [Peers -> Account] /\ cheque' \in [Peers -> Nat]
          /\ AccountInv(account'[p], session[p], cheque'[p], OpenTotal(p) + price,
                        UncreditedTotal(p) + price, PreparedTotal(p))
          /\ \A q \in Peers \ {p} : account'[q] = account[q] /\ cheque'[q] = cheque[q]
      BY <1>1, <1>3, <1>4, <2>1, <2>3, PayIfDueInv, SMTT(20)
    <2>5. TypeOK'
      BY <1>1, <2>2, <2>4 DEF TypeOK
    <2>6. PeerInv(p)'
      BY <1>2, <2>2, <2>4 DEF PeerInv
    <2>7. ASSUME NEW q \in Peers \ {p} PROVE PeerInv(q)'
      <3>1. OpenTotal(q)' = OpenTotal(q) /\ UncreditedTotal(q)' = UncreditedTotal(q)
        BY <1>1, <2>2, PeerTypes, SMTT(20)
      <3> QED BY <1>1, <1>2, <2>4, <3>1 DEF PeerInv
    <2> QED BY <2>5, <2>6, <2>7, PeerInvEquivPrime
  <1> QED BY <1>5, <1>6

\* Nothing the sums depend on changed.
LEMMA RequestsKept ==
  ASSUME request' = request, NEW q
  PROVE  OpenTotal(q)' = OpenTotal(q) /\ UncreditedTotal(q)' = UncreditedTotal(q)
  BY DEF OpenTotal, UncreditedTotal, RequestPrices, Open, Uncredited

\* The debits are as before, and so is their sum.
LEMMA DebitsKept ==
  ASSUME debit' = debit, NEW q
  PROVE  PreparedTotal(q)' = PreparedTotal(q)
  BY DEF PreparedTotal, DebitPrices, Prepared

\* The three forms of Reserve keep the invariant.
LEMMA ReserveInv ==
  ASSUME IInv, NEW r \in Requests, NEW p \in Peers, NEW price \in Prices,
         NEW originated \in BOOLEAN,
         \/ Reserve(r, p, price, originated)
         \/ ReserveAndSettle(r, p, price, originated)
         \/ ReserveRefreshFails(r, p, price)
  PROVE  IInv'
  <1>1. TypeOK /\ \A q \in Peers : PeerInv(q)
    BY PeerInvEquiv
  <1>2. /\ account[p] \in Account /\ session[p] \in Session /\ cheque[p] \in Nat
        /\ OpenTotal(p) \in Nat /\ UncreditedTotal(p) \in Nat /\ PreparedTotal(p) \in Nat
        /\ UncreditedTotal(p) <= OpenTotal(p)
        /\ AccountInv(account[p], session[p], cheque[p],
                      OpenTotal(p), UncreditedTotal(p), PreparedTotal(p))
    BY <1>1, PeerTypes DEF PeerInv
  <1>3. CASE Reserve(r, p, price, originated)
    <2>1. /\ request[r].pc = "new" /\ account[p].connected
          /\ ~Overdraft(account[p], price)
          /\ account' = [account EXCEPT ![p] = Reserved(account[p], price)]
          /\ request' = [request EXCEPT ![r] = Started(p, price, originated)]
          /\ UNCHANGED <<debit, cheque, grant, banned, clock, session, lives>>
      BY <1>3 DEF Reserve
    <2>2. price \in Nat
      BY AccountingAssumption
    <2>3. /\ Reserved(account[p], price) \in Account
          /\ AccountInv(Reserved(account[p], price), session[p], cheque[p], OpenTotal(p) + price,
                        UncreditedTotal(p) + price, PreparedTotal(p))
      BY <1>2, <2>1, <2>2, ReservedFacts, AccountInvReserve
    <2>4. ASSUME NEW q \in Peers
          PROVE  /\ request' \in [Requests -> Request]
                 /\ OpenTotal(q)' = OpenTotal(q) + IF q = p THEN price ELSE 0
                 /\ UncreditedTotal(q)' = UncreditedTotal(q) + IF q = p THEN price ELSE 0
      <3>1. StartsRequest(r, p, price, originated)
        BY <2>1 DEF StartsRequest
      <3> QED BY <1>1, <3>1, RequestStarts
    <2>5. TypeOK'
      BY <1>1, <2>1, <2>3, <2>4 DEF TypeOK
    <2>6. ASSUME NEW q \in Peers PROVE PeerInv(q)'
      <3>1. PreparedTotal(q)' = PreparedTotal(q)
        BY <2>1, DebitsKept
      <3>2. CASE q = p
        BY <1>1, <2>1, <2>3, <2>4, <3>1, <3>2 DEF PeerInv, TypeOK
      <3>3. CASE q # p
        <4>1. OpenTotal(q)' = OpenTotal(q) /\ UncreditedTotal(q)' = UncreditedTotal(q)
          BY <1>1, <2>4, <3>3, PeerTypes, SMTT(20)
        <4> QED BY <1>1, <2>1, <3>1, <3>3, <4>1 DEF PeerInv, TypeOK
      <3> QED BY <3>2, <3>3
    <2> QED BY <2>5, <2>6, PeerInvEquivPrime
  <1>4. CASE ReserveAndSettle(r, p, price, originated)
    <2>1. /\ request[r].pc = "new" /\ account[p].connected
          /\ UNCHANGED <<debit, grant, banned, clock, session, lives>>
      BY <1>4 DEF ReserveAndSettle
    <2>2. CASE ~RefreshDue(account[p], clock)
      <3>1. ReserveOn(r, p, price, originated, account[p])
        BY <1>4, <2>2 DEF ReserveAndSettle
      <3> QED BY <1>2, <2>1, <3>1, ReserveOnInv
    <2>3. CASE RefreshDue(account[p], clock)
      <3>1. PICK accepted \in 0..CompensatedDebt(account[p]) :
              ReserveOn(r, p, price, originated, Refreshed(account[p], accepted, clock))
        BY <1>4, <2>3 DEF ReserveAndSettle
      <3>2. accepted \in Nat /\ clock \in Int
        BY <1>1, SMTT(20) DEF TypeOK
      <3> DEFINE a == Refreshed(account[p], accepted, clock)
      <3>3. a \in Account /\ a.connected
        BY <1>2, <2>1, <3>2, RefreshedFacts
      <3>4. AccountInv(a, session[p], cheque[p],
                       OpenTotal(p), UncreditedTotal(p), PreparedTotal(p))
        BY <1>2, <3>2, AccountInvRefresh
      <3> HIDE DEF a
      <3>5. ReserveOn(r, p, price, originated, a)
        BY <3>1 DEF a
      <3> QED BY <2>1, <3>3, <3>4, <3>5, ReserveOnInv
    <2> QED BY <2>2, <2>3
  <1>5. CASE ReserveRefreshFails(r, p, price)
    <2>1. /\ UNCHANGED <<account, request, debit, cheque, grant, clock, session, lives>>
          /\ banned' = banned \cup {p}
      BY <1>5 DEF ReserveRefreshFails, Blocklist
    <2>2. TypeOK'
      BY <1>1, <2>1 DEF TypeOK
    <2>3. ASSUME NEW q \in Peers PROVE PeerInv(q)'
      BY <1>1, <2>1, RequestsKept, DebitsKept DEF PeerInv
    <2> QED BY <2>2, <2>3, PeerInvEquivPrime
  <1> QED BY <1>3, <1>4, <1>5

\* Credit and Release keep the invariant.
LEMMA CreditReleaseInv ==
  ASSUME IInv, NEW r \in Requests, Credit(r) \/ Release(r)
  PROVE  IInv'
  <1>1. TypeOK /\ \A q \in Peers : PeerInv(q)
    BY PeerInvEquiv
  <1>2. /\ request[r].pc \in {"reserved", "credited"}
        /\ UNCHANGED <<debit, cheque, grant, banned, clock, session, lives>>
    BY DEF Credit, Release
  <1>3. PICK p \in Peers, price \in Nat, originated \in BOOLEAN :
          p = request[r].peer /\ price = request[r].price /\ originated = request[r].originated
    <2>1. /\ request[r].peer \in Peers /\ request[r].price \in Prices
          /\ request[r].originated \in BOOLEAN
      BY <1>1, <1>2, SMTT(20) DEF TypeOK, Request, NoRequest
    <2>2. Prices \subseteq Nat
      BY AccountingAssumption
    <2> QED BY <2>1, <2>2
  <1>4. /\ account[p] \in Account /\ session[p] \in Session /\ cheque[p] \in Nat
        /\ OpenTotal(p) \in Nat /\ UncreditedTotal(p) \in Nat /\ PreparedTotal(p) \in Nat
        /\ AccountInv(account[p], session[p], cheque[p],
                      OpenTotal(p), UncreditedTotal(p), PreparedTotal(p))
    BY <1>1, <1>3, PeerTypes DEF PeerInv
  <1>5. \A q \in Peers : PreparedTotal(q)' = PreparedTotal(q)
    BY <1>2, DebitsKept
  <1>6. CASE Credit(r)
    <2>1. /\ request[r].pc = "reserved"
          /\ account' = [account EXCEPT ![p] = Credited(account[p], price, originated)]
          /\ request' = [request EXCEPT ![r].pc = "credited"]
      BY <1>3, <1>6 DEF Credit
    <2>2. ASSUME NEW q \in Peers
          PROVE  /\ request' \in [Requests -> Request]
                 /\ OpenTotal(q)' = OpenTotal(q)
                 /\ UncreditedTotal(q)' = UncreditedTotal(q) - IF q = p THEN price ELSE 0
      BY <1>1, <1>3, <2>1, RequestCredited
    <2>3. request' \in [Requests -> Request]
      BY <1>3, <2>2
    <2>4. Credited(account[p], price, originated) \in Account
      BY <1>3, <1>4, CreditedFacts
    <2>5. TypeOK'
      BY <1>1, <1>2, <2>1, <2>3, <2>4 DEF TypeOK
    <2>6. UncreditedTotal(p)' = UncreditedTotal(p) - price /\ OpenTotal(p)' = OpenTotal(p)
      BY <1>3, <2>2
    <2>7. UncreditedTotal(p) - price \in Nat
      BY <1>3, <2>5, <2>6, TotalsNatPrime
    <2>8. AccountInv(Credited(account[p], price, originated), session[p], cheque[p],
                     OpenTotal(p), UncreditedTotal(p) - price, PreparedTotal(p))
      BY <1>3, <1>4, <2>7, AccountInvCredit
    <2>9. PeerInv(p)'
      BY <1>1, <1>2, <1>3, <1>5, <2>1, <2>6, <2>8 DEF PeerInv, TypeOK
    <2>10. ASSUME NEW q \in Peers, q # p PROVE PeerInv(q)'
      <3>1. OpenTotal(q)' = OpenTotal(q) /\ UncreditedTotal(q)' = UncreditedTotal(q)
        BY <1>1, <2>2, <2>10, PeerTypes, SMTT(20)
      <3> QED BY <1>1, <1>2, <1>5, <2>1, <2>10, <3>1 DEF PeerInv, TypeOK
    <2> QED BY <2>5, <2>9, <2>10, PeerInvEquivPrime
  <1>7. CASE Release(r)
    <2>1. /\ account' = [account EXCEPT ![p] = Released(account[p], price)]
          /\ request' = [request EXCEPT ![r] = NoRequest("done")]
      BY <1>3, <1>7 DEF Release
    <2>2. ASSUME NEW q \in Peers
          PROVE  /\ request' \in [Requests -> Request]
                 /\ p = q => price <= OpenTotal(q) /\ OpenTotal(q)' = OpenTotal(q) - price
                 /\ p # q =>
                      OpenTotal(q)' = OpenTotal(q) /\ UncreditedTotal(q)' = UncreditedTotal(q)
                 /\ UncreditedTotal(q)' <= UncreditedTotal(q)
      BY <1>1, <1>2, <1>3, <2>1, RequestEnds
    <2>3. Released(account[p], price) \in Account
      BY <1>3, <1>4, ReleasedFacts
    <2>4. TypeOK'
      BY <1>1, <1>2, <1>3, <2>1, <2>2, <2>3 DEF TypeOK
    <2>5. /\ price <= OpenTotal(p) /\ OpenTotal(p)' = OpenTotal(p) - price
          /\ UncreditedTotal(p)' <= UncreditedTotal(p) /\ UncreditedTotal(p)' \in Nat
      BY <1>3, <2>2, <2>4, TotalsNatPrime
    <2>6. AccountInv(Released(account[p], price), session[p], cheque[p],
                     OpenTotal(p) - price, UncreditedTotal(p)', PreparedTotal(p))
      BY <1>3, <1>4, <2>5, AccountInvRelease
    <2>7. PeerInv(p)'
      BY <1>1, <1>2, <1>3, <1>5, <2>1, <2>5, <2>6 DEF PeerInv, TypeOK
    <2>8. ASSUME NEW q \in Peers, q # p PROVE PeerInv(q)'
      BY <1>1, <1>2, <1>5, <2>1, <2>2, <2>8 DEF PeerInv, TypeOK
    <2> QED BY <2>4, <2>7, <2>8, PeerInvEquivPrime
  <1> QED BY <1>6, <1>7

\* A step that gives one peer the account b, history t and cheque c, and
\* starts or ends no request.
AccountStep(p, b, t, c) ==
  /\ b \in Account /\ t \in Session /\ c \in Nat
  /\ account' = [account EXCEPT ![p] = b]
  /\ session' = [session EXCEPT ![p] = t]
  /\ cheque' = [cheque EXCEPT ![p] = c]
  /\ request' = request
  /\ debit' \in [Debits -> Debit]
  /\ grant' \in [Peers -> Nat] /\ banned' \subseteq Peers /\ clock' \in Nat /\ lives' \in Nat

\* Such a step preserves the invariant when it does so for that peer and
\* leaves the debits of the others alone.
LEMMA AccountStepInv ==
  ASSUME IInv, NEW p \in Peers, NEW b, NEW t, NEW c, AccountStep(p, b, t, c),
         AccountInv(b, t, c, OpenTotal(p), UncreditedTotal(p), PreparedTotal(p)'),
         \A q \in Peers \ {p} : PreparedTotal(q)' = PreparedTotal(q)
  PROVE  IInv'
  <1>1. TypeOK /\ \A q \in Peers : PeerInv(q)
    BY PeerInvEquiv
  <1>2. \A q \in Peers : OpenTotal(q)' = OpenTotal(q) /\ UncreditedTotal(q)' = UncreditedTotal(q)
    BY RequestsKept DEF AccountStep
  <1>3. TypeOK'
    BY <1>1 DEF AccountStep, TypeOK
  <1>4. PeerInv(p)'
    BY <1>1, <1>2 DEF PeerInv, AccountStep, TypeOK
  <1>5. ASSUME NEW q \in Peers \ {p} PROVE PeerInv(q)'
    BY <1>1, <1>2, <1>5 DEF PeerInv, AccountStep, TypeOK
  <1> QED BY <1>3, <1>4, <1>5, PeerInvEquivPrime

\* The types and the invariant of one account, in one place.
LEMMA PeerFacts ==
  ASSUME IInv, NEW p \in Peers
  PROVE  /\ account[p] \in Account /\ session[p] \in Session /\ cheque[p] \in Nat
         /\ OpenTotal(p) \in Nat /\ UncreditedTotal(p) \in Nat /\ PreparedTotal(p) \in Nat
         /\ UncreditedTotal(p) <= OpenTotal(p)
         /\ AccountInv(account[p], session[p], cheque[p],
                       OpenTotal(p), UncreditedTotal(p), PreparedTotal(p))
         /\ grant[p] \in Nat /\ clock \in Nat /\ TypeOK
  BY PeerInvEquiv, PeerTypes DEF PeerInv, TypeOK

\* NotifyPaymentSent preserves the invariant, whether the cheque was sent or
\* not.
LEMMA PaymentSentInv ==
  ASSUME IInv, NEW p \in Peers, NotifyPaymentSent(p)
  PROVE  IInv'
  <1>1. /\ account[p] \in Account /\ session[p] \in Session /\ cheque[p] \in Nat
        /\ OpenTotal(p) \in Nat /\ UncreditedTotal(p) \in Nat /\ PreparedTotal(p) \in Nat
        /\ AccountInv(account[p], session[p], cheque[p],
                      OpenTotal(p), UncreditedTotal(p), PreparedTotal(p))
        /\ clock \in Int
        /\ TypeOK
    BY PeerFacts, SMTT(20)
  <1>2. PICK b : /\ b \in {PaymentSent(account[p], cheque[p]), PaymentFailed(account[p], cheque[p], clock)}
                 /\ account' = [account EXCEPT ![p] = b]
    BY DEF NotifyPaymentSent
  <1>3. b \in Account
    BY <1>1, <1>2, PaymentSentFacts, PaymentFailedFacts
  <1>4. AccountInv(b, session[p], 0, OpenTotal(p), UncreditedTotal(p), PreparedTotal(p))
    BY <1>1, <1>2, AccountInvPaid, SMTT(20)
  <1>5. \A q \in Peers : PreparedTotal(q)' = PreparedTotal(q)
    BY DebitsKept DEF NotifyPaymentSent
  <1>6. AccountStep(p, b, session[p], 0)
    BY <1>1, <1>2, <1>3 DEF AccountStep, NotifyPaymentSent, TypeOK
  <1> QED BY <1>4, <1>5, <1>6, AccountStepInv

\* A cheque of the peer, and a threshold it announces, preserve the invariant.
LEMMA ReceivedInv ==
  ASSUME IInv, NEW p \in Peers,
         \/ \E amount \in Payments : NotifyPaymentReceived(p, amount)
         \/ \E threshold \in Thresholds : NotifyPaymentThreshold(p, threshold)
  PROVE  IInv'
  <1>1. /\ account[p] \in Account /\ session[p] \in Session /\ cheque[p] \in Nat
        /\ OpenTotal(p) \in Nat /\ UncreditedTotal(p) \in Nat /\ PreparedTotal(p) \in Nat
        /\ AccountInv(account[p], session[p], cheque[p],
                      OpenTotal(p), UncreditedTotal(p), PreparedTotal(p))
        /\ TypeOK
    BY PeerFacts
  <1>2. \A q \in Peers : PreparedTotal(q)' = PreparedTotal(q)
    BY DebitsKept DEF NotifyPaymentReceived, NotifyPaymentThreshold
  <1>3. CASE \E amount \in Payments : NotifyPaymentReceived(p, amount)
    <2>1. PICK amount \in Payments : NotifyPaymentReceived(p, amount)
      BY <1>3
    <2>2. amount \in Nat
      BY AccountingAssumption
    <2>3. PICK b : b = PaymentReceived(account[p], amount)
      OBVIOUS
    <2>4. b \in Account
      BY <1>1, <2>2, <2>3, PaymentReceivedFacts
    <2>5. AccountInv(b, session[p], cheque[p], OpenTotal(p), UncreditedTotal(p), PreparedTotal(p))
      BY <1>1, <2>2, <2>3, AccountInvReceive
    <2>6. AccountStep(p, b, session[p], cheque[p])
      BY <1>1, <2>1, <2>3, <2>4 DEF AccountStep, NotifyPaymentReceived, TypeOK
    <2> QED BY <1>2, <2>5, <2>6, AccountStepInv
  <1>4. CASE \E threshold \in Thresholds : NotifyPaymentThreshold(p, threshold)
    <2>1. PICK threshold \in Thresholds : NotifyPaymentThreshold(p, threshold)
      BY <1>4
    <2>2. threshold \in Nat
      BY AccountingAssumption
    <2>3. PICK b, t : /\ b = [account[p] EXCEPT !.threshold = threshold]
                      /\ t = [session[p] EXCEPT !.ceiling = Greater(@, threshold)]
      OBVIOUS
    <2>4. /\ b \in Account /\ t \in Session
          /\ AccountInv(b, t, cheque[p], OpenTotal(p), UncreditedTotal(p), PreparedTotal(p))
      BY <1>1, <2>2, <2>3, AccountInvThreshold
    <2>5. account' = [account EXCEPT ![p] = b] /\ session' = [session EXCEPT ![p] = t]
      BY <2>1, <2>3 DEF NotifyPaymentThreshold
    <2>6. AccountStep(p, b, t, cheque[p])
      BY <1>1, <2>1, <2>4, <2>5 DEF AccountStep, NotifyPaymentThreshold, TypeOK
    <2> QED BY <1>2, <2>4, <2>6, AccountStepInv
  <1> QED BY <1>3, <1>4

\* Granting a refreshment and booking it preserve the invariant.
LEMMA RefreshmentInv ==
  ASSUME IInv, NEW p \in Peers,
         \/ \E amount \in 1..PeerDebt(account[p]) : GrantRefreshment(p, amount)
         \/ NotifyRefreshmentReceived(p)
  PROVE  IInv'
  <1>1. /\ account[p] \in Account /\ session[p] \in Session /\ cheque[p] \in Nat
        /\ OpenTotal(p) \in Nat /\ UncreditedTotal(p) \in Nat /\ PreparedTotal(p) \in Nat
        /\ AccountInv(account[p], session[p], cheque[p],
                      OpenTotal(p), UncreditedTotal(p), PreparedTotal(p))
        /\ grant[p] \in Nat
        /\ TypeOK
    BY PeerFacts
  <1>2. \A q \in Peers : PreparedTotal(q)' = PreparedTotal(q)
    BY DebitsKept DEF GrantRefreshment, NotifyRefreshmentReceived
  <1>3. CASE \E amount \in 1..PeerDebt(account[p]) : GrantRefreshment(p, amount)
    <2>1. PICK amount \in 1..PeerDebt(account[p]) : GrantRefreshment(p, amount)
      BY <1>3
    <2>2. amount \in Nat
      BY SMTT(20)
    <2>3. AccountStep(p, account[p], session[p], cheque[p])
      BY <1>1, <2>1, <2>2 DEF AccountStep, GrantRefreshment, TypeOK
    <2> QED BY <1>1, <1>2, <2>3, AccountStepInv
  <1>4. CASE NotifyRefreshmentReceived(p)
    <2>1. PICK b, t : /\ b = RefreshmentReceived(account[p], grant[p])
                      /\ t = [session[p] EXCEPT !.granted = @ + grant[p]]
      OBVIOUS
    <2>2. b \in Account
      BY <1>1, <2>1, RefreshmentReceivedFacts
    <2>3. t \in Session
      BY <1>1, <2>1, AccountInvReceive
    <2>4. AccountInv(b, t, cheque[p], OpenTotal(p), UncreditedTotal(p), PreparedTotal(p))
      BY <1>1, <2>1, AccountInvReceive
    <2>5. account' = [account EXCEPT ![p] = b] /\ session' = [session EXCEPT ![p] = t]
      BY <1>4, <2>1 DEF NotifyRefreshmentReceived
    <2>6. AccountStep(p, b, t, cheque[p])
      BY <1>1, <1>4, <2>2, <2>3, <2>5 DEF AccountStep, NotifyRefreshmentReceived, TypeOK
    <2> QED BY <1>2, <2>4, <2>6, AccountStepInv
  <1> QED BY <1>3, <1>4

\* PrepareDebit, Apply and Cleanup preserve the invariant: the shadow reserve
\* follows the debits being served.
LEMMA DebitInv ==
  ASSUME IInv, NEW d \in Debits,
         \/ \E p \in Peers, price \in Prices : PrepareDebit(d, p, price)
         \/ Apply(d)
         \/ Cleanup(d)
  PROVE  IInv'
  <1>1. TypeOK
    BY PeerInvEquiv
  <1>2. CASE \E p \in Peers, price \in Prices : PrepareDebit(d, p, price)
    <2>1. PICK p \in Peers, price \in Prices : PrepareDebit(d, p, price)
      BY <1>2
    <2>2. price \in Nat
      BY AccountingAssumption
    <2>3. ASSUME NEW q \in Peers
          PROVE  /\ debit' \in [Debits -> Debit]
                 /\ PreparedTotal(q)' = PreparedTotal(q) + IF q = p THEN price ELSE 0
      <3>1. /\ debit[d].pc = "new"
            /\ debit' = [debit EXCEPT ![d] = [pc |-> "prepared", peer |-> p, price |-> price]]
        BY <2>1 DEF PrepareDebit
      <3> QED BY <1>1, <3>1, DebitStarts
    <2>4. PICK b : b = DebitPrepared(account[p], price)
      OBVIOUS
    <2>5. b \in Account
      BY <2>2, <2>4, PeerFacts, DebitPreparedFacts
    <2>6. AccountInv(b, session[p], cheque[p], OpenTotal(p), UncreditedTotal(p),
                     PreparedTotal(p) + price)
      BY <2>2, <2>4, PeerFacts, AccountInvDebit
    <2>7. PreparedTotal(p)' = PreparedTotal(p) + price
      BY <2>3
    <2>8. ASSUME NEW q \in Peers, q # p
          PROVE  PreparedTotal(q)' = PreparedTotal(q)
      <3>1. PreparedTotal(q) \in Nat
        BY PeerFacts
      <3>2. PreparedTotal(q)' = PreparedTotal(q) + 0
        BY <2>3, <2>8
      <3> QED BY <3>1, <3>2, SMTT(20)
    <2>9. AccountStep(p, b, session[p], cheque[p])
      BY <1>1, <2>1, <2>3, <2>4, <2>5 DEF AccountStep, PrepareDebit, TypeOK
    <2> QED BY <2>6, <2>7, <2>8, <2>9, AccountStepInv
  <1>3. CASE Apply(d) \/ Cleanup(d)
    <2>1. /\ debit[d].pc = "prepared"
          /\ debit' = [debit EXCEPT ![d] = NoDebit("done")]
          /\ UNCHANGED <<request, cheque, grant, clock, session, lives>>
      BY <1>3 DEF Apply, Cleanup
    <2>2. PICK p \in Peers, price \in Nat : p = debit[d].peer /\ price = debit[d].price
      <3>1. debit[d].peer \in Peers /\ debit[d].price \in Prices
        BY <1>1, <2>1, SMTT(20) DEF TypeOK, Debit, NoDebit
      <3>2. Prices \subseteq Nat
        BY AccountingAssumption
      <3> QED BY <3>1, <3>2
    <2>3. ASSUME NEW q \in Peers
          PROVE  /\ debit' \in [Debits -> Debit]
                 /\ PreparedTotal(q)' = PreparedTotal(q) - IF q = p THEN price ELSE 0
      BY <1>1, <2>1, <2>2, DebitEnds
    <2>4. PICK b \in {DebitApplied(account[p], price), DebitCleanedUp(account[p], price)} :
            account' = [account EXCEPT ![p] = b]
      BY <1>3, <2>2 DEF Apply, Cleanup
    <2> DEFINE Inv(a) == AccountInv(a, session[p], cheque[p], OpenTotal(p), UncreditedTotal(p),
                                    PreparedTotal(p) - price)
    <2>5. b \in Account
      <3>1. /\ DebitApplied(account[p], price) \in Account
            /\ DebitCleanedUp(account[p], price) \in Account
        BY <2>2, PeerFacts, DebitAppliedFacts, DebitCleanedUpFacts
      <3> QED BY <2>4, <3>1
    <2>6. Inv(b)
      <3>1. Inv(DebitApplied(account[p], price)) /\ Inv(DebitCleanedUp(account[p], price))
        BY <2>2, PeerFacts, AccountInvDebit
      <3> QED BY <2>4, <3>1
    <2>7. PreparedTotal(p)' = PreparedTotal(p) - price /\ debit' \in [Debits -> Debit]
      BY <2>2, <2>3
    <2>8. ASSUME NEW q \in Peers, q # p
          PROVE  PreparedTotal(q)' = PreparedTotal(q)
      <3>1. PreparedTotal(q) \in Nat
        BY PeerFacts
      <3>2. PreparedTotal(q)' = PreparedTotal(q) - 0
        BY <2>3, <2>8
      <3> QED BY <3>1, <3>2, SMTT(20)
    <2>9. banned' \subseteq Peers
      <3>1. banned' = banned \/ banned' = banned \cup {p}
        <4>1. CASE Apply(d)
          BY <4>1, <2>2 DEF Apply, Blocklist
        <4>2. CASE Cleanup(d)
          BY <4>2, <2>2 DEF Cleanup, Blocklist
        <4> QED BY <1>3, <4>1, <4>2
      <3>2. banned \subseteq Peers
        BY <1>1 DEF TypeOK
      <3> QED BY <3>1, <3>2
    <2>10. AccountStep(p, b, session[p], cheque[p])
      BY <1>1, <2>1, <2>2, <2>4, <2>5, <2>7, <2>9 DEF AccountStep, TypeOK
    <2> QED BY <2>2, <2>6, <2>7, <2>8, <2>10, AccountStepInv
  <1> QED BY <1>2, <1>3

\* Connect, Disconnect and the end of a ban preserve the invariant.
LEMMA ConnectionInv ==
  ASSUME IInv, NEW p \in Peers, Connect(p) \/ Disconnect(p) \/ BanExpires(p)
  PROVE  IInv'
  <1>1. /\ account[p] \in Account /\ session[p] \in Session /\ cheque[p] \in Nat
        /\ OpenTotal(p) \in Nat /\ UncreditedTotal(p) \in Nat /\ PreparedTotal(p) \in Nat
        /\ UncreditedTotal(p) <= OpenTotal(p)
        /\ AccountInv(account[p], session[p], cheque[p],
                      OpenTotal(p), UncreditedTotal(p), PreparedTotal(p))
        /\ TypeOK
    BY PeerFacts
  <1>2. \A q \in Peers : PreparedTotal(q)' = PreparedTotal(q)
    BY DebitsKept DEF Connect, Disconnect, BanExpires
  <1>3. CASE Connect(p)
    <2>1. PICK b, t :
            /\ b = Connected(account[p])
            /\ t = [ceiling |-> account[p].threshold, granted |-> 0,
                    requests |-> OpenTotal(p), debits |-> PreparedTotal(p) + cheque[p],
                    carried |-> Greater(-account[p].originated, 0)]
      OBVIOUS
    <2>2. b \in Account
      BY <1>1, <2>1, ConnectedFacts
    <2>3. /\ t \in Session
          /\ AccountInv(b, t, cheque[p], OpenTotal(p), UncreditedTotal(p), PreparedTotal(p))
      BY <1>1, <2>1, AccountInvConnect
    <2>4. account' = [account EXCEPT ![p] = b] /\ session' = [session EXCEPT ![p] = t]
      BY <1>3, <2>1 DEF Connect
    <2>5. AccountStep(p, b, t, cheque[p])
      <3>1. /\ UNCHANGED <<request, debit, cheque, grant, banned, clock>>
            /\ lives' = lives + 1
        BY <1>3 DEF Connect
      <3> QED BY <1>1, <2>2, <2>3, <2>4, <3>1, SMTT(20) DEF AccountStep, TypeOK
    <2> QED BY <1>2, <2>3, <2>5, AccountStepInv
  <1>4. CASE Disconnect(p)
    <2>1. PICK b : b = Disconnected(account[p])
      OBVIOUS
    <2>2. b \in Account
      BY <1>1, <2>1, DisconnectedFacts
    <2>3. AccountInv(b, session[p], cheque[p], OpenTotal(p), UncreditedTotal(p), PreparedTotal(p))
      BY <1>1, <2>1, AccountInvDisconnect
    <2>4. AccountStep(p, b, session[p], cheque[p])
      BY <1>1, <1>4, <2>1, <2>2 DEF AccountStep, Disconnect, Blocklist, TypeOK
    <2> QED BY <1>2, <2>3, <2>4, AccountStepInv
  <1>5. CASE BanExpires(p)
    <2>1. AccountStep(p, account[p], session[p], cheque[p])
      BY <1>1, <1>5 DEF AccountStep, BanExpires, TypeOK
    <2> QED BY <1>1, <1>2, <2>1, AccountStepInv
  <1> QED BY <1>3, <1>4, <1>5

\* A restart, which loses every goroutine and the fields kept in memory,
\* preserves the invariant.
LEMMA RestartInv == IInv /\ Restart => IInv'
  <1> SUFFICES ASSUME IInv, Restart PROVE IInv'
    OBVIOUS
  <1>1. TypeOK
    BY PeerInvEquiv
  <1>2. request' \in [Requests -> Request] /\ debit' \in [Debits -> Debit]
    BY <1>1 DEF TypeOK, Restart, Request, Debit
  <1>3. ASSUME NEW p \in Peers
        PROVE  /\ account'[p] \in Account /\ session'[p] \in Session /\ cheque'[p] = 0
               /\ AccountInv(account'[p], session'[p], 0, 0, 0, 0)
    <2>1. Restarted(account[p]) \in Account
      BY PeerFacts, RestartedFacts
    <2>2. /\ [session[p] EXCEPT !.debits = 0] \in Session
          /\ AccountInv(Restarted(account[p]), [session[p] EXCEPT !.debits = 0], 0, 0, 0, 0)
      BY PeerFacts, AccountInvRestart
    <2> QED BY <2>1, <2>2 DEF Restart
  <1>4. account' \in [Peers -> Account] /\ session' \in [Peers -> Session]
    BY <1>3 DEF Restart
  <1>5. TypeOK'
    BY <1>1, <1>2, <1>4, SMTT(20) DEF TypeOK, Restart
  <1>6. ASSUME NEW p \in Peers PROVE PeerInv(p)'
    <2>1. \A r \in Requests : request'[r].peer = "none"
      BY <1>1, SMTT(20) DEF TypeOK, Restart, Request, NoRequest
    <2>2. \A d \in Debits : debit'[d].peer = "none"
      BY <1>1, SMTT(20) DEF TypeOK, Restart, Debit, NoDebit
    <2>3. Open(p)' = {} /\ Uncredited(p)' = {} /\ Prepared(p)' = {}
      BY <2>1, <2>2, AccountingAssumption DEF Open, Uncredited, Prepared
    <2>4. OpenTotal(p)' = 0 /\ UncreditedTotal(p)' = 0 /\ PreparedTotal(p)' = 0
      BY <2>3, SumEmpty DEF OpenTotal, UncreditedTotal, PreparedTotal
    <2> QED BY <1>3, <2>4 DEF PeerInv
  <1> QED BY <1>5, <1>6, PeerInvEquivPrime

\* Every step preserves the invariant.
LEMMA NextInv == IInv /\ [Next]_vars => IInv'
  <1> SUFFICES ASSUME IInv, [Next]_vars PROVE IInv'
    OBVIOUS
  <1>1. TypeOK /\ \A q \in Peers : PeerInv(q)
    BY PeerInvEquiv
  <1>2. ASSUME UNCHANGED <<account, request, debit, cheque, grant, banned, session, lives>>,
               clock' \in Nat
        PROVE  IInv'
    <2>1. TypeOK'
      BY <1>1, <1>2 DEF TypeOK
    <2>2. ASSUME NEW q \in Peers PROVE PeerInv(q)'
      BY <1>1, <1>2, RequestsKept, DebitsKept DEF PeerInv
    <2> QED BY <2>1, <2>2, PeerInvEquivPrime
  <1>3. CASE UNCHANGED vars
    BY <1>1, <1>2, <1>3 DEF vars, TypeOK
  <1>4. CASE Tick
    BY <1>1, <1>2, <1>4, SMTT(20) DEF Tick, TypeOK
  <1>5. CASE Restart
    BY <1>5, RestartInv
  <1>6. CASE \E r \in Requests, p \in Peers, price \in Prices, originated \in BOOLEAN :
               \/ Reserve(r, p, price, originated)
               \/ ReserveAndSettle(r, p, price, originated)
    BY <1>6, ReserveInv
  <1>7. CASE \E r \in Requests, p \in Peers, price \in Prices : ReserveRefreshFails(r, p, price)
    BY <1>7, ReserveInv
  <1>8. CASE \E r \in Requests : Credit(r) \/ Release(r)
    BY <1>8, CreditReleaseInv
  <1>9. CASE \E p \in Peers : NotifyPaymentSent(p)
    BY <1>9, PaymentSentInv
  <1>10. CASE \/ \E p \in Peers, amount \in Payments : NotifyPaymentReceived(p, amount)
              \/ \E p \in Peers, threshold \in Thresholds : NotifyPaymentThreshold(p, threshold)
    BY <1>10, ReceivedInv
  <1>11. CASE \/ \E p \in Peers : \E amount \in 1..PeerDebt(account[p]) : GrantRefreshment(p, amount)
              \/ \E p \in Peers : NotifyRefreshmentReceived(p)
    BY <1>11, RefreshmentInv
  <1>12. CASE \/ \E d \in Debits, p \in Peers, price \in Prices : PrepareDebit(d, p, price)
              \/ \E d \in Debits : Apply(d) \/ Cleanup(d)
    BY <1>12, DebitInv
  <1>13. CASE \E p \in Peers : Connect(p) \/ Disconnect(p) \/ BanExpires(p)
    BY <1>13, ConnectionInv
  <1> QED BY <1>3, <1>4, <1>5, <1>6, <1>7, <1>8, <1>9, <1>10, <1>11, <1>12, <1>13 DEF Next

\* The inductive invariant holds in every reachable state.
THEOREM Invariance == Spec => []IInv
  BY InitInv, NextInv, PTL DEF Spec

-----------------------------------------------------------------------------
(* The properties, each a consequence of the inductive invariant. *)

\* Every field of every account keeps its type; in particular neither the
\* surplus nor the reserved balance is ever negative.
THEOREM TypeCorrect == Spec => []TypeOK
  BY Invariance, PTL DEF IInv

\* The reserved balance follows the requests in progress.
THEOREM ReservationsAreBacked == Spec => []ReservedBacked
  BY Invariance, PTL DEF IInv

\* Reserve keeps our debt within the threshold of the peer.
THEOREM ExposureIsBounded == Spec => []ExposureBounded
  BY Invariance, PTL DEF IInv

\* The shadow reserve follows the debits and the cheque in progress.
THEOREM ShadowIsExact == Spec => []ShadowExact
  BY Invariance, PTL DEF IInv

\* The amount of the next cheque is covered by what we owe.
THEOREM OriginatedIsCovered == Spec => []OriginatedCovered
  BY Invariance, PTL DEF IInv

\* Payments to one peer exclude each other.
THEOREM PaymentsExcludeEachOther == Spec => []OnePayment
  BY Invariance, PTL DEF IInv

-----------------------------------------------------------------------------
(* Our debt to a peer grows by service only: no cheque, no connection, no  *)
(* restart and no settlement of either side raises it.                     *)

\* None of these operations of Ledger raises our debt.
LEMMA DebtNotRaised ==
  ASSUME NEW a \in Account
  PROVE  /\ Debt(a) \in Int
         /\ Debt(PaymentStarted(a)) = Debt(a)
         /\ Debt(Connected(a)) <= Debt(a)
         /\ Debt(Disconnected(a)) = Debt(a)
         /\ Debt(Restarted(a)) = Debt(a)
  <1>1. a.balance \in Int
    BY DEF Account
  <1>2. Debt(PaymentStarted(a)) = Debt(a)
    BY PaymentStartedFacts DEF Debt
  <1>3. Debt(Connected(a)) <= Debt(a)
    <2>1. Connected(a).balance = 0
      BY ConnectedFacts
    <2> QED BY <1>1, <2>1, SMTT(20) DEF Debt, Greater
  <1>4. Debt(Disconnected(a)) = Debt(a) /\ Debt(Restarted(a)) = Debt(a)
    BY DisconnectedFacts, RestartedFacts DEF Debt
  <1> QED BY <1>2, <1>3, <1>4, DebtType, SMTT(20)

\* Nor do these, whatever the amount.
LEMMA DebtNotRaisedBy ==
  ASSUME NEW a \in Account, NEW amount \in Nat
  PROVE  /\ Debt(Reserved(a, amount)) = Debt(a)
         /\ Debt(Released(a, amount)) = Debt(a)
         /\ Debt(PaymentSent(a, amount)) <= Debt(a)
         /\ Debt(PaymentReceived(a, amount)) = Debt(a)
         /\ Debt(DebitPrepared(a, amount)) = Debt(a)
         /\ Debt(DebitApplied(a, amount)) <= Debt(a)
         /\ Debt(DebitCleanedUp(a, amount)) = Debt(a)
  <1>1. a.balance \in Int
    BY DEF Account
  <1>2. Debt(Reserved(a, amount)) = Debt(a) /\ Debt(Released(a, amount)) = Debt(a)
    BY ReservedFacts, ReleasedFacts DEF Debt
  <1>3. Debt(PaymentSent(a, amount)) <= Debt(a)
    <2>1. PaymentSent(a, amount).balance = a.balance + amount
      BY PaymentSentFacts
    <2> QED BY <1>1, <2>1, SMTT(20) DEF Debt, Greater
  <1>4. Debt(PaymentReceived(a, amount)) = Debt(a)
    BY PaymentReceivedFacts
  <1>5. Debt(DebitPrepared(a, amount)) = Debt(a) /\ Debt(DebitCleanedUp(a, amount)) = Debt(a)
    BY DebitPreparedFacts, DebitCleanedUpFacts DEF Debt
  <1>6. Debt(DebitApplied(a, amount)) <= Debt(a)
    <2>1. /\ DebitApplied(a, amount).balance >= a.balance
          /\ DebitApplied(a, amount).balance \in Int
      BY DebitAppliedFacts, AccountFields
    <2> QED BY <1>1, <2>1, SMTT(20) DEF Debt, Greater
  <1> QED BY <1>2, <1>3, <1>4, <1>5, <1>6

\* Nor do a refreshment and a failed cheque, whatever the time.
LEMMA DebtNotRaisedAt ==
  ASSUME NEW a \in Account, NEW amount \in Nat, NEW now \in Int
  PROVE  /\ Debt(Refreshed(a, amount, now)) <= Debt(a)
         /\ Debt(PaymentFailed(a, amount, now)) = Debt(a)
  <1>1. a.balance \in Int
    BY DEF Account
  <1>2. Debt(Refreshed(a, amount, now)) <= Debt(a)
    <2>1. Refreshed(a, amount, now).balance = a.balance + amount
      BY RefreshedFacts
    <2> QED BY <1>1, <2>1, SMTT(20) DEF Debt, Greater
  <1>3. Debt(PaymentFailed(a, amount, now)) = Debt(a)
    BY PaymentFailedFacts DEF Debt
  <1> QED BY <1>2, <1>3

\* A step that changes the account of p only, to one with no more debt, obeys
\* the property.
LEMMA NoMoreDebt ==
  ASSUME TypeOK, NEW p \in Peers, NEW b \in Account, Debt(b) <= Debt(account[p]),
         account' = [account EXCEPT ![p] = b], NEW q \in Peers
  PROVE  DebtGrowsByService(q)
  <1>1. account[q] \in Account /\ account[p] \in Account
    BY DEF TypeOK
  <1>2. Debt(account[q]) \in Int /\ Debt(account[p]) \in Int /\ Debt(b) \in Int
    BY <1>1, SMTT(20) DEF Debt, Greater, Account
  <1>3. account'[q] = IF q = p THEN b ELSE account[q]
    BY DEF TypeOK
  <1>4. Debt(account'[q]) <= Debt(account[q])
    BY <1>2, <1>3, SMTT(20)
  <1> HIDE DEF Debt
  <1>5. Debt(account'[q]) \in Int
    BY <1>2, <1>3
  <1> QED BY <1>2, <1>4, <1>5, SMTT(20) DEF DebtGrowsByService

\* The same for Reserve with its settle.
LEMMA ReserveNoMoreDebt ==
  ASSUME TypeOK, NEW p \in Peers, NEW a \in Account, Debt(a) <= Debt(account[p]),
         PayIfDue(p, a), NEW q \in Peers
  PROVE  DebtGrowsByService(q)
  <1>1. PICK b \in {a, PaymentStarted(a)} : account' = [account EXCEPT ![p] = b]
    BY DEF PayIfDue
  <1>2. b \in Account /\ Debt(b) = Debt(a)
    <2>1. PaymentStarted(a) \in Account
      BY PaymentStartedFacts
    <2>2. Debt(PaymentStarted(a)) = Debt(a)
      BY PaymentStartedFacts DEF Debt
    <2> QED BY <1>1, <2>1, <2>2
  <1> QED BY <1>1, <1>2, NoMoreDebt

\* In every step, debt grows by service only.
LEMMA NextDebt ==
  ASSUME IInv, Next, NEW q \in Peers
  PROVE  DebtGrowsByService(q)
  <1>1. TypeOK
    BY DEF IInv
  <1>2. /\ Prices \subseteq Nat /\ Payments \subseteq Nat
        /\ \A p \in Peers : account[p] \in Account /\ cheque[p] \in Nat /\ grant[p] \in Nat
        /\ clock \in Int
    <2>1. Prices \subseteq Nat /\ Payments \subseteq Nat
      BY AccountingAssumption
    <2>2. \A p \in Peers : account[p] \in Account /\ cheque[p] \in Nat /\ grant[p] \in Nat
      BY <1>1 DEF TypeOK
    <2>3. clock \in Int
      BY <1>1, SMTT(20) DEF TypeOK
    <2> QED BY <2>1, <2>2, <2>3
  <1>3. CASE account' = account
    BY <1>2, <1>3, SMTT(20) DEF DebtGrowsByService, Debt, Greater, Account
  <1>4. CASE \E r \in Requests, p \in Peers, price \in Prices, originated \in BOOLEAN :
               \/ Reserve(r, p, price, originated)
               \/ ReserveAndSettle(r, p, price, originated)
    <2>1. PICK r \in Requests, p \in Peers, price \in Prices, originated \in BOOLEAN :
            \/ Reserve(r, p, price, originated)
            \/ ReserveAndSettle(r, p, price, originated)
      BY <1>4
    <2>2. price \in Nat /\ account[p] \in Account
      BY <1>2
    <2>3. CASE Reserve(r, p, price, originated)
      <3>1. account' = [account EXCEPT ![p] = Reserved(account[p], price)]
        BY <2>3 DEF Reserve
      <3>2. Reserved(account[p], price) \in Account
        BY <2>2, ReservedFacts
      <3>3. Debt(Reserved(account[p], price)) = Debt(account[p])
        BY <2>2, ReservedFacts DEF Debt
      <3>4. Debt(Reserved(account[p], price)) <= Debt(account[p])
        BY <2>2, <3>3, DebtType, SMTT(20)
      <3> QED BY <1>1, <3>1, <3>2, <3>4, NoMoreDebt
    <2>4. CASE ReserveAndSettle(r, p, price, originated)
      <3>1. PICK a \in Account : /\ Debt(a) <= Debt(account[p])
                                 /\ ReserveOn(r, p, price, originated, a)
        <4>1. CASE RefreshDue(account[p], clock)
          <5>1. PICK accepted \in 0..CompensatedDebt(account[p]) :
                  ReserveOn(r, p, price, originated, Refreshed(account[p], accepted, clock))
            BY <2>4, <4>1 DEF ReserveAndSettle
          <5>2. accepted \in Nat
            BY SMTT(20)
          <5>3. Refreshed(account[p], accepted, clock) \in Account
            BY <1>2, <2>2, <5>2, RefreshedFacts
          <5>4. Debt(Refreshed(account[p], accepted, clock)) <= Debt(account[p])
            BY <1>2, <2>2, <5>2, DebtNotRaisedAt
          <5> QED BY <5>1, <5>3, <5>4
        <4>2. CASE ~RefreshDue(account[p], clock)
          <5>1. ReserveOn(r, p, price, originated, account[p])
            BY <2>4, <4>2 DEF ReserveAndSettle
          <5>2. Debt(account[p]) <= Debt(account[p])
            BY <2>2, DebtType, SMTT(20)
          <5> QED BY <2>2, <5>1, <5>2
        <4> QED BY <4>1, <4>2
      <3>2. PayIfDue(p, a) \/ PayIfDue(p, Reserved(a, price))
        BY <3>1 DEF ReserveOn
      <3>3. Reserved(a, price) \in Account
        BY <2>2, ReservedFacts
      <3>4. Debt(Reserved(a, price)) = Debt(a)
        BY <2>2, ReservedFacts DEF Debt
      <3> QED BY <1>1, <3>1, <3>2, <3>3, <3>4, ReserveNoMoreDebt
    <2> QED BY <2>1, <2>3, <2>4
  <1>5. CASE \E r \in Requests : Credit(r)
    <2>1. PICK r \in Requests : Credit(r)
      BY <1>5
    <2>2. /\ request[r].pc = "reserved" /\ request'[r].pc = "credited"
          /\ account' = [account EXCEPT ![request[r].peer] =
               Credited(account[request[r].peer], request[r].price, request[r].originated)]
      BY <1>1, <2>1, SMTT(20) DEF Credit, TypeOK, Request, NoRequest
    <2>3. CASE q = request[r].peer
      BY <2>2, <2>3 DEF DebtGrowsByService, Uncredited, Open
    <2>4. CASE q # request[r].peer
      <3>1. account'[q] = account[q]
        BY <1>1, <2>2, <2>4 DEF TypeOK
      <3> QED BY <1>2, <3>1, SMTT(20) DEF DebtGrowsByService, Debt, Greater, Account
    <2> QED BY <2>3, <2>4
  <1>6. CASE \E p \in Peers : NotifyRefreshmentReceived(p)
    <2>1. PICK p \in Peers : NotifyRefreshmentReceived(p)
      BY <1>6
    <2>2. CASE q = p
      BY <1>1, <2>1, <2>2 DEF DebtGrowsByService, NotifyRefreshmentReceived, TypeOK
    <2>3. CASE q # p
      <3>1. \E b : account' = [account EXCEPT ![p] = b]
        BY <2>1 DEF NotifyRefreshmentReceived
      <3>2. account'[q] = account[q]
        BY <1>1, <2>3, <3>1 DEF TypeOK
      <3> QED BY <1>2, <3>2, SMTT(20) DEF DebtGrowsByService, Debt, Greater, Account
    <2> QED BY <2>2, <2>3
  <1>7. CASE Restart
    <2>1. account'[q] = Restarted(account[q])
      BY <1>7 DEF Restart
    <2>2. Debt(account'[q]) = Debt(account[q])
      BY <1>2, <2>1, RestartedFacts DEF Debt
    <2>3. Debt(account[q]) \in Int
      BY <1>2, DebtType, SMTT(20)
    <2> QED BY <2>2, <2>3, SMTT(20) DEF DebtGrowsByService
  <1>8. CASE \E p \in Peers : \E b \in Account :
               /\ Debt(b) <= Debt(account[p])
               /\ account' = [account EXCEPT ![p] = b]
    BY <1>1, <1>8, NoMoreDebt
  <1> DEFINE Lowers(p, b) == /\ b \in Account
                             /\ Debt(b) <= Debt(account[p])
                             /\ account' = [account EXCEPT ![p] = b]
  <1>9. CASE \E r \in Requests : Release(r)
    <2>1. PICK r \in Requests : Release(r)
      BY <1>9
    <2>2. request[r].peer \in Peers /\ request[r].price \in Nat
      <3>1. request[r].peer \in Peers /\ request[r].price \in Prices
        BY <1>1, <2>1, SMTT(20) DEF Release, TypeOK, Request, NoRequest
      <3> QED BY <1>2, <3>1
    <2>3. Lowers(request[r].peer, Released(account[request[r].peer], request[r].price))
      <3>1. Released(account[request[r].peer], request[r].price) \in Account
        BY <1>2, <2>2, ReleasedFacts
      <3>4. Debt(account[request[r].peer]) \in Int
        BY <1>2, <2>2, DebtNotRaised
      <3>2. Debt(Released(account[request[r].peer], request[r].price)) =
              Debt(account[request[r].peer])
        BY <1>2, <2>2, DebtNotRaisedBy
      <3>3. account' = [account EXCEPT ![request[r].peer] =
              Released(account[request[r].peer], request[r].price)]
        BY <2>1 DEF Release
      <3> QED BY <3>1, <3>2, <3>3, <3>4, SMTT(20)
    <2> QED BY <1>8, <2>2, <2>3
  <1>10. CASE \E p \in Peers : NotifyPaymentSent(p)
    <2>1. PICK p \in Peers : NotifyPaymentSent(p)
      BY <1>10
    <2>2. \/ Lowers(p, PaymentSent(account[p], cheque[p]))
          \/ Lowers(p, PaymentFailed(account[p], cheque[p], clock))
      <3>1. /\ PaymentSent(account[p], cheque[p]) \in Account
            /\ PaymentFailed(account[p], cheque[p], clock) \in Account
        BY <1>2, PaymentSentFacts, PaymentFailedFacts
      <3>4. Debt(account[p]) \in Int
        BY <1>2, DebtNotRaised
      <3>2. /\ Debt(PaymentSent(account[p], cheque[p])) <= Debt(account[p])
            /\ Debt(PaymentFailed(account[p], cheque[p], clock)) = Debt(account[p])
        BY <1>2, DebtNotRaisedBy, DebtNotRaisedAt, SMTT(20)
      <3>3. \/ account' = [account EXCEPT ![p] = PaymentSent(account[p], cheque[p])]
            \/ account' = [account EXCEPT ![p] = PaymentFailed(account[p], cheque[p], clock)]
        BY <2>1 DEF NotifyPaymentSent
      <3> QED BY <3>1, <3>2, <3>3, <3>4, SMTT(20)
    <2> QED BY <1>8, <2>2
  <1>11. CASE \E p \in Peers, amount \in Payments : NotifyPaymentReceived(p, amount)
    <2>1. PICK p \in Peers, amount \in Payments : NotifyPaymentReceived(p, amount)
      BY <1>11
    <2>2. Lowers(p, PaymentReceived(account[p], amount))
      <3>1. amount \in Nat /\ account[p] \in Account
        BY <1>2
      <3>2. PaymentReceived(account[p], amount) \in Account
        BY <3>1, PaymentReceivedFacts
      <3>3. Debt(PaymentReceived(account[p], amount)) <= Debt(account[p])
        BY <3>1, DebtNotRaisedBy, DebtType, SMTT(20)
      <3>4. account' = [account EXCEPT ![p] = PaymentReceived(account[p], amount)]
        BY <2>1 DEF NotifyPaymentReceived
      <3> QED BY <3>2, <3>3, <3>4
    <2> QED BY <1>8, <2>2
  <1>12. CASE \E p \in Peers, threshold \in Thresholds : NotifyPaymentThreshold(p, threshold)
    <2>1. PICK p \in Peers, threshold \in Thresholds : NotifyPaymentThreshold(p, threshold)
      BY <1>12
    <2>2. threshold \in Nat /\ account[p] \in Account
      BY <1>2, AccountingAssumption
    <2>3. account' = [account EXCEPT ![p] = [account[p] EXCEPT !.threshold = threshold]]
      BY <1>1, <2>1 DEF NotifyPaymentThreshold
    <2>4. /\ [account[p] EXCEPT !.threshold = threshold] \in Account
          /\ [account[p] EXCEPT !.threshold = threshold].balance = account[p].balance
      BY <2>2 DEF Account
    <2>5. Lowers(p, [account[p] EXCEPT !.threshold = threshold])
      BY <2>2, <2>3, <2>4, DebtType, SMTT(20) DEF Debt
    <2> QED BY <1>8, <2>5
  <1>13. CASE \E d \in Debits, p \in Peers, price \in Prices : PrepareDebit(d, p, price)
    <2>1. PICK d \in Debits, p \in Peers, price \in Prices : PrepareDebit(d, p, price)
      BY <1>13
    <2>2. Lowers(p, DebitPrepared(account[p], price))
      <3>1. price \in Nat /\ account[p] \in Account
        BY <1>2
      <3>2. DebitPrepared(account[p], price) \in Account
        BY <3>1, DebitPreparedFacts
      <3>3. Debt(DebitPrepared(account[p], price)) <= Debt(account[p])
        BY <3>1, DebtNotRaisedBy, DebtType, SMTT(20)
      <3>4. account' = [account EXCEPT ![p] = DebitPrepared(account[p], price)]
        BY <2>1 DEF PrepareDebit
      <3> QED BY <3>2, <3>3, <3>4
    <2> QED BY <1>8, <2>2
  <1>14. CASE \E d \in Debits : Apply(d) \/ Cleanup(d)
    <2>1. PICK d \in Debits : Apply(d) \/ Cleanup(d)
      BY <1>14
    <2>2. debit[d].peer \in Peers /\ debit[d].price \in Nat
      <3>1. debit[d].peer \in Peers /\ debit[d].price \in Prices
        <4>1. debit[d].pc = "prepared"
          BY <2>1 DEF Apply, Cleanup
        <4> QED BY <1>1, <4>1, SMTT(20) DEF TypeOK, Debit, NoDebit
      <3> QED BY <1>2, <3>1
    <2>3. \/ Lowers(debit[d].peer, DebitApplied(account[debit[d].peer], debit[d].price))
          \/ Lowers(debit[d].peer, DebitCleanedUp(account[debit[d].peer], debit[d].price))
      <3> DEFINE a == account[debit[d].peer]
      <3>1. /\ DebitApplied(a, debit[d].price) \in Account
            /\ DebitCleanedUp(a, debit[d].price) \in Account
        BY <1>2, <2>2, DebitAppliedFacts, DebitCleanedUpFacts
      <3>4. Debt(a) \in Int
        BY <1>2, <2>2, DebtNotRaised
      <3>2. /\ Debt(DebitApplied(a, debit[d].price)) <= Debt(a)
            /\ Debt(DebitCleanedUp(a, debit[d].price)) = Debt(a)
        BY <1>2, <2>2, DebtNotRaisedBy
      <3>3. \/ account' = [account EXCEPT ![debit[d].peer] = DebitApplied(a, debit[d].price)]
            \/ account' = [account EXCEPT ![debit[d].peer] = DebitCleanedUp(a, debit[d].price)]
        BY <2>1 DEF Apply, Cleanup
      <3> QED BY <3>1, <3>2, <3>3, <3>4, SMTT(20)
    <2> QED BY <1>8, <2>2, <2>3
  <1>15. CASE \E p \in Peers : Connect(p) \/ Disconnect(p)
    <2>1. PICK p \in Peers : Connect(p) \/ Disconnect(p)
      BY <1>15
    <2>2. \/ Lowers(p, Connected(account[p]))
          \/ Lowers(p, Disconnected(account[p]))
      <3>1. /\ Connected(account[p]) \in Account
            /\ Disconnected(account[p]) \in Account
        BY <1>2, ConnectedFacts, DisconnectedFacts
      <3>4. Debt(account[p]) \in Int
        BY <1>2, DebtNotRaised
      <3>2. /\ Debt(Connected(account[p])) <= Debt(account[p])
            /\ Debt(Disconnected(account[p])) = Debt(account[p])
        BY <1>2, DebtNotRaised
      <3>3. \/ account' = [account EXCEPT ![p] = Connected(account[p])]
            \/ account' = [account EXCEPT ![p] = Disconnected(account[p])]
        BY <2>1 DEF Connect, Disconnect
      <3> QED BY <3>1, <3>2, <3>3, <3>4, SMTT(20)
    <2> QED BY <1>8, <2>2
  <1>16. ASSUME \/ \E r \in Requests, p \in Peers, price \in Prices : ReserveRefreshFails(r, p, price)
                \/ \E p \in Peers : \E amount \in 1..PeerDebt(account[p]) : GrantRefreshment(p, amount)
                \/ \E p \in Peers : BanExpires(p)
                \/ Tick
         PROVE  account' = account
    BY <1>16 DEF ReserveRefreshFails, GrantRefreshment, BanExpires, Tick
  <1> HIDE DEF Lowers
  <1> QED
    BY <1>3, <1>4, <1>5, <1>6, <1>7, <1>9, <1>10, <1>11, <1>12, <1>13, <1>14, <1>15, <1>16
       DEF Next

\* Debt grows by service only, in every behaviour.
THEOREM DebtGrowsOnlyByService == Spec => DebtOnlyByService
  <1>1. IInv /\ [Next]_vars => [\A p \in Peers : DebtGrowsByService(p)]_vars
    BY NextDebt
  <1> QED BY <1>1, Invariance, PTL DEF Spec, DebtOnlyByService
=============================================================================
