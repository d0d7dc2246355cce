------------------------------- MODULE Ledger -------------------------------
(***************************************************************************)
(* The account a node keeps for one peer (pkg/accounting/accounting.go),   *)
(* and what each accounting operation computes from it.  Every operation   *)
(* of the code runs with the peer's lock held, so it is a function from    *)
(* the account before to the account after; the modules that extend this   *)
(* one decide when the operations happen.                                  *)
(*                                                                         *)
(* Amounts are integers, as the code's big.Int: a negative balance means   *)
(* that we owe the peer.                                                   *)
(***************************************************************************)
EXTENDS Integers

CONSTANTS
  PaymentThreshold,          \* debt at which we expect the peer to settle
  PaymentTolerance,          \* debt above it that we still accept
  EarlyPayment,              \* distance from the threshold at which we settle
  RefreshRate,               \* free allowance per second
  MinimumPaymentDivisor,     \* a cheque is at least RefreshRate \div this
  FailedSettlementInterval,  \* seconds without cheques after a failed one
  SwapEnabled                \* payFunction is set

ASSUME LedgerAssumption ==
  /\ PaymentThreshold \in Nat
  /\ PaymentTolerance \in Nat
  /\ EarlyPayment \in Nat
  /\ RefreshRate \in Nat \ {0}
  /\ MinimumPaymentDivisor \in Nat \ {0}
  /\ RefreshRate >= MinimumPaymentDivisor
  /\ FailedSettlementInterval \in Nat
  /\ SwapEnabled \in BOOLEAN

Greater(a, b) == IF a >= b THEN a ELSE b
Smaller(a, b) == IF a <= b THEN a ELSE b

DisconnectLimit == PaymentThreshold + PaymentTolerance
MinimumPayment == RefreshRate \div MinimumPaymentDivisor

(***************************************************************************)
(* balance, surplus and originated are in the state store; the other       *)
(* fields are in memory only.                                              *)
(***************************************************************************)
Account ==
  [connected  : BOOLEAN,   \* Connect ran, Disconnect did not
   balance    : Int,
   surplus    : Nat,       \* payments received beyond the peer's debt
   originated : Int,       \* part of the balance caused by our own requests
   reserved   : Nat,       \* price of our requests in progress
   shadow     : Int,       \* debits in progress and the cheque being sent
   ghost      : Nat,       \* debits that were prepared and never applied
   threshold  : Nat,       \* payment threshold the peer announced
   refreshed  : Int,       \* time of the last refreshment we sent
   paying     : BOOLEAN,   \* a cheque is being sent
   failed     : Int]       \* time of the last cheque that failed

\* An account that was never written to, as after a start of the node.
NewAccount ==
  [connected |-> FALSE, balance |-> 0, surplus |-> 0, originated |-> 0,
   reserved |-> 0, shadow |-> 0, ghost |-> 0, threshold |-> PaymentThreshold,
   refreshed |-> 0, paying |-> FALSE, failed |-> 0]

Debt(a) == Greater(-a.balance, 0)

-----------------------------------------------------------------------------
(* Requests we make: Reserve, Release, Credit. *)

\* Our debt if every reserved operation, and one more at this price, is
\* credited.
IncreasedExpectedDebt(a, price) == Debt(a) + (a.reserved + price) + a.surplus

SettleThreshold(a) == IF a.threshold > EarlyPayment THEN a.threshold - EarlyPayment ELSE 0

\* Reserve settles first when the debt the peer may see is close to the
\* threshold and we really are in debt.
MustSettle(a, price) ==
  /\ IncreasedExpectedDebt(a, price) - a.shadow >= SettleThreshold(a)
  /\ a.balance < 0

\* Mutant: admits a request by the debt alone.
OverdraftIgnoringReserved(a, price) == Debt(a) + price > a.threshold

Overdraft(a, price) == IncreasedExpectedDebt(a, price) > a.threshold

Reserved(a, price) == [a EXCEPT !.reserved = @ + price]

\* Mutant: takes the price off without looking at what is reserved.
ReleasedBelowZero(a, price) == [a EXCEPT !.reserved = @ - price]

Released(a, price) == [a EXCEPT !.reserved = IF price > @ THEN 0 ELSE @ - price]

\* The originated balance never shows more debt than the balance does.
OriginatedLimited(a) == [a EXCEPT !.originated = Greater(@, Smaller(a.balance, 0))]

\* Mutant: Credit releases the reservation as well.
CreditedAndReleased(a, price, originated) ==
  [a EXCEPT !.balance = @ - price, !.reserved = Greater(@ - price, 0)]

Credited(a, price, originated) ==
  IF originated
  THEN OriginatedLimited([a EXCEPT !.balance = @ - price, !.originated = @ - price])
  ELSE [a EXCEPT !.balance = @ - price]

-----------------------------------------------------------------------------
(* Settling our debt: a refreshment in time, then a cheque. *)

CompensatedDebt(a) == a.surplus - a.balance

RefreshDue(a, now) == CompensatedDebt(a) > 0 /\ now - a.refreshed > 0

\* The part of our debt that the peer must see whatever is in progress.
ShadowBalance(a) ==
  IF a.balance >= 0 \/ a.surplus - a.balance < a.shadow
  THEN 0
  ELSE -a.balance - a.shadow

\* Mutant: leaves the originated balance as it is.
RefreshedKeepingOriginated(a, accepted, stamp) ==
  [a EXCEPT !.balance = @ + accepted, !.refreshed = stamp]

Refreshed(a, accepted, stamp) ==
  OriginatedLimited([a EXCEPT !.balance = @ + accepted, !.refreshed = stamp])

PaymentDue(a, now) ==
  /\ SwapEnabled
  /\ ~a.paying
  /\ now - a.failed > FailedSettlementInterval
  /\ -a.originated >= MinimumPayment

PaymentAmount(a) == -a.originated

PaymentStarted(a) == [a EXCEPT !.paying = TRUE, !.shadow = @ + PaymentAmount(a)]

PaymentSent(a, amount) ==
  [a EXCEPT !.paying = FALSE, !.shadow = @ - amount,
            !.balance = @ + amount, !.originated = @ + amount]

\* Mutant: a failed payment stays in progress.
PaymentFailedStillPaying(a, amount, now) ==
  [a EXCEPT !.shadow = @ - amount, !.failed = now]

PaymentFailed(a, amount, now) ==
  [a EXCEPT !.paying = FALSE, !.shadow = @ - amount, !.failed = now]

-----------------------------------------------------------------------------
(* What the peer settles. *)

\* Mutant: may be negative.
PeerDebtUnlimited(a) == a.balance + a.shadow

\* The debt a refreshment may cover, debits in progress included.
PeerDebt(a) == Greater(a.balance + a.shadow, 0)

\* Mutant: books the whole payment on the balance.
PaymentReceivedInFull(a, amount) ==
  IF a.balance <= 0
  THEN [a EXCEPT !.surplus = @ + amount]
  ELSE [a EXCEPT !.balance = @ - amount]

\* A payment that exceeds the debt becomes surplus: it never puts us in debt.
PaymentReceived(a, amount) ==
  IF a.balance <= 0
  THEN [a EXCEPT !.surplus = @ + amount]
  ELSE [a EXCEPT !.balance = Greater(@ - amount, 0),
                 !.surplus = @ + Greater(amount - a.balance, 0)]

RefreshmentReceived(a, amount) == [a EXCEPT !.balance = @ - amount]

-----------------------------------------------------------------------------
(* Requests the peer makes: PrepareDebit, then Apply or Cleanup. *)

DebitPrepared(a, price) == [a EXCEPT !.shadow = @ + price]

\* A debit is taken from the surplus first.
BalanceIncreased(a, price) ==
  IF a.surplus >= price
  THEN [a EXCEPT !.surplus = @ - price]
  ELSE OriginatedLimited([a EXCEPT !.surplus = 0, !.balance = @ + (price - a.surplus)])

DebitApplied(a, price) == [BalanceIncreased(a, price) EXCEPT !.shadow = @ - price]

OverLimit(a) == a.balance >= DisconnectLimit

\* Mutant: Cleanup forgets the shadow reserve.
DebitCleanedUpKeepingShadow(a, price) == [a EXCEPT !.ghost = @ + price]

DebitCleanedUp(a, price) == [a EXCEPT !.shadow = @ - price, !.ghost = @ + price]

GhostOverLimit(a) == a.ghost > DisconnectLimit

-----------------------------------------------------------------------------
(* Connections. *)

\* Connect starts from zero, but keeps the originated balance, the payment
\* in progress, the announced threshold and the two times.
Connected(a) ==
  [a EXCEPT !.connected = TRUE, !.shadow = 0, !.ghost = 0, !.reserved = 0,
            !.balance = 0, !.surplus = 0]

Disconnected(a) == [a EXCEPT !.connected = FALSE]

\* After a restart only what the state store holds is left.
Restarted(a) ==
  [NewAccount EXCEPT !.balance = a.balance, !.surplus = a.surplus,
                     !.originated = a.originated]
=============================================================================
