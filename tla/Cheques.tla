------------------------------ MODULE Cheques ------------------------------
(***************************************************************************)
(* Cheques (pkg/settlement/swap): one node's chequebook, from which it     *)
(* pays its peers, the cheque stores and cashouts of those peers, and the  *)
(* chequebook contract as far as the code uses it.                         *)
(*                                                                         *)
(* A payment is a goroutine that accounting starts, at most one per peer   *)
(* at a time (paymentOngoing).  It reads the chequebook, the contract and  *)
(* the state store in several steps, and only some of them hold the        *)
(* chequebook's lock.  A peer that comes back under a new overlay keeps    *)
(* its Ethereum address: that is when two payments can go to the same      *)
(* beneficiary.                                                            *)
(***************************************************************************)
EXTENDS Sums, Integers

CONSTANTS
  Peers,
  Beneficiaries,
  EthereumAddress,  \* EthereumAddress[p]: the beneficiary behind overlay p
  Known,            \* the peers in the addressbook when the node starts
  Amounts,          \* what accounting asks to pay, in accounting units
  ExchangeRate,     \* tokens per accounting unit
  Deduction,        \* tokens added once per peer, for the cashout
  Funds,            \* tokens of the owner when the node starts
  Deposits,         \* amounts the owner deposits
  Withdrawals,      \* amounts the owner withdraws
  MaxPayments,      \* bound: number of payments
  MaxWithdrawals    \* bound: number of withdrawals

ASSUME ChequesAssumption ==
  /\ IsFiniteSet(Peers) /\ IsFiniteSet(Beneficiaries)
  /\ "none" \notin Peers \cup Beneficiaries
  /\ EthereumAddress \in [Peers -> Beneficiaries]
  /\ Known \subseteq Peers
  /\ \A p, q \in Known : p # q => EthereumAddress[p] # EthereumAddress[q]
  /\ Amounts \subseteq Nat \ {0} /\ Amounts # {}
  /\ ExchangeRate \in Nat \ {0}
  /\ {Deduction, Funds, MaxPayments, MaxWithdrawals} \subseteq Nat
  /\ Deposits \subseteq Nat \ {0}
  /\ Withdrawals \subseteq Nat \ {0}

VARIABLES
  lastCheque,    \* lastCheque[b]: cumulative payout of the last cheque saved
  totalIssued,   \* total of all cheques, as saved
  reserved,      \* totalIssuedReserved, in memory
  lock,          \* the payment that holds the chequebook's lock, or "none"
  payment,       \* payment[p]: the payment to peer p, see NoPayment
  payments,      \* number of payments so far
  withdrawals,   \* number of withdrawals so far
  book,          \* addressbook: [beneficiary[p], peer[b]], "none" if unknown
  deductedBy,    \* deductedBy[p]: we paid the deduction to p
  wire,          \* cheques on their way
  received,      \* received[b]: last cheque in b's cheque store
  deductedFor,   \* deductedFor[b]: b took the deduction from us
  cashout,       \* cashout[b]: the last cashout b stored
  cashing,       \* cashout transactions not yet mined
  balance,       \* chain: tokens of the chequebook
  paidOut,       \* chain: paidOut[b]
  wallet,        \* chain: tokens of the owner
  depositing,    \* amount of the deposit not yet mined, 0 if none
  withdrawal,    \* the withdrawal in progress, see NoWithdrawal
  issued,        \* history: issued[b], the highest cheque ever written
  paid,          \* history: paid[b], tokens that accounting was told are paid
  strayed,       \* history: strayed[b], cheques saved but reported as failed
  shared,        \* history: the beneficiaries with two payments at the same time
  excess,        \* history: by how much checks of the funds were mistaken
  lost,          \* history: cheques that were written and never counted
  bounced        \* history: the beneficiaries that had a cheque bounce

chequebook == <<lastCheque, totalIssued, reserved, lock>>
chain == <<withdrawals, cashing, balance, paidOut, wallet, depositing, withdrawal>>
receiver == <<received, deductedFor, cashout>>
history == <<issued, paid, strayed, shared, excess, lost, bounced>>
vars == <<chequebook, payment, payments, book, deductedBy, wire, receiver, chain, history>>

\* stage: idle, negotiated, checking, reserved, signed, written, saved,
\* counted; seen: the balance read by the check of the funds.
NoPayment == [stage |-> "idle", beneficiary |-> "none", tokens |-> 0, deduction |-> 0,
              cumulative |-> 0, seen |-> 0]
NoWithdrawal == [stage |-> "idle", amount |-> 0, seen |-> 0, issued |-> 0]
NoCashout == [status |-> "none", cumulative |-> 0]

-----------------------------------------------------------------------------
TotalPaidOut == SumOver(paidOut, Beneficiaries)
TotalWritten == SumOver(issued, Beneficiaries)

\* Withdrawals that were sent to the chain and are not mined.
Withdrawing == IF withdrawal.stage = "sent" THEN withdrawal.amount ELSE 0

\* Tokens of payments that passed the check and are not in totalIssued.
Uncounted == reserved - SumOver([p \in Peers |-> payment[p].tokens],
                                {p \in Peers : payment[p].stage = "counted"})

\* What is really left to promise: history, for the properties.
TrulyAvailable == balance + TotalPaidOut - Withdrawing - totalIssued - Uncounted

Mistake(estimate) == IF estimate > TrulyAvailable THEN estimate - TrulyAvailable ELSE 0

-----------------------------------------------------------------------------
Init ==
  /\ lastCheque = [b \in Beneficiaries |-> 0]
  /\ totalIssued = 0
  /\ reserved = 0
  /\ lock = "none"
  /\ payment = [p \in Peers |-> NoPayment]
  /\ payments = 0
  /\ withdrawals = 0
  /\ book = [beneficiary |-> [p \in Peers |-> IF p \in Known THEN EthereumAddress[p] ELSE "none"],
             peer |-> [b \in Beneficiaries |->
                         IF \E p \in Known : EthereumAddress[p] = b
                         THEN CHOOSE p \in Known : EthereumAddress[p] = b ELSE "none"]]
  /\ deductedBy = [p \in Peers |-> FALSE]
  /\ wire = {}
  /\ received = [b \in Beneficiaries |-> 0]
  /\ deductedFor = [b \in Beneficiaries |-> FALSE]
  /\ cashout = [b \in Beneficiaries |-> NoCashout]
  /\ cashing = {}
  /\ balance = 0
  /\ paidOut = [b \in Beneficiaries |-> 0]
  /\ wallet = Funds
  /\ depositing = 0
  /\ withdrawal = NoWithdrawal
  /\ issued = [b \in Beneficiaries |-> 0]
  /\ paid = [b \in Beneficiaries |-> 0]
  /\ strayed = [b \in Beneficiaries |-> 0]
  /\ shared = {}
  /\ excess = 0
  /\ lost = 0
  /\ bounced = {}

\* The swap handshake when a peer connects.  A beneficiary known under
\* another overlay moves to the new one.
Handshake(p) ==
  LET b == EthereumAddress[p]
      old == book.peer[b]
      put == [book EXCEPT !.beneficiary[p] = b, !.peer[b] = p]
  IN
  /\ book' = IF old \notin {"none", p}
             THEN [put EXCEPT !.beneficiary[old] = "none"]
             ELSE IF book.beneficiary[p] = "none" THEN put ELSE book
  /\ book' # book
  /\ UNCHANGED <<chequebook, payment, payments, deductedBy, wire, receiver, chain, history>>

-----------------------------------------------------------------------------
(* A payment: swap.Pay, swapprotocol.EmitCheque and chequebook.Issue. *)

\* Pay finds the beneficiary, EmitCheque opens the stream and agrees with the
\* deduction in the peer's headers.  A payment that fails so early (unknown
\* beneficiary, ErrHaveDeduction) changes nothing here.
Pay(p, amount) ==
  LET b == book.beneficiary[p]
      deduction == IF deductedFor[b] THEN 0 ELSE Deduction
  IN
  /\ payment[p].stage = "idle"
  /\ payments < MaxPayments
  /\ b # "none"
  /\ ~(deductedBy[p] /\ deduction # 0)
  /\ payment' = [payment EXCEPT ![p] =
       [stage |-> "negotiated", beneficiary |-> b, tokens |-> amount * ExchangeRate + deduction,
        deduction |-> deduction, cumulative |-> 0, seen |-> 0]]
  /\ payments' = payments + 1
  /\ shared' = IF \E q \in Peers : payment[q].beneficiary = b THEN shared \cup {b} ELSE shared
  /\ UNCHANGED <<chequebook, book, deductedBy, wire, receiver, chain, issued, paid, strayed, excess,
                 lost, bounced>>

\* reserveTotalIssued takes the lock; AvailableBalance reads the balance ...
ReadBalance(p) ==
  /\ payment[p].stage = "negotiated"
  /\ lock = "none"
  /\ lock' = p
  /\ payment' = [payment EXCEPT ![p].stage = "checking", ![p].seen = balance]
  /\ UNCHANGED <<lastCheque, totalIssued, reserved, payments, book, deductedBy, wire, receiver,
                 chain, history>>

\* Mutant: other payments in progress are not counted.
AvailableToAll(p) == payment[p].seen + TotalPaidOut - totalIssued

\* ... and then the total paid out; what other payments reserved is not
\* available.
AvailableToIssue(p) == payment[p].seen + TotalPaidOut - totalIssued - reserved

\* Mutant: checks and reserves nothing.
ReserveNothing(p) ==
  /\ payment[p].stage = "checking"
  /\ lock' = "none"
  /\ payment' = [payment EXCEPT ![p].stage = "reserved"]
  /\ UNCHANGED <<lastCheque, totalIssued, reserved, payments, book, deductedBy, wire, receiver,
                 chain, history>>

ReserveTotalIssued(p) ==
  LET estimate == AvailableToIssue(p)
      enough == payment[p].tokens <= estimate
  IN
  /\ payment[p].stage = "checking"
  /\ lock' = "none"
  /\ IF enough
     THEN /\ reserved' = reserved + payment[p].tokens
          /\ payment' = [payment EXCEPT ![p].stage = "reserved"]
          /\ excess' = excess + Mistake(payment[p].seen + TotalPaidOut - totalIssued - reserved)
     ELSE /\ payment' = [payment EXCEPT ![p] = NoPayment]
          /\ UNCHANGED <<reserved, excess>>
  /\ UNCHANGED <<lastCheque, totalIssued, payments, book, deductedBy, wire, receiver, chain,
                 issued, paid, strayed, shared, lost, bounced>>

\* Mutant: numbers the cheque by the total of all cheques.
NextCumulative(p) == totalIssued + payment[p].tokens

\* Without the lock: the cheque is the last one saved, plus this payment.
CumulativePayout(p) == lastCheque[payment[p].beneficiary] + payment[p].tokens

\* Mutant: saves the cheque before it is sent.
SignAndSaveCheque(p) ==
  /\ payment[p].stage = "reserved"
  /\ payment' = [payment EXCEPT ![p].stage = "signed", ![p].cumulative = CumulativePayout(p)]
  /\ lastCheque' = [lastCheque EXCEPT ![payment[p].beneficiary] = CumulativePayout(p)]
  /\ UNCHANGED <<totalIssued, reserved, lock, payments, book, deductedBy, wire, receiver, chain,
                 history>>

SignCheque(p) ==
  /\ payment[p].stage = "reserved"
  /\ payment' = [payment EXCEPT ![p].stage = "signed", ![p].cumulative = CumulativePayout(p)]
  /\ UNCHANGED <<chequebook, payments, book, deductedBy, wire, receiver, chain, history>>

Written(p) ==
  LET b == payment[p].beneficiary
      c == payment[p].cumulative
  IN
  /\ wire' = wire \cup {[beneficiary |-> b, cumulative |-> c, deduction |-> payment[p].deduction]}
  /\ issued' = [issued EXCEPT ![b] = IF c > @ THEN c ELSE @]

SendCheque(p) ==
  /\ payment[p].stage = "signed"
  /\ Written(p)
  /\ payment' = [payment EXCEPT ![p].stage = "written"]
  /\ UNCHANGED <<chequebook, payments, book, deductedBy, receiver, chain, paid, strayed, shared,
                 excess, lost, bounced>>

\* The deferred unreserveTotalIssued and the end of a payment.
Unreserve(p) ==
  /\ lock = "none"
  /\ reserved' = reserved - payment[p].tokens
  /\ payment' = [payment EXCEPT ![p] = NoPayment]

\* The write reports an error; the cheque may have left all the same.
SendFails(p) ==
  /\ payment[p].stage = "signed"
  /\ Unreserve(p)
  /\ \/ UNCHANGED <<wire, issued, lost>>
     \/ Written(p) /\ lost' = lost + payment[p].tokens
  /\ UNCHANGED <<lastCheque, totalIssued, lock, payments, book, deductedBy, receiver, chain, paid,
                 strayed, shared, excess, bounced>>

SaveCheque(p) ==
  /\ payment[p].stage = "written"
  /\ lastCheque' = [lastCheque EXCEPT ![payment[p].beneficiary] = payment[p].cumulative]
  /\ payment' = [payment EXCEPT ![p].stage = "saved"]
  /\ UNCHANGED <<totalIssued, reserved, lock, payments, book, deductedBy, wire, receiver, chain,
                 history>>

AddTotalIssued(p) ==
  /\ payment[p].stage = "saved"
  /\ lock = "none"
  /\ totalIssued' = totalIssued + payment[p].tokens
  /\ payment' = [payment EXCEPT ![p].stage = "counted"]
  /\ UNCHANGED <<lastCheque, reserved, lock, payments, book, deductedBy, wire, receiver, chain,
                 history>>

\* The reservation is returned, the deduction noted and accounting told.
FinishPayment(p) ==
  LET b == payment[p].beneficiary IN
  /\ payment[p].stage = "counted"
  /\ Unreserve(p)
  /\ deductedBy' = [deductedBy EXCEPT ![p] = @ \/ payment[p].deduction # 0]
  /\ paid' = [paid EXCEPT ![b] = @ + payment[p].tokens]
  /\ UNCHANGED <<lastCheque, totalIssued, lock, payments, book, wire, receiver, chain, issued,
                 strayed, shared, excess, lost, bounced>>

\* Tokens of payment p that were written and will not be in totalIssued, and
\* of a cheque that was saved although the payment fails.
LostCount(p) == IF payment[p].stage \in {"written", "saved"} THEN payment[p].tokens ELSE 0
LostSave(p) == IF payment[p].stage \in {"saved", "counted"} THEN payment[p].tokens ELSE 0

\* The state store fails to save the cheque, the total or the deduction: the
\* payment is reported as failed.
PutFails(p) ==
  /\ \/ payment[p].stage \in {"written", "saved"}
     \/ payment[p].stage = "counted" /\ payment[p].deduction # 0
  /\ Unreserve(p)
  /\ lost' = lost + LostCount(p)
  /\ strayed' = [strayed EXCEPT ![payment[p].beneficiary] = @ + LostSave(p)]
  /\ UNCHANGED <<lastCheque, totalIssued, lock, payments, book, deductedBy, wire, receiver, chain,
                 issued, paid, shared, excess, bounced>>

\* The node stops and starts again: payments in progress end where they are.
Restart ==
  /\ withdrawal.stage = "reading" \/ \E p \in Peers : payment[p].stage # "idle"
  /\ payment' = [p \in Peers |-> NoPayment]
  /\ reserved' = 0
  /\ lock' = "none"
  /\ withdrawal' = IF withdrawal.stage = "reading" THEN NoWithdrawal ELSE withdrawal
  /\ lost' = lost + SumOver([p \in Peers |-> LostCount(p)], Peers)
  /\ strayed' = [b \in Beneficiaries |->
       strayed[b] + SumOver([p \in Peers |-> LostSave(p)],
                            {p \in Peers : payment[p].beneficiary = b})]
  /\ UNCHANGED <<lastCheque, totalIssued, payments, book, deductedBy, wire, receiver, cashing,
                 balance, paidOut, wallet, depositing, issued, paid, shared, excess, bounced,
                 withdrawals>>

-----------------------------------------------------------------------------
(* The peers: cheque store and cashout. *)

\* The handler of the swap protocol: the cheque store accepts a cheque that
\* is worth more than the last one, more than the deduction, and covered by
\* the chequebook.
Acceptable(c) ==
  LET amount == c.cumulative - received[c.beneficiary] IN
  /\ amount > 0
  /\ amount - c.deduction >= ExchangeRate
  /\ balance >= c.cumulative - paidOut[c.beneficiary]

ReceiveCheque(c) ==
  /\ c \in wire
  /\ wire' = wire \ {c}
  /\ IF Acceptable(c)
     THEN /\ received' = [received EXCEPT ![c.beneficiary] = c.cumulative]
          /\ deductedFor' = [deductedFor EXCEPT ![c.beneficiary] = @ \/ c.deduction > 0]
     ELSE UNCHANGED <<received, deductedFor>>
  /\ UNCHANGED <<chequebook, payment, payments, book, deductedBy, cashout, chain, history>>

LoseCheque(c) ==
  /\ c \in wire
  /\ wire' = wire \ {c}
  /\ UNCHANGED <<chequebook, payment, payments, book, deductedBy, receiver, chain, history>>

\* CashCheque sends the transaction, then stores the action.
CashCheque(b) ==
  LET tx == [beneficiary |-> b, cumulative |-> received[b]] IN
  /\ received[b] > 0
  /\ tx \notin cashing                   \* bound: not the same cheque twice at once
  /\ cashing' = cashing \cup {tx}
  /\ cashout' = [cashout EXCEPT ![b] = [status |-> "pending", cumulative |-> received[b]]]
  /\ UNCHANGED <<chequebook, payment, payments, book, deductedBy, wire, received, deductedFor,
                 balance, paidOut, wallet, depositing, withdrawal, history, withdrawals>>

\* Mutant: trusts the stored action also when its transaction failed.
UncashedByAction(b) == received[b] - cashout[b].cumulative

\* CashoutStatus.
UncashedAmount(b) ==
  CASE cashout[b].status = "none" -> received[b]
    [] cashout[b].status = "failed" -> received[b] - paidOut[b]
    [] OTHER -> received[b] - cashout[b].cumulative

-----------------------------------------------------------------------------
(* The owner, and the chequebook contract. *)

\* Deposit, and the transfer being mined.
Deposit(amount) ==
  /\ depositing = 0
  /\ wallet >= amount
  /\ depositing' = amount
  /\ UNCHANGED <<chequebook, payment, payments, book, deductedBy, wire, receiver, cashing, balance,
                 paidOut, wallet, withdrawal, history, withdrawals>>

MineDeposit ==
  /\ depositing > 0
  /\ depositing' = 0
  /\ IF wallet >= depositing
     THEN /\ balance' = balance + depositing
          /\ wallet' = wallet - depositing
     ELSE UNCHANGED <<balance, wallet>>
  /\ UNCHANGED <<chequebook, payment, payments, book, deductedBy, wire, receiver, cashing, paidOut,
                 withdrawal, history, withdrawals>>

\* Withdraw: AvailableBalance reads the total issued and the balance ...
StartWithdraw(amount) ==
  /\ withdrawal.stage = "idle"           \* bound: one withdrawal at a time
  /\ withdrawals < MaxWithdrawals
  /\ withdrawals' = withdrawals + 1
  /\ withdrawal' = [stage |-> "reading", amount |-> amount, seen |-> balance,
                    issued |-> totalIssued]
  /\ UNCHANGED <<chequebook, payment, payments, book, deductedBy, wire, receiver, cashing, balance,
                 paidOut, wallet, depositing, history>>

\* ... then the total paid out, without the lock and without the reservations.
Withdraw ==
  LET estimate == withdrawal.seen + TotalPaidOut - withdrawal.issued IN
  /\ withdrawal.stage = "reading"
  /\ IF estimate >= withdrawal.amount
     THEN /\ withdrawal' = [withdrawal EXCEPT !.stage = "sent"]
          /\ excess' = excess + Mistake(estimate)
     ELSE /\ withdrawal' = NoWithdrawal
          /\ UNCHANGED excess
  /\ UNCHANGED <<chequebook, payment, payments, book, deductedBy, wire, receiver, cashing, balance,
                 paidOut, wallet, depositing, issued, paid, strayed, shared, lost, bounced,
                 withdrawals>>

MineWithdraw ==
  /\ withdrawal.stage = "sent"
  /\ withdrawal' = NoWithdrawal
  /\ IF balance >= withdrawal.amount
     THEN /\ balance' = balance - withdrawal.amount
          /\ wallet' = wallet + withdrawal.amount
     ELSE UNCHANGED <<balance, wallet>>
  /\ UNCHANGED <<chequebook, payment, payments, book, deductedBy, wire, receiver, cashing, paidOut,
                 depositing, history, withdrawals>>

\* The contract pays what the chequebook can pay of the cheque; the rest
\* bounces.  A transaction for less than was paid already fails.
MineCashout(tx) ==
  LET b == tx.beneficiary
      request == tx.cumulative - paidOut[b]
      payout == IF request <= balance THEN request ELSE balance
      done(status) == IF cashout[b] = [status |-> "pending", cumulative |-> tx.cumulative]
                      THEN [cashout EXCEPT ![b].status = status] ELSE cashout
  IN
  /\ tx \in cashing
  /\ cashing' = cashing \ {tx}
  /\ \/ /\ request >= 0
        /\ paidOut' = [paidOut EXCEPT ![b] = @ + payout]
        /\ balance' = balance - payout
        /\ cashout' = done("mined")
        /\ bounced' = IF payout < request THEN bounced \cup {b} ELSE bounced
     \/ /\ cashout' = done("failed")
        /\ UNCHANGED <<paidOut, balance, bounced>>
  /\ UNCHANGED <<chequebook, payment, payments, book, deductedBy, wire, received, deductedFor,
                 wallet, depositing, withdrawal, issued, paid, strayed, shared, excess, lost,
                 withdrawals>>

-----------------------------------------------------------------------------
Next ==
  \/ \E p \in Peers : Handshake(p)
  \/ \E p \in Peers, amount \in Amounts : Pay(p, amount)
  \/ \E p \in Peers : ReadBalance(p) \/ ReserveTotalIssued(p) \/ SignCheque(p)
  \/ \E p \in Peers : SendCheque(p) \/ SendFails(p)
  \/ \E p \in Peers : SaveCheque(p) \/ AddTotalIssued(p) \/ FinishPayment(p) \/ PutFails(p)
  \/ Restart
  \/ \E c \in wire : ReceiveCheque(c) \/ LoseCheque(c)
  \/ \E b \in Beneficiaries : CashCheque(b)
  \/ \E amount \in Deposits : Deposit(amount)
  \/ MineDeposit
  \/ \E amount \in Withdrawals : StartWithdraw(amount)
  \/ Withdraw
  \/ MineWithdraw
  \/ \E tx \in cashing : MineCashout(tx)

Spec == Init /\ [][Next]_vars

-----------------------------------------------------------------------------
\* Totals never go negative: unreserveTotalIssued takes out what
\* reserveTotalIssued put in, and the chequebook's lock has one holder.
TypeOK ==
  /\ \A b \in Beneficiaries : {lastCheque[b], received[b], paidOut[b], issued[b]} \subseteq Nat
  /\ {totalIssued, reserved, balance, wallet, excess, lost} \subseteq Nat
  /\ lock \in Peers \cup {"none"}
  /\ \A p \in Peers :
       /\ payment[p].stage \in {"idle", "negotiated", "checking", "reserved", "signed", "written",
                                "saved", "counted"}
       /\ payment[p].beneficiary \in Beneficiaries \cup {"none"}

\* The cheques that left the node are covered by the tokens in the chequebook
\* and those paid out, less a withdrawal on its way.  They exceed them only by
\* what a check of the funds was mistaken about (numbers read before a cashout
\* or a withdrawal was mined, or before another payment was counted) and by
\* cheques that left and were never counted (a failed write or save, a crash).
Solvent ==
  TotalWritten <= balance + TotalPaidOut - Withdrawing + excess + lost

\* Payments to b that are saved and that accounting is yet to hear of.
Saving(b) == SumOver([p \in Peers |-> payment[p].tokens],
                     {p \in Peers : /\ payment[p].beneficiary = b
                                    /\ payment[p].stage \in {"saved", "counted"}})

\* However often payments fail, the cheques of a beneficiary run ahead of
\* what was saved for accounting by one payment at most: the number of a
\* cheque that was sent and not saved is used again ("actually send the check
\* before saving to avoid double payment").
NoDoublePayment ==
  \A b \in Beneficiaries :
    \E amount \in Amounts :
      issued[b] <= paid[b] + strayed[b] + Saving(b) + amount * ExchangeRate + Deduction

\* What accounting booked as paid is in the last cheque, exactly, unless two
\* payments to the beneficiary overlapped: Issue reads the last cheque without
\* the lock, and a second payment to the same beneficiary would reuse it.
PaidIsInCheque ==
  \A b \in Beneficiaries \ shared : lastCheque[b] = paid[b] + strayed[b] + Saving(b)

\* The uncashed amount in the cashout status is what the last cheque is worth
\* beyond what was paid out, once no cashout is pending, unless one bounced.
UncashedExact ==
  \A b \in Beneficiaries \ bounced :
    (\A tx \in cashing : tx.beneficiary # b) => UncashedAmount(b) = received[b] - paidOut[b]

\* Withdraw's comment: "check we can afford this so we don't waste gas and
\* don't risk bouncing cheques".  When a withdrawal is sent, and no write or
\* save of a cheque failed, the rest covers the cheques that were written.
WithdrawLeavesCover ==
  withdrawal.stage = "sent" /\ lost = 0 =>
    TotalWritten <= balance + TotalPaidOut - withdrawal.amount
=============================================================================
