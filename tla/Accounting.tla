----------------------------- MODULE Accounting -----------------------------
(***************************************************************************)
(* One node's accounting (pkg/accounting/accounting.go) and the goroutines *)
(* that call it: our own requests (retrieval, pushsync), the requests we   *)
(* serve, the refreshments and cheques of both directions, connections     *)
(* that come and go, and a restart of the node.                            *)
(*                                                                         *)
(* An operation holds the peer's lock from start to end, the refreshment   *)
(* that Reserve waits for included, so each is one step.  Everything       *)
(* between two operations of the same goroutine may interleave with the    *)
(* other goroutines; in particular a request, a debit or a cheque may      *)
(* outlive the connection it started in.                                   *)
(***************************************************************************)
EXTENDS Ledger, Sums

CONSTANTS
  Peers,
  Requests,        \* requests we make, each in a goroutine of its own
  Debits,          \* requests we serve, each in a handler of its own
  Prices,          \* prices of chunks
  Payments,        \* amounts of cheques that peers send us
  Thresholds,      \* payment thresholds that peers announce
  StartTime,       \* the clock when the node first starts
  MaxClock,        \* bound: the clock stops here
  MaxSurplus,      \* bound: no cheque takes the surplus above this
  MaxGranted,      \* bound: refreshments granted in one connection
  MaxLives         \* bound: connections and restarts

ASSUME AccountingAssumption ==
  /\ "none" \notin Peers
  /\ IsFiniteSet(Requests)
  /\ IsFiniteSet(Debits)
  /\ Prices \subseteq Nat \ {0}
  /\ Payments \subseteq Nat
  /\ Thresholds \subseteq Nat
  /\ {StartTime, MaxClock, MaxSurplus, MaxGranted, MaxLives} \subseteq Nat

VARIABLES
  account,   \* account[p]: the account kept for peer p
  request,   \* request[r]: what requesting goroutine r is doing
  debit,     \* debit[d]: what serving handler d is doing
  cheque,    \* cheque[p]: amount of the cheque being sent to p, 0 if none
  grant,     \* grant[p]: refreshment acknowledged to p and not yet booked
  banned,    \* the peers that are blocklisted
  clock,     \* Unix time, in seconds
  session,   \* session[p]: history of the connection, see Session
  lives      \* number of connections and restarts so far

vars == <<account, request, debit, cheque, grant, banned, clock, session, lives>>

\* A request or a debit before it starts and after it ended.
NoRequest(pc) == [pc |-> pc, peer |-> "none", price |-> 0, originated |-> FALSE]
NoDebit(pc) == [pc |-> pc, peer |-> "none", price |-> 0]

\* A request that has reserved its price with the peer.
Started(p, price, originated) ==
  [pc |-> "reserved", peer |-> p, price |-> price, originated |-> originated]

Request ==
  {NoRequest("new"), NoRequest("done")} \cup
  [pc : {"reserved", "credited"}, peer : Peers, price : Prices, originated : BOOLEAN]
Debit ==
  {NoDebit("new"), NoDebit("done")} \cup
  [pc : {"prepared"}, peer : Peers, price : Prices]

(***************************************************************************)
(* History, read by the properties only:                                   *)
(*   ceiling   - the highest threshold in force since the last Connect     *)
(*   granted   - refreshments booked since the last Connect                *)
(*   requests  - price of the requests in progress at the last Connect     *)
(*   debits    - debits and cheque in progress at the last Connect         *)
(*   carried   - originated debt that the last Connect did not reset       *)
(***************************************************************************)
Session == [ceiling : Nat, granted : Nat, requests : Nat, debits : Nat, carried : Nat]

-----------------------------------------------------------------------------
RequestPrices == [r \in Requests |-> request[r].price]
DebitPrices == [d \in Debits |-> debit[d].price]

Open(p) == {r \in Requests : request[r].peer = p}
Uncredited(p) == {r \in Open(p) : request[r].pc = "reserved"}
Prepared(p) == {d \in Debits : debit[d].peer = p}

\* Price of our requests to p that are in progress, and of those among them
\* that are not yet in the balance.
OpenTotal(p) == SumOver(RequestPrices, Open(p))
UncreditedTotal(p) == SumOver(RequestPrices, Uncredited(p))

\* Price of the requests of p that we are serving.
PreparedTotal(p) == SumOver(DebitPrices, Prepared(p))

-----------------------------------------------------------------------------
Init ==
  /\ account = [p \in Peers |-> NewAccount]
  /\ request = [r \in Requests |-> NoRequest("new")]
  /\ debit = [d \in Debits |-> NoDebit("new")]
  /\ cheque = [p \in Peers |-> 0]
  /\ grant = [p \in Peers |-> 0]
  /\ banned = {}
  /\ clock = StartTime
  /\ session = [p \in Peers |-> [ceiling |-> PaymentThreshold, granted |-> 0,
                                 requests |-> 0, debits |-> 0, carried |-> 0]]
  /\ lives = 0

\* A blocklisted peer has no connection and opens no stream.
Reachable(p) == p \notin banned

Blocklist(p) == banned' = banned \cup {p}

\* The last part of settle: start a cheque when one is due.
PayIfDue(p, a) ==
  IF PaymentDue(a, clock)
  THEN /\ account' = [account EXCEPT ![p] = PaymentStarted(a)]
       /\ cheque' = [cheque EXCEPT ![p] = PaymentAmount(a)]
  ELSE /\ account' = [account EXCEPT ![p] = a]
       /\ UNCHANGED cheque

\* The end of Reserve on account a, which settle may have changed: reserve,
\* or report the overdraft and keep what settle did.
ReserveOn(r, p, price, originated, a) ==
  IF Overdraft(a, price)
  THEN PayIfDue(p, a) /\ UNCHANGED request
  ELSE /\ PayIfDue(p, Reserved(a, price))
       /\ request' = [request EXCEPT ![r] = Started(p, price, originated)]

\* Reserve, far from the threshold or not in debt.
Reserve(r, p, price, originated) ==
  /\ request[r].pc = "new"
  /\ account[p].connected
  /\ ~MustSettle(account[p], price)
  /\ ~Overdraft(account[p], price)
  /\ account' = [account EXCEPT ![p] = Reserved(@, price)]
  /\ request' = [request EXCEPT ![r] = Started(p, price, originated)]
  /\ UNCHANGED <<debit, cheque, grant, banned, clock, session, lives>>

\* Reserve that settles first.  The peer accepts no more than what was asked
\* for (pseudosettle.Pay checks it).
ReserveAndSettle(r, p, price, originated) ==
  /\ request[r].pc = "new"
  /\ account[p].connected
  /\ MustSettle(account[p], price)
  /\ IF RefreshDue(account[p], clock)
     THEN \E accepted \in 0..CompensatedDebt(account[p]) :
            ReserveOn(r, p, price, originated, Refreshed(account[p], accepted, clock))
     ELSE ReserveOn(r, p, price, originated, account[p])
  /\ UNCHANGED <<debit, grant, banned, clock, session, lives>>

\* Reserve whose refreshment fails: the peer is blocklisted.
ReserveRefreshFails(r, p, price) ==
  /\ request[r].pc = "new"
  /\ account[p].connected
  /\ MustSettle(account[p], price)
  /\ RefreshDue(account[p], clock)
  /\ Blocklist(p)
  /\ UNCHANGED <<account, request, debit, cheque, grant, clock, session, lives>>

\* The peer delivered; Credit does not ask whether the peer is connected.
Credit(r) ==
  LET p == request[r].peer IN
  /\ request[r].pc = "reserved"
  /\ account' = [account EXCEPT ![p] = Credited(@, request[r].price, request[r].originated)]
  /\ request' = [request EXCEPT ![r].pc = "credited"]
  /\ UNCHANGED <<debit, cheque, grant, banned, clock, session, lives>>

\* The deferred Release, after Credit or after a request that failed.
Release(r) ==
  LET p == request[r].peer IN
  /\ request[r].pc \in {"reserved", "credited"}
  /\ account' = [account EXCEPT ![p] = Released(@, request[r].price)]
  /\ request' = [request EXCEPT ![r] = NoRequest("done")]
  /\ UNCHANGED <<debit, cheque, grant, banned, clock, session, lives>>

-----------------------------------------------------------------------------
NotifyPaymentSent(p) ==
  /\ cheque[p] > 0
  /\ \/ account' = [account EXCEPT ![p] = PaymentSent(@, cheque[p])]
     \/ account' = [account EXCEPT ![p] = PaymentFailed(@, cheque[p], clock)]
  /\ cheque' = [cheque EXCEPT ![p] = 0]
  /\ UNCHANGED <<request, debit, grant, banned, clock, session, lives>>

NotifyPaymentReceived(p, amount) ==
  /\ account[p].surplus + amount <= MaxSurplus
  /\ account' = [account EXCEPT ![p] = PaymentReceived(@, amount)]
  /\ UNCHANGED <<request, debit, cheque, grant, banned, clock, session, lives>>

\* pseudosettle's handler reads the debt, acknowledges an amount up to it ...
GrantRefreshment(p, amount) ==
  /\ grant[p] = 0
  /\ session[p].granted + amount <= MaxGranted
  /\ grant' = [grant EXCEPT ![p] = amount]
  /\ UNCHANGED <<account, request, debit, cheque, banned, clock, session, lives>>

\* ... and books it later, whatever the balance is by then.
NotifyRefreshmentReceived(p) ==
  /\ grant[p] > 0
  /\ account' = [account EXCEPT ![p] = RefreshmentReceived(@, grant[p])]
  /\ grant' = [grant EXCEPT ![p] = 0]
  /\ session' = [session EXCEPT ![p].granted = @ + grant[p]]
  /\ UNCHANGED <<request, debit, cheque, banned, clock, lives>>

NotifyPaymentThreshold(p, threshold) ==
  /\ account' = [account EXCEPT ![p].threshold = threshold]
  /\ session' = [session EXCEPT ![p].ceiling = Greater(@, threshold)]
  /\ UNCHANGED <<request, debit, cheque, grant, banned, clock, lives>>

-----------------------------------------------------------------------------
PrepareDebit(d, p, price) ==
  /\ debit[d].pc = "new"
  /\ Reachable(p)
  /\ account[p].connected
  /\ account' = [account EXCEPT ![p] = DebitPrepared(@, price)]
  /\ debit' = [debit EXCEPT ![d] = [pc |-> "prepared", peer |-> p, price |-> price]]
  /\ UNCHANGED <<request, cheque, grant, banned, clock, session, lives>>

\* Apply, and the deferred Cleanup that then does nothing.  A peer that is
\* too much in debt is blocklisted through the BlockPeerError.
Apply(d) ==
  LET p == debit[d].peer
      a == DebitApplied(account[p], debit[d].price)
  IN
  /\ debit[d].pc = "prepared"
  /\ account' = [account EXCEPT ![p] = a]
  /\ debit' = [debit EXCEPT ![d] = NoDebit("done")]
  /\ IF OverLimit(a) THEN Blocklist(p) ELSE UNCHANGED banned
  /\ UNCHANGED <<request, cheque, grant, clock, session, lives>>

\* Cleanup of a debit that was not applied: the delivery failed.
Cleanup(d) ==
  LET p == debit[d].peer
      a == DebitCleanedUp(account[p], debit[d].price)
  IN
  /\ debit[d].pc = "prepared"
  /\ account' = [account EXCEPT ![p] = a]
  /\ debit' = [debit EXCEPT ![d] = NoDebit("done")]
  /\ IF GhostOverLimit(a) THEN Blocklist(p) ELSE UNCHANGED banned
  /\ UNCHANGED <<request, cheque, grant, clock, session, lives>>

-----------------------------------------------------------------------------
\* pseudosettle's init and terminate start Connect and Disconnect in
\* goroutines of their own, so a Connect may also follow a Connect.
Connect(p) ==
  /\ lives < MaxLives
  /\ lives' = lives + 1
  /\ Reachable(p)
  /\ account' = [account EXCEPT ![p] = Connected(@)]
  /\ session' = [session EXCEPT ![p] =
       [ceiling |-> account[p].threshold, granted |-> 0,
        requests |-> OpenTotal(p), debits |-> PreparedTotal(p) + cheque[p],
        carried |-> Greater(-account[p].originated, 0)]]
  /\ UNCHANGED <<request, debit, cheque, grant, banned, clock>>

Disconnect(p) ==
  /\ account[p].connected
  /\ account' = [account EXCEPT ![p] = Disconnected(@)]
  /\ Blocklist(p)
  /\ UNCHANGED <<request, debit, cheque, grant, clock, session, lives>>

\* The node stops at any point and starts again: goroutines and in-memory
\* fields are lost, the state store and the blocklist are not.
Restart ==
  /\ lives < MaxLives
  /\ lives' = lives + 1
  /\ account' = [p \in Peers |-> Restarted(account[p])]
  /\ request' = [r \in Requests |-> IF request[r].pc = "new" THEN request[r] ELSE NoRequest("done")]
  /\ debit' = [d \in Debits |-> IF debit[d].pc = "new" THEN debit[d] ELSE NoDebit("done")]
  /\ cheque' = [p \in Peers |-> 0]
  /\ grant' = [p \in Peers |-> 0]
  /\ session' = [p \in Peers |-> [session[p] EXCEPT !.debits = 0]]
  /\ UNCHANGED <<banned, clock>>

\* The time on the blocklist is over: at least the time in which refreshments
\* would have paid the peer's debt and the threshold (blocklistUntil), by when
\* the Disconnect that follows a ban has run.
BanExpires(p) ==
  /\ p \in banned
  /\ ~account[p].connected
  /\ banned' = banned \ {p}
  /\ UNCHANGED <<account, request, debit, cheque, grant, clock, session, lives>>

Tick ==
  /\ clock < MaxClock
  /\ clock' = clock + 1
  /\ UNCHANGED <<account, request, debit, cheque, grant, banned, session, lives>>

Next ==
  \/ \E r \in Requests, p \in Peers, price \in Prices, originated \in BOOLEAN :
       \/ Reserve(r, p, price, originated)
       \/ ReserveAndSettle(r, p, price, originated)
  \/ \E r \in Requests, p \in Peers, price \in Prices : ReserveRefreshFails(r, p, price)
  \/ \E r \in Requests : Credit(r) \/ Release(r)
  \/ \E p \in Peers : NotifyPaymentSent(p)
  \/ \E p \in Peers, amount \in Payments : NotifyPaymentReceived(p, amount)
  \/ \E p \in Peers : \E amount \in 1..PeerDebt(account[p]) : GrantRefreshment(p, amount)
  \/ \E p \in Peers : NotifyRefreshmentReceived(p)
  \/ \E p \in Peers, threshold \in Thresholds : NotifyPaymentThreshold(p, threshold)
  \/ \E d \in Debits, p \in Peers, price \in Prices : PrepareDebit(d, p, price)
  \/ \E d \in Debits : Apply(d) \/ Cleanup(d)
  \/ \E p \in Peers : Connect(p) \/ Disconnect(p) \/ BanExpires(p)
  \/ Restart
  \/ Tick

Spec == Init /\ [][Next]_vars

-----------------------------------------------------------------------------
\* A step in which our debt to p grows credits a request to p or books a
\* refreshment of p.
DebtGrowsByService(p) ==
  Debt(account'[p]) > Debt(account[p]) =>
    \/ \E r \in Uncredited(p) : request'[r].pc = "credited"
    \/ grant[p] > 0 /\ grant'[p] = 0

\* The fields of the account, and what the goroutines hold, have their types.
\* SurplusBalance reports an error for a negative surplus (ErrInvalidValue),
\* and a negative reserved balance would let Reserve admit too much.
TypeOK ==
  /\ account \in [Peers -> Account]
  /\ request \in [Requests -> Request]
  /\ debit \in [Debits -> Debit]
  /\ cheque \in [Peers -> Nat]
  /\ grant \in [Peers -> Nat]
  /\ banned \subseteq Peers
  /\ clock \in Nat
  /\ session \in [Peers -> Session]
  /\ lives \in Nat

\* The reserved balance stands for requests that are in progress, and it
\* falls short of them by no more than what was in progress when the peer
\* last connected: Release of a request that outlived its connection may not
\* eat reservations made later beyond that (Release, Connect).
ReservedBacked ==
  \A p \in Peers :
    /\ account[p].reserved <= OpenTotal(p)
    /\ OpenTotal(p) <= account[p].reserved + session[p].requests

\* What we owe plus what our requests in progress may still add stays within
\* the threshold the peer announced, apart from the requests that outlived a
\* connection and the refreshments we granted.  This is what Reserve is for:
\* a peer that is honest about its threshold never has to disconnect us.
ExposureBounded ==
  \A p \in Peers :
    Debt(account[p]) + UncreditedTotal(p)
      <= session[p].ceiling + session[p].requests + session[p].granted

\* The shadow reserve is exactly the debits being served plus the cheque being
\* sent, less those that Connect forgot and that are still to be taken out.
\* PeerDebt and ShadowBalance, the two sides of a refreshment, depend on it.
ShadowExact ==
  \A p \in Peers :
    account[p].shadow = PreparedTotal(p) + cheque[p] - session[p].debits

\* The originated balance, the amount of the next cheque, never asks us to pay
\* more than we owe plus what the last Connect carried over.
OriginatedCovered ==
  \A p \in Peers :
    -account[p].originated <= Debt(account[p]) + session[p].carried

\* At most one cheque per peer is on its way, and the flag that prevents a
\* second one (paymentOngoing) is set exactly while it is.
OnePayment ==
  \A p \in Peers : account[p].paying <=> cheque[p] > 0

\* Our debt to a peer grows only when a request of ours is credited or a
\* refreshment we acknowledged is booked; a cheque of the peer never causes
\* it ("Don't allow a payment to put us into debt").
DebtOnlyByService ==
  [][\A p \in Peers : DebtGrowsByService(p)]_vars
=============================================================================
