--------------------------- MODULE PeerSettlement ---------------------------
(***************************************************************************)
(* Two nodes that keep an account for each other: the requests one makes   *)
(* and the other serves (pkg/retrieval and pkg/pushsync, seen from their   *)
(* accounting calls), time-based settlement (pkg/settlement/pseudosettle), *)
(* cheques as far as accounting sees them, blocklisting and reconnecting.  *)
(*                                                                         *)
(* A node holds the lock of its account while it waits for the answer to a *)
(* refreshment; the other accounting operations of that node wait.         *)
(*                                                                         *)
(* Sessions do not overlap here: a connection is made when nothing of the  *)
(* previous one is left (Accounting models a request that outlives its     *)
(* connection).  The clocks of the two nodes agree.                        *)
(***************************************************************************)
EXTENDS Ledger, FiniteSets

CONSTANTS
  NodeA, NodeB,
  Clients,        \* the nodes that make requests
  Requests,
  Originations,   \* whether requests are for ourselves: a subset of BOOLEAN
  Price,
  StartTime,
  MaxClock,       \* bound: the clock stops here
  MaxSessions     \* bound: number of connections

ASSUME PeerSettlementAssumption ==
  /\ NodeA # NodeB
  /\ Clients \subseteq {NodeA, NodeB}
  /\ IsFiniteSet(Requests)
  /\ Originations \subseteq BOOLEAN
  /\ Price \in Nat \ {0}
  /\ {StartTime, MaxClock, MaxSessions} \subseteq Nat

VARIABLES
  account,    \* account[n]: the account n keeps for the other node
  request,    \* request[r]: both sides of request r
  pay,        \* pay[n]: the refreshment n waits for, holding its lock
  handler,    \* handler[n]: n's handler of a refreshment of the other node
  sent,       \* sent[n]: times of the last refreshment n sent, as stored
  received,   \* received[n]: time of the last one n received, as stored
  wire,       \* wire[n]: cheques of n on their way to the other node
  cheque,     \* cheque[n]: the cheque n is sending
  ban,        \* ban[n]: n's blocklist entry for the other node
  link,       \* the nodes are connected
  sessions,   \* number of connections so far
  clock,      \* Unix time, in seconds
  slack       \* history: slack[n], cheques of n that reached the other node
              \* although n was told that they failed

vars == <<account, request, pay, handler, sent, received, wire, cheque, ban,
          link, sessions, clock, slack>>

Nodes == {NodeA, NodeB}
Peer(n) == CHOOSE m \in Nodes : m # n

NoPay == [stage |-> "idle", request |-> "none", originated |-> FALSE, now |-> 0,
          amount |-> 0, expected |-> 0, check |-> 0, accepted |-> 0, stamp |-> 0]
NoHandler == [asked |-> 0, stamp |-> 0, granted |-> 0]
NoCheque == [amount |-> 0, written |-> FALSE]
NoBan == [since |-> 0, seconds |-> 0]

\* client: new, settling, reserved, credited, then paid (credited and
\* released) or gaveup (released and not credited); server: none, prepared,
\* delivered, then applied or cleaned; delivered: the chunk reached the client.
NewRequest == [owner |-> "none", originated |-> FALSE,
               client |-> "new", server |-> "none", delivered |-> FALSE]
Forgotten == [NewRequest EXCEPT !.client = "gaveup"]
RequestOf(n, originated, step) ==
  [NewRequest EXCEPT !.owner = n, !.originated = originated, !.client = step]

Free(n) == pay[n].stage = "idle"

-----------------------------------------------------------------------------
Init ==
  /\ account = [n \in Nodes |-> NewAccount]
  /\ request = [r \in Requests |-> NewRequest]
  /\ pay = [n \in Nodes |-> NoPay]
  /\ handler = [n \in Nodes |-> NoHandler]
  /\ sent = [n \in Nodes |-> [stamp |-> 0, check |-> 0]]
  /\ received = [n \in Nodes |-> 0]
  /\ wire = [n \in Nodes |-> 0]
  /\ cheque = [n \in Nodes |-> NoCheque]
  /\ ban = [n \in Nodes |-> NoBan]
  /\ link = FALSE
  /\ sessions = 0
  /\ clock = StartTime
  /\ slack = [n \in Nodes |-> 0]

\* Seconds on the blocklist: what the peer owes or may owe, at least one
\* second's worth, and the threshold, at the rate of refreshments.
LatentDebt(a) == Greater(Greater(a.balance, 0) + a.shadow + a.ghost, 0)

\* Mutant: leaves the threshold out.
BlocklistUntilDebtPaid(a) == Greater(LatentDebt(a), RefreshRate) \div RefreshRate

\* Mutant: leaves the threshold and the minimum out.
BlocklistWhileInDebt(a) == LatentDebt(a) \div RefreshRate

BlocklistUntil(a) == (Greater(LatentDebt(a), RefreshRate) + PaymentThreshold) \div RefreshRate

\* A second entry starts anew and keeps the longer time.
BanOf(n, a) == [since |-> clock, seconds |-> Greater(ban[n].seconds, BlocklistUntil(a))]

\* Blocklisting ends the connection.
Blocklist(n, a) ==
  /\ ban' = [ban EXCEPT ![n] = BanOf(n, a)]
  /\ link' = FALSE

-----------------------------------------------------------------------------
(* Reserve and settle. *)

\* Pay refuses a second payment in the second of the last answer.
TooSoon(n) == clock = sent[n].stamp

\* The end of settle and of Reserve on account a: start a cheque when one is
\* due, then reserve or report the overdraft.
FinishReserve(r, n, originated, a, now) ==
  LET ok == ~Overdraft(a, Price)
      b == IF ok THEN Reserved(a, Price) ELSE a
      due == PaymentDue(b, now)
  IN
  /\ account' = [account EXCEPT ![n] = IF due THEN PaymentStarted(b) ELSE b]
  /\ cheque' = [cheque EXCEPT ![n] = IF due THEN [amount |-> PaymentAmount(b), written |-> FALSE]
                                          ELSE @]
  /\ request' = [request EXCEPT ![r] = IF ok THEN RequestOf(n, originated, "reserved")
                                              ELSE NewRequest]

Reserve(r, n, originated) ==
  LET a == account[n]
      settling == MustSettle(a, Price)
      refreshing == settling /\ RefreshDue(a, clock)
  IN
  /\ request[r].client = "new"
  /\ Free(n)
  /\ a.connected
  /\ \/ /\ ~settling
        /\ ~Overdraft(a, Price)
        /\ account' = [account EXCEPT ![n] = Reserved(a, Price)]
        /\ request' = [request EXCEPT ![r] = RequestOf(n, originated, "reserved")]
        /\ UNCHANGED <<pay, cheque, ban, link>>
     \/ /\ settling /\ ~refreshing
        /\ FinishReserve(r, n, originated, a, clock)
        /\ UNCHANGED <<pay, ban, link>>
     \/ /\ refreshing
        /\ ~TooSoon(n)
        /\ pay' = [pay EXCEPT ![n] =
             [NoPay EXCEPT !.stage = "opening", !.request = r, !.originated = originated,
                           !.now = clock, !.amount = CompensatedDebt(a),
                           !.expected = Smaller(ShadowBalance(a), CompensatedDebt(a))]]
        /\ request' = [request EXCEPT ![r] = RequestOf(n, originated, "settling")]
        /\ UNCHANGED <<account, cheque, ban, link>>
     \/ /\ refreshing
        /\ TooSoon(n)
        /\ Blocklist(n, a)
        /\ UNCHANGED <<account, request, pay, cheque>>
  /\ UNCHANGED <<handler, sent, received, wire, sessions, clock, slack>>

\* Pay writes the payment message and notes the time.
SendPayment(n) ==
  /\ pay[n].stage = "opening"
  /\ link
  /\ pay' = [pay EXCEPT ![n].stage = "waiting", ![n].check = clock]
  /\ handler' = [handler EXCEPT ![Peer(n)].asked = pay[n].amount]
  /\ UNCHANGED <<account, request, sent, received, wire, cheque, ban, link, sessions, clock,
                 slack>>

\* The handler of m reads the clock; the handler before it is done, because
\* each holds the lock of pseudosettle's entry for the peer.
StampPayment(m) ==
  /\ handler[m].asked > 0 /\ handler[m].stamp = 0 /\ handler[m].granted = 0
  /\ clock # received[m]
  /\ handler' = [handler EXCEPT ![m].stamp = clock]
  /\ UNCHANGED <<account, request, pay, sent, received, wire, cheque, ban, link, sessions, clock,
                 slack>>

\* It then waits for m's account to read the debt of the peer, acknowledges
\* what it accepts and stores the time it read.  The payer may still give up
\* before it reads the answer (PayFails).
AcknowledgePayment(m) ==
  LET n == Peer(m)
      stamp == handler[m].stamp
      allowance == Smaller((stamp - received[m]) * RefreshRate, PeerDebt(account[m]))
      accepted == Smaller(allowance, handler[m].asked)
  IN
  /\ stamp > 0
  /\ Free(m)
  /\ pay[n].stage = "waiting"
  /\ handler' = [handler EXCEPT ![m] = [NoHandler EXCEPT !.granted = accepted]]
  /\ received' = [received EXCEPT ![m] = stamp]
  /\ pay' = [pay EXCEPT ![n].stage = "answered", ![n].accepted = accepted, ![n].stamp = stamp]
  /\ UNCHANGED <<account, request, sent, wire, cheque, ban, link, sessions, clock, slack>>

\* The handler returns an error: the payment comes too soon, or the payer is
\* gone and the answer cannot be written.
RefusePayment(m) ==
  /\ handler[m].asked > 0 /\ handler[m].granted = 0
  /\ \/ handler[m].stamp = 0 /\ clock = received[m]
     \/ handler[m].stamp > 0 /\ Free(m) /\ pay[Peer(m)].stage # "waiting"
  /\ handler' = [handler EXCEPT ![m] = NoHandler]
  /\ UNCHANGED <<account, request, pay, sent, received, wire, cheque, ban, link, sessions, clock,
                 slack>>

NotifyRefreshmentReceived(m) ==
  /\ handler[m].granted > 0
  /\ Free(m)
  /\ account' = [account EXCEPT ![m] = RefreshmentReceived(@, handler[m].granted)]
  /\ handler' = [handler EXCEPT ![m].granted = 0]
  /\ UNCHANGED <<request, pay, sent, received, wire, cheque, ban, link, sessions, clock, slack>>

\* What Pay checks of the answer: the peer's clock, and the amount.
InSync(n) ==
  LET alleged == pay[n].stamp - sent[n].stamp
      experienced == pay[n].check - sent[n].check
  IN
  /\ alleged >= 0
  /\ pay[n].stamp - pay[n].check \in -2..2
  /\ experienced - alleged \in -3..3

Underpaid(n) ==
  pay[n].accepted < Smaller((pay[n].stamp - sent[n].stamp) * RefreshRate, pay[n].expected)

\* Pay accepts the answer; settle and Reserve go on.
PaySucceeds(n) ==
  /\ pay[n].stage = "answered"
  /\ InSync(n)
  /\ ~Underpaid(n)
  /\ sent' = [sent EXCEPT ![n] = [stamp |-> pay[n].stamp, check |-> pay[n].check]]
  /\ FinishReserve(pay[n].request, n, pay[n].originated,
                   Refreshed(account[n], pay[n].accepted, pay[n].check), pay[n].now)
  /\ pay' = [pay EXCEPT ![n] = NoPay]
  /\ UNCHANGED <<handler, received, wire, ban, link, sessions, clock, slack>>

\* Pay fails: the answer is not acceptable, the connection or the stream is
\* gone, or five seconds are over.
PayFails(n) ==
  /\ ~Free(n)
  /\ pay' = [pay EXCEPT ![n] = NoPay]
  /\ request' = [request EXCEPT ![pay[n].request] = Forgotten]
  /\ Blocklist(n, account[n])
  /\ UNCHANGED <<account, handler, sent, received, wire, cheque, sessions, clock, slack>>

-----------------------------------------------------------------------------
(* A request, seen from both sides. *)

PrepareDebit(r) ==
  LET m == Peer(request[r].owner) IN
  /\ request[r].owner # "none"
  /\ request[r].client \in {"reserved", "gaveup"} /\ request[r].server = "none"
  /\ link
  /\ Free(m)
  /\ account[m].connected
  /\ account' = [account EXCEPT ![m] = DebitPrepared(@, Price)]
  /\ request' = [request EXCEPT ![r].server = "prepared"]
  /\ UNCHANGED <<pay, handler, sent, received, wire, cheque, ban, link, sessions, clock, slack>>

\* The server writes the chunk (or the receipt).
Deliver(r) ==
  /\ request[r].server = "prepared"
  /\ link
  /\ request' = [request EXCEPT ![r].server = "delivered", ![r].delivered = TRUE]
  /\ UNCHANGED <<account, pay, handler, sent, received, wire, cheque, ban, link, sessions, clock,
                 slack>>

\* The write fails or times out and the server cleans up; the chunk may reach
\* the client all the same.
DeliveryFails(r) ==
  LET m == Peer(request[r].owner)
      a == DebitCleanedUp(account[m], Price)
  IN
  /\ request[r].server = "prepared"
  /\ Free(m)
  /\ account' = [account EXCEPT ![m] = a]
  /\ \E arrives \in {FALSE, link} :
       request' = [request EXCEPT ![r].server = "cleaned", ![r].delivered = arrives]
  /\ IF GhostOverLimit(a) THEN Blocklist(m, a) ELSE UNCHANGED <<ban, link>>
  /\ UNCHANGED <<pay, handler, sent, received, wire, cheque, sessions, clock, slack>>

Apply(r) ==
  LET n == request[r].owner
      m == Peer(n)
      a == DebitApplied(account[m], Price)
  IN
  /\ request[r].server = "delivered"
  /\ Free(m)
  /\ account' = [account EXCEPT ![m] = a]
  /\ request' = [request EXCEPT ![r].server = "applied"]
  /\ IF OverLimit(a) THEN Blocklist(m, a) ELSE UNCHANGED <<ban, link>>
  /\ UNCHANGED <<pay, handler, sent, received, wire, cheque, sessions, clock, slack>>

\* The client has the chunk.
Credit(r) ==
  LET n == request[r].owner IN
  /\ request[r].client = "reserved" /\ request[r].delivered
  /\ Free(n)
  /\ account' = [account EXCEPT ![n] = Credited(@, Price, request[r].originated)]
  /\ request' = [request EXCEPT ![r].client = "credited"]
  /\ UNCHANGED <<pay, handler, sent, received, wire, cheque, ban, link, sessions, clock, slack>>

\* After Credit, or when the client gives up; a server that has the request
\* may then still serve it.
Release(r) ==
  LET n == request[r].owner IN
  /\ request[r].client \in {"reserved", "credited"}
  /\ Free(n)
  /\ account' = [account EXCEPT ![n] = Released(@, Price)]
  /\ request' = [request EXCEPT ![r].client = IF @ = "credited" THEN "paid" ELSE "gaveup"]
  /\ UNCHANGED <<pay, handler, sent, received, wire, cheque, ban, link, sessions, clock, slack>>

-----------------------------------------------------------------------------
(* Cheques. *)

WriteCheque(n) ==
  /\ cheque[n].amount > 0 /\ ~cheque[n].written
  /\ link
  /\ cheque' = [cheque EXCEPT ![n].written = TRUE]
  /\ wire' = [wire EXCEPT ![n] = @ + cheque[n].amount]
  /\ UNCHANGED <<account, request, pay, handler, sent, received, ban, link, sessions, clock, slack>>

\* swap reports that the cheque was sent.
ChequeSent(n) ==
  /\ cheque[n].written
  /\ Free(n)
  /\ account' = [account EXCEPT ![n] = PaymentSent(@, cheque[n].amount)]
  /\ cheque' = [cheque EXCEPT ![n] = NoCheque]
  /\ UNCHANGED <<request, pay, handler, sent, received, wire, ban, link, sessions, clock, slack>>

\* swap reports an error, before the cheque was written or after it.
ChequeFails(n) ==
  /\ cheque[n].amount > 0
  /\ Free(n)
  /\ account' = [account EXCEPT ![n] = PaymentFailed(@, cheque[n].amount, clock)]
  /\ slack' = [slack EXCEPT ![n] = IF cheque[n].written THEN @ + cheque[n].amount ELSE @]
  /\ cheque' = [cheque EXCEPT ![n] = NoCheque]
  /\ UNCHANGED <<request, pay, handler, sent, received, wire, ban, link, sessions, clock>>

\* The other node books the cheques that reached it.
NotifyPaymentReceived(m) ==
  LET n == Peer(m) IN
  /\ wire[n] > 0
  /\ Free(m)
  /\ account' = [account EXCEPT ![m] = PaymentReceived(@, wire[n])]
  /\ wire' = [wire EXCEPT ![n] = 0]
  /\ UNCHANGED <<request, pay, handler, sent, received, cheque, ban, link, sessions, clock, slack>>

-----------------------------------------------------------------------------
(* Connections. *)

\* The connection breaks.
LinkDown ==
  /\ link
  /\ link' = FALSE
  /\ UNCHANGED <<account, request, pay, handler, sent, received, wire, cheque, ban, sessions,
                 clock, slack>>

\* The end of the connection reaches accounting, which blocklists the peer.
Disconnect(n) ==
  /\ ~link
  /\ account[n].connected
  /\ Free(n)
  /\ account' = [account EXCEPT ![n] = Disconnected(@)]
  /\ ban' = [ban EXCEPT ![n] = BanOf(n, account[n])]
  /\ UNCHANGED <<request, pay, handler, sent, received, wire, cheque, link, sessions, clock, slack>>

\* Nothing of the last connection is left.
Quiet ==
  /\ \A n \in Nodes : /\ Free(n) /\ ~account[n].connected
                      /\ handler[n] = NoHandler /\ cheque[n] = NoCheque
  /\ \A r \in Requests : /\ request[r].client \in {"new", "paid", "gaveup"}
                         /\ request[r].server \notin {"prepared", "delivered"}

\* The nodes connect when neither has the other on its blocklist.
LinkUp ==
  /\ ~link
  /\ sessions < MaxSessions
  /\ Quiet
  /\ \A n \in Nodes : clock >= ban[n].since + ban[n].seconds
  /\ link' = TRUE
  /\ sessions' = sessions + 1
  /\ ban' = [n \in Nodes |-> NoBan]
  /\ wire' = [n \in Nodes |-> 0]
  /\ slack' = [n \in Nodes |-> 0]
  /\ request' = [r \in Requests |-> NewRequest]
  /\ UNCHANGED <<account, pay, handler, sent, received, cheque, clock>>

Connect(n) ==
  /\ link
  /\ ~account[n].connected
  /\ account' = [account EXCEPT ![n] = Connected(@)]
  /\ UNCHANGED <<request, pay, handler, sent, received, wire, cheque, ban, link, sessions, clock,
                 slack>>

Tick ==
  /\ clock < MaxClock
  /\ clock' = clock + 1
  /\ UNCHANGED <<account, request, pay, handler, sent, received, wire, cheque, ban, link, sessions,
                 slack>>

Next ==
  \/ \E r \in Requests, n \in Clients, originated \in Originations : Reserve(r, n, originated)
  \/ \E n \in Nodes : SendPayment(n) \/ PaySucceeds(n) \/ PayFails(n)
  \/ \E n \in Nodes : StampPayment(n) \/ AcknowledgePayment(n) \/ RefusePayment(n)
  \/ \E n \in Nodes : NotifyRefreshmentReceived(n)
  \/ \E r \in Requests : PrepareDebit(r) \/ Deliver(r) \/ DeliveryFails(r) \/ Apply(r)
  \/ \E r \in Requests : Credit(r) \/ Release(r)
  \/ \E n \in Nodes : WriteCheque(n) \/ ChequeSent(n) \/ ChequeFails(n) \/ NotifyPaymentReceived(n)
  \/ LinkDown
  \/ LinkUp
  \/ \E n \in Nodes : Connect(n) \/ Disconnect(n)
  \/ Tick

Spec == Init /\ [][Next]_vars

-----------------------------------------------------------------------------
\* Both accounts, the two sides of each request and the refreshments have
\* their types; NotifyPaymentSent and NotifyPaymentReceived keep the surplus
\* and the shadow reserve of an account from going out of range.
TypeOK ==
  /\ account \in [Nodes -> Account]
  /\ \A r \in Requests :
       /\ request[r].owner \in Nodes \cup {"none"}
       /\ request[r].client \in {"new", "settling", "reserved", "credited", "paid", "gaveup"}
       /\ request[r].server \in {"none", "prepared", "delivered", "applied", "cleaned"}
  /\ \A n \in Nodes :
       /\ pay[n].stage \in {"idle", "opening", "waiting", "answered"}
       /\ handler[n] \in [asked : Nat, stamp : Nat, granted : Nat]
       /\ wire[n] \in Nat /\ slack[n] \in Nat /\ received[n] \in Nat
       /\ ban[n] \in [since : Nat, seconds : Nat]
  /\ clock \in Nat /\ sessions \in Nat /\ link \in BOOLEAN

\* Requests of n that n paid for and the other node did not charge, and those
\* that were charged and n did not pay for.
Uncharged(n) == {r \in Requests : /\ request[r].owner = n
                                  /\ request[r].client \in {"credited", "paid"}
                                  /\ request[r].server = "cleaned"}
Unpaid(n) == {r \in Requests : /\ request[r].owner = n
                               /\ request[r].client = "gaveup"
                               /\ request[r].server = "applied"}

\* A node that accepts what pseudosettle's handler computes is never blamed
\* for accepting too little, unless a delivery or a cheque arrived although
\* its sender was told that it failed: with both shadow reserves the payer's
\* ShadowBalance is at most the PeerDebt of the acceptor, and after an answer
\* that was lost the time on the blocklist makes up for the older timestamp.
NeverUnderpaid ==
  (\A n \in Nodes : Uncharged(n) = {} /\ slack[n] = 0) =>
    \A n \in Nodes : pay[n].stage = "answered" => ~Underpaid(n)

\* A node that keeps to Reserve stays within the threshold in the books of the
\* other node, apart from the refreshment and the cheques still to be booked
\* there and the requests it gave up: only these can use up the tolerance and
\* get it disconnected.
HonestWithinThreshold ==
  \A n \in Nodes :
    LET m == Peer(n) IN
    account[n].connected /\ account[m].connected =>
      account[m].balance - account[m].surplus <=
        PaymentThreshold + handler[m].granted + wire[n] + Price * Cardinality(Unpaid(n))

\* A payment that an honest node is waiting for is never refused as too soon:
\* the payer's own check against its stored timestamp is enough.
NeverRefusedTooSoon ==
  \A m \in Nodes :
    /\ handler[m].asked > 0 /\ handler[m].stamp = 0 /\ handler[m].granted = 0
    /\ pay[Peer(m)].stage = "waiting"
    => clock # received[m]

\* settle's comment: "Don't do anything if there is no actual debt or no time
\* passed since last refreshment attempt".  When settle does refresh, time
\* has passed since the last one, as pseudosettle sees it.
RefreshAfterTimePassed ==
  \A n \in Nodes :
    /\ account[n].connected /\ Free(n)
    /\ MustSettle(account[n], Price) /\ RefreshDue(account[n], clock)
    => ~TooSoon(n)
=============================================================================
