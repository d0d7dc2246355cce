------------------------ MODULE PeerSettlementProofs ------------------------
(***************************************************************************)
(* Proofs that the state of the two nodes keeps its types (TypeOK) and     *)
(* that a refreshment its sender waits for is never refused as too soon    *)
(* (NeverRefusedTooSoon), for any requests, prices, thresholds, rates,     *)
(* clocks and numbers of connections.                                      *)
(***************************************************************************)
EXTENDS PeerSettlement, TLAPS

\* Most leaves are first-order; the ones with arithmetic cite SMT.
USE Zenon

\* The types of the state.
RequestRecord ==
  [owner : Nodes \cup {"none"}, originated : BOOLEAN,
   client : {"new", "settling", "reserved", "credited", "paid", "gaveup"},
   server : {"none", "prepared", "delivered", "applied", "cleaned"}, delivered : BOOLEAN]
PayRecord ==
  [stage : {"idle", "opening", "waiting", "answered"}, request : Requests \cup {"none"},
   originated : BOOLEAN, now : Nat, amount : Nat, expected : Int, check : Nat,
   accepted : Nat, stamp : Nat]
HandlerRecord == [asked : Nat, stamp : Nat, granted : Nat]
ChequeRecord == [amount : Nat, written : BOOLEAN]
BanRecord == [since : Nat, seconds : Nat]

AccountsOK == account \in [Nodes -> Account]

\* A request in progress has an owner.
OwnerKnown(q) ==
  q.server # "none" \/ q.client \in {"reserved", "credited"} => q.owner \in Nodes
RequestsOK ==
  /\ request \in [Requests -> RequestRecord]
  /\ \A r \in Requests : OwnerKnown(request[r])

\* A refreshment is made for a request.
PaysOK ==
  /\ pay \in [Nodes -> PayRecord]
  /\ \A n \in Nodes : pay[n].stage # "idle" => pay[n].request \in Requests

TransfersOK ==
  /\ cheque \in [Nodes -> ChequeRecord]
  /\ wire \in [Nodes -> Nat] /\ slack \in [Nodes -> Nat]

TimesOK ==
  /\ handler \in [Nodes -> HandlerRecord]
  /\ sent \in [Nodes -> [stamp : Nat, check : Nat]]
  /\ received \in [Nodes -> Nat]
  /\ ban \in [Nodes -> BanRecord]
  /\ clock \in Nat /\ sessions \in Nat /\ link \in BOOLEAN

\* What n stored of its refreshments, and what m stored of them.  A payer that
\* does not wait for an answer has stored m's time, unless that second is over
\* or the payer blocklisted m in that second or later: it will be over before
\* they connect again.
Times(n, m) ==
  /\ sent[n].stamp <= received[m] /\ received[m] <= clock
  /\ handler[m].stamp <= clock
  /\ handler[m].stamp > 0 => received[m] < handler[m].stamp
  /\ pay[n].stage = "idle" =>
       \/ received[m] = sent[n].stamp
       \/ received[m] < clock
       \/ ~link /\ ban[n].seconds > 0 /\ received[m] <= ban[n].since
  /\ pay[n].stage = "opening" => received[m] < clock \/ ~link
  /\ pay[n].stage = "waiting" => received[m] < clock
  /\ pay[n].stage = "answered" => pay[n].stamp = received[m]
Timed == \A n \in Nodes : Times(n, Peer(n))

SettlementInv == AccountsOK /\ RequestsOK /\ PaysOK /\ TransfersOK /\ TimesOK /\ Timed

-----------------------------------------------------------------------------
(* Accounts. *)

LEMMA LimitTypes ==
  ASSUME NEW x \in Int, NEW y \in Int
  PROVE  /\ Greater(x, y) \in {x, y} /\ Greater(x, y) \in Int
         /\ Greater(x, y) >= x /\ Greater(x, y) >= y
         /\ Smaller(x, y) \in {x, y} /\ Smaller(x, y) \in Int
         /\ Smaller(x, y) <= x /\ Smaller(x, y) <= y
  BY SMT DEF Greater, Smaller

LEMMA AccountTypes ==
  ASSUME NEW a \in Account
  PROVE  /\ a.connected \in BOOLEAN /\ a.balance \in Int /\ a.surplus \in Nat
         /\ a.originated \in Int /\ a.reserved \in Nat /\ a.shadow \in Int
         /\ a.ghost \in Nat /\ a.threshold \in Nat /\ a.refreshed \in Int
         /\ a.paying \in BOOLEAN /\ a.failed \in Int
  BY DEF Account

\* Limiting the originated balance gives an account.
LEMMA OriginatedLimitedType ==
  ASSUME NEW a \in Account
  PROVE  OriginatedLimited(a) \in Account
<1>1. Greater(a.originated, Smaller(a.balance, 0)) \in Int
  BY AccountTypes, SMT DEF Greater, Smaller
<1> QED
  BY <1>1 DEF OriginatedLimited, Account

\* Every operation of the node's own requests gives an account.
LEMMA ClientTypes ==
  ASSUME NEW a \in Account, NEW price \in Nat, NEW originated \in BOOLEAN
  PROVE  /\ Reserved(a, price) \in Account
         /\ Released(a, price) \in Account
         /\ Credited(a, price, originated) \in Account
<1>1. /\ a.reserved + price \in Nat
      /\ (IF price > a.reserved THEN 0 ELSE a.reserved - price) \in Nat
      /\ a.balance - price \in Int /\ a.originated - price \in Int
  BY AccountTypes, SMT
<1>2. Reserved(a, price) \in Account /\ Released(a, price) \in Account
  BY <1>1 DEF Reserved, Released, Account
<1>3. /\ [a EXCEPT !.balance = @ - price, !.originated = @ - price] \in Account
      /\ [a EXCEPT !.balance = @ - price] \in Account
  BY <1>1 DEF Account
<1>4. Credited(a, price, originated) \in Account
  BY <1>3, OriginatedLimitedType DEF Credited
<1> QED
  BY <1>2, <1>4

\* Every operation that settles the node's debt gives an account.
LEMMA SettlementTypes ==
  ASSUME NEW a \in Account, NEW amount \in Nat, NEW stamp \in Nat
  PROVE  /\ Refreshed(a, amount, stamp) \in Account
         /\ PaymentStarted(a) \in Account
         /\ PaymentSent(a, amount) \in Account
         /\ PaymentFailed(a, amount, stamp) \in Account
<1>1. /\ a.balance + amount \in Int /\ a.originated + amount \in Int
      /\ a.shadow - amount \in Int /\ a.shadow + (-a.originated) \in Int /\ stamp \in Int
  BY AccountTypes, SMT
<1>2. [a EXCEPT !.balance = @ + amount, !.refreshed = stamp] \in Account
  BY <1>1 DEF Account
<1>3. Refreshed(a, amount, stamp) \in Account
  BY <1>2, OriginatedLimitedType DEF Refreshed
<1>4. PaymentStarted(a) \in Account
  BY <1>1 DEF PaymentStarted, PaymentAmount, Account
<1>5. PaymentSent(a, amount) \in Account /\ PaymentFailed(a, amount, stamp) \in Account
  BY <1>1 DEF PaymentSent, PaymentFailed, Account
<1> QED
  BY <1>3, <1>4, <1>5

\* Every operation on what the peer owes gives an account.
LEMMA ServerTypes ==
  ASSUME NEW a \in Account, NEW price \in Nat
  PROVE  /\ PaymentReceived(a, price) \in Account
         /\ RefreshmentReceived(a, price) \in Account
         /\ DebitPrepared(a, price) \in Account
         /\ DebitApplied(a, price) \in Account
         /\ DebitCleanedUp(a, price) \in Account
<1>1. /\ a.surplus + price \in Nat /\ a.balance - price \in Int
      /\ a.shadow + price \in Int /\ a.shadow - price \in Int /\ a.ghost + price \in Nat
      /\ a.balance + (price - a.surplus) \in Int
      /\ a.surplus >= price => a.surplus - price \in Nat
      /\ Greater(a.balance - price, 0) \in Int
      /\ a.surplus + Greater(price - a.balance, 0) \in Nat
  BY AccountTypes, SMT DEF Greater
<1>2. PaymentReceived(a, price) \in Account
  BY <1>1 DEF PaymentReceived, Account
<1>3. /\ RefreshmentReceived(a, price) \in Account
      /\ DebitPrepared(a, price) \in Account
      /\ DebitCleanedUp(a, price) \in Account
  BY <1>1 DEF RefreshmentReceived, DebitPrepared, DebitCleanedUp, Account
<1>4. PICK b : b = BalanceIncreased(a, price)
  OBVIOUS
<1>5. b \in Account /\ b.shadow = a.shadow
  <2>1. CASE a.surplus >= price
    BY <2>1, <1>1, <1>4 DEF BalanceIncreased, Account
  <2>2. CASE ~(a.surplus >= price)
    <3>1. PICK c : c = [a EXCEPT !.surplus = 0, !.balance = @ + (price - a.surplus)]
      OBVIOUS
    <3>2. 0 \in Nat
      OBVIOUS
    <3>3. c \in Account /\ c.shadow = a.shadow
      BY <3>1, <3>2, <1>1 DEF Account
    <3>4. b = OriginatedLimited(c)
      BY <2>2, <3>1, <1>4 DEF BalanceIncreased
    <3>5. b.shadow = c.shadow
      BY <3>3, <3>4 DEF OriginatedLimited, Account
    <3> QED
      BY <3>3, <3>4, <3>5, OriginatedLimitedType
  <2> QED
    BY <2>1, <2>2
<1>6. b.shadow - price \in Int
  BY <1>5, AccountTypes, SMT
<1>7. DebitApplied(a, price) \in Account
  BY <1>4, <1>5, <1>6 DEF DebitApplied, Account
<1> QED
  BY <1>2, <1>3, <1>7

\* Connecting and disconnecting give an account.
LEMMA ConnectionTypes ==
  ASSUME NEW a \in Account
  PROVE  Connected(a) \in Account /\ Disconnected(a) \in Account
<1>1. 0 \in Nat /\ 0 \in Int
  BY SMT
<1> QED
  BY <1>1 DEF Connected, Disconnected, Account

\* The cheque that is due is for a positive amount.
LEMMA PaymentPositive ==
  ASSUME NEW a \in Account, NEW now, PaymentDue(a, now)
  PROVE  PaymentAmount(a) \in Nat /\ PaymentAmount(a) > 0
<1>1. MinimumPayment \in Nat /\ MinimumPayment > 0
  BY LedgerAssumption, SMT DEF MinimumPayment
<1>2. -a.originated >= MinimumPayment
  BY DEF PaymentDue
<1> QED
  BY <1>1, <1>2, AccountTypes, SMT DEF PaymentAmount

\* A peer is blocklisted for a second at least.
LEMMA BlocklistPositive ==
  ASSUME NEW a \in Account
  PROVE  BlocklistUntil(a) \in Nat /\ BlocklistUntil(a) > 0
<1>1. PICK d : d = Greater(LatentDebt(a), RefreshRate)
  OBVIOUS
<1>2. LatentDebt(a) \in Nat
  BY AccountTypes, SMT DEF LatentDebt, Greater
<1>3. d \in Nat /\ d >= RefreshRate
  BY <1>1, <1>2, LedgerAssumption, SMT DEF Greater
<1>4. PICK e : e = d + PaymentThreshold
  OBVIOUS
<1>5. e \in Nat /\ e >= RefreshRate /\ RefreshRate \in Nat \ {0}
  BY <1>3, <1>4, LedgerAssumption, SMT
<1>6. e \div RefreshRate \in Nat /\ e \div RefreshRate > 0
  BY <1>5, SMT
<1>7. BlocklistUntil(a) = e \div RefreshRate
  BY <1>1, <1>4 DEF BlocklistUntil
<1> QED
  BY <1>6, <1>7

-----------------------------------------------------------------------------
(* What steps that leave a part of the state alone keep. *)

LEMMA PeerOther ==
  ASSUME NEW n \in Nodes
  PROVE  Peer(n) \in Nodes /\ Peer(n) # n /\ Peer(Peer(n)) = n
<1>1. \A k \in Nodes : \E m \in Nodes : m # k
  BY PeerSettlementAssumption, SMT DEF Nodes
<1>2. \A k \in Nodes : Peer(k) \in Nodes /\ Peer(k) # k
  BY <1>1 DEF Peer
<1>3. \A j, k, l \in Nodes : j # k /\ k # l => j = l
  BY DEF Nodes
<1> QED
  BY <1>2, <1>3

LEMMA AccountsKept ==
  AccountsOK /\ UNCHANGED account => AccountsOK'
  BY DEF AccountsOK

LEMMA AccountSet ==
  ASSUME AccountsOK, NEW n \in Nodes, NEW a \in Account, account' = [account EXCEPT ![n] = a]
  PROVE  AccountsOK'
  BY DEF AccountsOK

LEMMA RequestsKept ==
  RequestsOK /\ UNCHANGED request => RequestsOK'
  BY DEF RequestsOK

LEMMA RequestSet ==
  ASSUME RequestsOK, NEW r \in Requests, NEW q \in RequestRecord, OwnerKnown(q),
         request' = [request EXCEPT ![r] = q]
  PROVE  RequestsOK'
<1>1. request' \in [Requests -> RequestRecord]
  BY DEF RequestsOK
<1>2. \A s \in Requests : request'[s] = IF s = r THEN q ELSE request[s]
  BY DEF RequestsOK
<1>3. \A s \in Requests : OwnerKnown(request'[s])
  BY <1>2 DEF RequestsOK
<1>4. RequestsOK' <=> request' \in [Requests -> RequestRecord]
                      /\ \A s \in Requests : OwnerKnown(request'[s])
  BY DEF RequestsOK, OwnerKnown, RequestRecord, Nodes
<1> QED
  BY <1>1, <1>3, <1>4

LEMMA PaysKept ==
  PaysOK /\ UNCHANGED pay => PaysOK'
  BY DEF PaysOK

LEMMA PaySet ==
  ASSUME PaysOK, NEW n \in Nodes, NEW p \in PayRecord,
         p.stage # "idle" => p.request \in Requests,
         pay' = [pay EXCEPT ![n] = p]
  PROVE  PaysOK'
<1>1. pay' \in [Nodes -> PayRecord]
  BY DEF PaysOK
<1>2. \A k \in Nodes : pay'[k] = IF k = n THEN p ELSE pay[k]
  BY DEF PaysOK
<1> QED
  BY <1>1, <1>2 DEF PaysOK

LEMMA TransfersKept ==
  TransfersOK /\ UNCHANGED <<cheque, wire, slack>> => TransfersOK'
  BY DEF TransfersOK

LEMMA TimesKept ==
  TimesOK /\ UNCHANGED <<handler, sent, received, ban, clock, sessions, link>> => TimesOK'
  BY DEF TimesOK

LEMMA TimedKept ==
  Timed /\ UNCHANGED <<handler, sent, received, ban, clock, link, pay>> => Timed'
<1> SUFFICES ASSUME Timed, UNCHANGED <<handler, sent, received, ban, clock, link, pay>>,
                    NEW n \in Nodes
             PROVE  Times(n, Peer(n))'
  BY DEF Timed
<1>1. PICK m : m = Peer(n)
  OBVIOUS
<1>2. Times(n, m)
  BY <1>1 DEF Timed
<1>3. Times(n, m)'
  BY <1>2 DEF Times
<1>4. m = Peer(n)'
  BY <1>1 DEF Peer, Nodes
<1> QED
  BY <1>1, <1>3

\* A goal for every payer is a goal for every pair.
LEMMA TimedPairs ==
  ASSUME \A n \in Nodes : \A m \in Nodes : m = Peer(n) => Times(n, m)'
  PROVE  Timed'
<1> SUFFICES ASSUME NEW n \in Nodes
             PROVE  Times(n, Peer(n))'
  BY DEF Timed
<1>1. Peer(n) \in Nodes
  BY PeerOther
<1>2. PICK m \in Nodes : m = Peer(n)
  BY <1>1
<1>3. Times(n, m)'
  BY <1>2
<1> QED
  BY <1>2, <1>3

\* Blocklisting keeps the types and the order of the times.
LEMMA BlocklistKeeps ==
  ASSUME SettlementInv, NEW k \in Nodes, NEW a \in Account,
         Blocklist(k, a) \/ (link' = FALSE /\ UNCHANGED ban)
           \/ (~link /\ UNCHANGED link /\ ban' = [ban EXCEPT ![k] = BanOf(k, a)]),
         UNCHANGED <<handler, sent, received, clock, sessions>>
  PROVE  /\ TimesOK'
         /\ UNCHANGED pay => Timed'
         /\ pay' = [pay EXCEPT ![k] = NoPay] /\ Blocklist(k, a) => Timed'
<1>t. TimesOK /\ PaysOK /\ Timed
  BY DEF SettlementInv
<1>1. PICK b : b = BanOf(k, a)
  OBVIOUS
<1>2. ban[k] \in BanRecord /\ ban[k].seconds \in Nat /\ clock \in Nat
  BY <1>t DEF TimesOK, BanRecord
<1>3. PICK s : s = Greater(ban[k].seconds, BlocklistUntil(a))
  OBVIOUS
<1>4. s \in Nat /\ s > 0
  BY <1>2, <1>3, BlocklistPositive, SMT DEF Greater
<1>5. b = [since |-> clock, seconds |-> s]
  BY <1>1, <1>3 DEF BanOf
<1>6. b \in BanRecord /\ b.since = clock /\ b.seconds = s
  BY <1>2, <1>4, <1>5 DEF BanRecord
<1>7. ban' = ban \/ ban' = [ban EXCEPT ![k] = b]
  BY <1>1 DEF Blocklist
<1>8. link' = FALSE
  BY <1>t DEF Blocklist, TimesOK
<1>9. TimesOK'
  BY <1>t, <1>6, <1>7, <1>8 DEF TimesOK
<1>10. ban'[k] = ban[k] \/ ban'[k] = b
  BY <1>t, <1>7 DEF TimesOK
<1>11. \A n \in Nodes : n # k => ban'[n] = ban[n]
  BY <1>t, <1>7 DEF TimesOK
<1>12. ASSUME UNCHANGED pay, NEW n \in Nodes, NEW m \in Nodes, m = Peer(n)
       PROVE  Times(n, m)'
  <2>1. Times(n, m)
    BY <1>12, <1>t DEF Timed
  <2>2. ban'[n] = ban[n] \/ ban'[n] = b
    BY <1>10, <1>11
  <2>3. received[m] <= clock
    BY <2>1 DEF Times
  <2>4. received'[m] = received[m] /\ sent'[n] = sent[n] /\ handler'[m] = handler[m]
        /\ pay'[n] = pay[n] /\ clock' = clock
    BY <1>12
  <2>5. ban'[n] = b => ban'[n].seconds > 0 /\ received[m] <= ban'[n].since
    BY <2>3, <1>4, <1>6
  <2> QED
    BY <2>1, <2>2, <2>4, <2>5, <1>8 DEF Times
<1>13. UNCHANGED pay => Timed'
  BY <1>12, TimedPairs
<1>14. ASSUME pay' = [pay EXCEPT ![k] = NoPay], Blocklist(k, a),
              NEW n \in Nodes, NEW m \in Nodes, m = Peer(n)
       PROVE  Times(n, m)'
  <2>1. Times(n, m)
    BY <1>14, <1>t DEF Timed
  <2>3. received[m] <= clock
    BY <2>1 DEF Times
  <2>4. received'[m] = received[m] /\ sent'[n] = sent[n] /\ handler'[m] = handler[m]
        /\ clock' = clock
    OBVIOUS
  <2>5. CASE n = k
    <3>1. pay'[n].stage = "idle"
      BY <2>5, <1>14, <1>t DEF PaysOK, NoPay
    <3>2. ban'[n] = b
      BY <2>5, <1>14, <1>1, <1>t DEF Blocklist, TimesOK
    <3>3. ban'[n].seconds > 0 /\ received[m] <= ban'[n].since
      BY <3>2, <2>3, <1>4, <1>6
    <3> QED
      BY <3>1, <3>3, <2>1, <2>4, <1>8 DEF Times
  <2>6. CASE n # k
    <3>1. pay'[n] = pay[n] /\ ban'[n] = ban[n]
      BY <2>6, <1>14, <1>11, <1>t DEF PaysOK
    <3> QED
      BY <3>1, <2>1, <2>4, <1>8 DEF Times
  <2> QED
    BY <2>5, <2>6
<1>15. pay' = [pay EXCEPT ![k] = NoPay] /\ Blocklist(k, a) => Timed'
  BY <1>14, TimedPairs
<1> QED
  BY <1>9, <1>13, <1>15

-----------------------------------------------------------------------------
(* Reserve and settle. *)

LEMMA RequestTypes ==
  ASSUME NEW n \in Nodes, NEW originated \in BOOLEAN, NEW step \in {"settling", "reserved"}
  PROVE  /\ NewRequest \in RequestRecord /\ OwnerKnown(NewRequest)
         /\ Forgotten \in RequestRecord /\ OwnerKnown(Forgotten)
         /\ RequestOf(n, originated, step) \in RequestRecord
         /\ OwnerKnown(RequestOf(n, originated, step))
<1>1. /\ NewRequest \in RequestRecord /\ NewRequest.server = "none" /\ NewRequest.client = "new"
      /\ Forgotten \in RequestRecord /\ Forgotten.server = "none" /\ Forgotten.client = "gaveup"
  BY DEF NewRequest, Forgotten, RequestRecord
<1>2. /\ RequestOf(n, originated, step) \in RequestRecord
      /\ RequestOf(n, originated, step).owner = n
  BY DEF RequestOf, NewRequest, RequestRecord
<1> QED
  BY <1>1, <1>2 DEF OwnerKnown

LEMMA PayTypes ==
  ASSUME PaysOK, TimesOK, NEW n \in Nodes
  PROVE  /\ NoPay \in PayRecord /\ NoPay.stage = "idle" /\ NoPay.request = "none"
         /\ pay[n].originated \in BOOLEAN /\ pay[n].now \in Nat /\ pay[n].amount \in Nat
         /\ pay[n].check \in Nat /\ pay[n].accepted \in Nat /\ pay[n].stamp \in Nat
         /\ clock \in Nat
<1>1. NoPay \in PayRecord /\ NoPay.stage = "idle" /\ NoPay.request = "none"
  <2>1. 0 \in Nat /\ 0 \in Int
    BY SMT
  <2> QED
    BY <2>1 DEF NoPay, PayRecord
<1> QED
  BY <1>1 DEF PaysOK, PayRecord, TimesOK

LEMMA FinishReserveKeeps ==
  ASSUME SettlementInv, NEW r \in Requests, NEW n \in Nodes, NEW originated \in BOOLEAN,
         NEW a \in Account, NEW now \in Nat, FinishReserve(r, n, originated, a, now)
  PROVE  AccountsOK' /\ RequestsOK' /\ (UNCHANGED <<wire, slack>> => TransfersOK')
<1>t. AccountsOK /\ RequestsOK /\ TransfersOK
  BY DEF SettlementInv
<1>1. PICK ok : ok = ~Overdraft(a, Price)
  OBVIOUS
<1>2. PICK b : b = IF ok THEN Reserved(a, Price) ELSE a
  OBVIOUS
<1>3. b \in Account
  BY <1>2, PeerSettlementAssumption, ClientTypes
<1>4. PICK c : c = IF PaymentDue(b, now) THEN PaymentStarted(b) ELSE b
  OBVIOUS
<1>5. c \in Account
  <2>1. 0 \in Nat
    BY SMT
  <2> QED
    BY <2>1, <1>3, <1>4, SettlementTypes
<1>6. PICK q : q = IF ok THEN RequestOf(n, originated, "reserved") ELSE NewRequest
  OBVIOUS
<1>7. q \in RequestRecord /\ OwnerKnown(q)
  BY <1>6, RequestTypes
<1>8. PICK x : x = IF PaymentDue(b, now) THEN [amount |-> PaymentAmount(b), written |-> FALSE]
                                         ELSE cheque[n]
  OBVIOUS
<1>9. x \in ChequeRecord
  <2>1. cheque[n] \in ChequeRecord
    BY <1>t DEF TransfersOK
  <2>2. PaymentDue(b, now) => PaymentAmount(b) \in Nat
    BY <1>3, PaymentPositive
  <2> QED
    BY <2>1, <2>2, <1>8 DEF ChequeRecord
<1>10. /\ account' = [account EXCEPT ![n] = c]
       /\ request' = [request EXCEPT ![r] = q]
  BY <1>1, <1>2, <1>4, <1>6 DEF FinishReserve
<1>11. cheque' = [cheque EXCEPT ![n] = x]
  BY <1>1, <1>2, <1>8 DEF FinishReserve
<1>12. UNCHANGED <<wire, slack>> => TransfersOK'
  BY <1>t, <1>9, <1>11 DEF TransfersOK
<1> QED
  BY <1>t, <1>5, <1>7, <1>10, <1>12, AccountSet, RequestSet

LEMMA ReserveKeeps ==
  ASSUME SettlementInv, NEW r \in Requests, NEW n \in Nodes, NEW originated \in BOOLEAN,
         Reserve(r, n, originated)
  PROVE  SettlementInv'
<1>t. AccountsOK /\ RequestsOK /\ PaysOK /\ TransfersOK /\ TimesOK /\ Timed
  BY DEF SettlementInv
<1>1. PICK a : a = account[n]
  OBVIOUS
<1>2. a \in Account
  BY <1>1, <1>t DEF AccountsOK
<1>0. UNCHANGED <<handler, sent, received, wire, sessions, clock, slack>> /\ Free(n)
  BY DEF Reserve
<1>3. CASE /\ account' = [account EXCEPT ![n] = Reserved(a, Price)]
           /\ request' = [request EXCEPT ![r] = RequestOf(n, originated, "reserved")]
           /\ UNCHANGED <<pay, cheque, ban, link>>
  <2>1. AccountsOK'
    BY <1>2, <1>3, <1>t, PeerSettlementAssumption, ClientTypes, AccountSet
  <2>2. RequestsOK'
    BY <1>3, <1>t, RequestTypes, RequestSet
  <2> QED
    BY <2>1, <2>2, <1>0, <1>3, <1>t, PaysKept, TransfersKept, TimesKept, TimedKept
    DEF SettlementInv
<1>4. CASE FinishReserve(r, n, originated, a, clock) /\ UNCHANGED <<pay, ban, link>>
  <2>1. clock \in Nat
    BY <1>t DEF TimesOK
  <2>2. AccountsOK' /\ RequestsOK' /\ TransfersOK'
    BY <2>1, <1>0, <1>2, <1>4, FinishReserveKeeps
  <2> QED
    BY <2>2, <1>0, <1>4, <1>t, PaysKept, TimesKept, TimedKept DEF SettlementInv
<1>5. CASE /\ RefreshDue(a, clock) /\ ~TooSoon(n)
           /\ pay' = [pay EXCEPT ![n] =
                [NoPay EXCEPT !.stage = "opening", !.request = r, !.originated = originated,
                              !.now = clock, !.amount = CompensatedDebt(a),
                              !.expected = Smaller(ShadowBalance(a), CompensatedDebt(a))]]
           /\ request' = [request EXCEPT ![r] = RequestOf(n, originated, "settling")]
           /\ UNCHANGED <<account, cheque, ban, link>>
  <2>1. PICK p : p = [NoPay EXCEPT !.stage = "opening", !.request = r, !.originated = originated,
                              !.now = clock, !.amount = CompensatedDebt(a),
                              !.expected = Smaller(ShadowBalance(a), CompensatedDebt(a))]
    OBVIOUS
  <2>2. /\ CompensatedDebt(a) \in Nat
        /\ Smaller(ShadowBalance(a), CompensatedDebt(a)) \in Int
    BY <1>2, <1>5, AccountTypes, SMT DEF RefreshDue, CompensatedDebt, ShadowBalance, Smaller
  <2>3. p \in PayRecord /\ p.stage = "opening" /\ p.request = r
    BY <2>1, <2>2, <1>t, PayTypes DEF PayRecord
  <2>4. PaysOK'
    BY <2>1, <2>3, <1>5, <1>t, PaySet
  <2>5. RequestsOK'
    BY <1>5, <1>t, RequestTypes, RequestSet
  <2>6. ASSUME NEW k \in Nodes, NEW m \in Nodes, m = Peer(k)
        PROVE  Times(k, m)'
    <3>1. Times(k, m)
      BY <2>6, <1>t DEF Timed
    <3>2. CASE k # n
      <4>1. pay'[k] = pay[k]
        BY <3>2, <1>5, <1>t DEF PaysOK
      <4> QED
        BY <4>1, <3>1, <1>0, <1>5 DEF Times
    <3>3. CASE k = n
      <4>1. pay'[k].stage = "opening" /\ pay[k].stage = "idle"
        BY <3>3, <2>1, <2>3, <1>0, <1>5, <1>t DEF PaysOK, Free
      <4>2. clock # sent[k].stamp
        BY <3>3, <1>5 DEF TooSoon
      <4>3. clock \in Nat /\ received[m] \in Nat /\ received[m] <= clock
        BY <3>1, <1>t DEF TimesOK, Times
      <4>4. received[m] # clock => received[m] < clock
        BY <4>3, SMT
      <4>5. received[m] < clock \/ ~link
        BY <4>1, <4>2, <4>4, <3>1 DEF Times
      <4> QED
        BY <4>1, <4>5, <3>1, <1>0, <1>5 DEF Times
    <3> QED
      BY <3>2, <3>3
  <2>7. Timed'
    BY <2>6, TimedPairs
  <2> QED
    BY <2>4, <2>5, <2>7, <1>0, <1>5, <1>t, AccountsKept, TransfersKept, TimesKept
    DEF SettlementInv
<1>6. CASE Blocklist(n, a) /\ UNCHANGED <<account, request, pay, cheque>>
  <2>1. TimesOK' /\ Timed'
    BY <1>0, <1>2, <1>6, BlocklistKeeps
  <2> QED
    BY <2>1, <1>0, <1>6, <1>t, AccountsKept, RequestsKept, PaysKept, TransfersKept
    DEF SettlementInv
<1> QED
  BY <1>1, <1>3, <1>4, <1>5, <1>6 DEF Reserve

-----------------------------------------------------------------------------
(* Refreshments. *)

LEMMA SendPaymentKeeps ==
  ASSUME SettlementInv, NEW n \in Nodes, SendPayment(n)
  PROVE  SettlementInv'
<1>t. AccountsOK /\ RequestsOK /\ PaysOK /\ TransfersOK /\ TimesOK /\ Timed
  BY DEF SettlementInv
<1>0. /\ UNCHANGED <<account, request, sent, received, wire, cheque, ban, link, sessions, clock,
                     slack>>
      /\ pay[n].stage = "opening" /\ link
  BY DEF SendPayment
<1>1. PICK p : p = [pay[n] EXCEPT !.stage = "waiting", !.check = clock]
  OBVIOUS
<1>2. pay' = [pay EXCEPT ![n] = p]
  BY <1>1 DEF SendPayment
<1>3. p \in PayRecord /\ p.stage = "waiting" /\ p.request = pay[n].request
  BY <1>1, <1>t, PayTypes DEF PaysOK, PayRecord
<1>4. PaysOK'
  <2>1. p.request \in Requests
    BY <1>0, <1>3, <1>t DEF PaysOK
  <2> QED
    BY <2>1, <1>2, <1>3, <1>t, PaySet
<1>5. PICK h : h = [handler[Peer(n)] EXCEPT !.asked = pay[n].amount]
  OBVIOUS
<1>6. handler' = [handler EXCEPT ![Peer(n)] = h]
  BY <1>5 DEF SendPayment
<1>7. h \in HandlerRecord /\ h.stamp = handler[Peer(n)].stamp
  BY <1>5, <1>t, PayTypes, PeerOther DEF TimesOK, HandlerRecord
<1>8. TimesOK'
  BY <1>0, <1>6, <1>7, <1>t DEF TimesOK
<1>9. \A k \in Nodes : handler'[k].stamp = handler[k].stamp
  BY <1>6, <1>7, <1>t DEF TimesOK
<1>10. ASSUME NEW k \in Nodes, NEW m \in Nodes, m = Peer(k)
       PROVE  Times(k, m)'
  <2>1. Times(k, m)
    BY <1>10, <1>t DEF Timed
  <2>2. CASE k # n
    <3>1. pay'[k] = pay[k]
      BY <2>2, <1>2, <1>t DEF PaysOK
    <3> QED
      BY <3>1, <2>1, <1>0, <1>9 DEF Times
  <2>3. CASE k = n
    <3>1. pay'[k].stage = "waiting"
      BY <2>3, <1>2, <1>3, <1>t DEF PaysOK
    <3>2. received[m] < clock
      BY <2>1, <2>3, <1>0 DEF Times
    <3> QED
      BY <3>1, <3>2, <2>1, <1>0, <1>9 DEF Times
  <2> QED
    BY <2>2, <2>3
<1>11. Timed'
  BY <1>10, TimedPairs
<1> QED
  BY <1>0, <1>4, <1>8, <1>11, <1>t, AccountsKept, RequestsKept, TransfersKept DEF SettlementInv

\* A handler of m that changes, with a time that is right, keeps the types and
\* the order of the times.
LEMMA HandlerSet ==
  ASSUME SettlementInv, NEW m \in Nodes, NEW h \in HandlerRecord,
         handler' = [handler EXCEPT ![m] = h],
         h.stamp <= clock, h.stamp > 0 => received[m] < h.stamp,
         UNCHANGED <<pay, sent, received, ban, clock, sessions, link>>
  PROVE  TimesOK' /\ Timed'
<1>t. TimesOK /\ Timed
  BY DEF SettlementInv
<1>1. TimesOK'
  BY <1>t DEF TimesOK
<1>2. \A k \in Nodes : handler'[k] = IF k = m THEN h ELSE handler[k]
  BY <1>t DEF TimesOK
<1>3. ASSUME NEW n \in Nodes, NEW k \in Nodes, k = Peer(n)
      PROVE  Times(n, k)'
  <2>1. Times(n, k)
    BY <1>3, <1>t DEF Timed
  <2>2. /\ handler'[k].stamp <= clock
        /\ handler'[k].stamp > 0 => received[k] < handler'[k].stamp
    BY <2>1, <1>2 DEF Times
  <2> QED
    BY <2>1, <2>2 DEF Times
<1> QED
  BY <1>1, <1>3, TimedPairs

LEMMA HandlerKeeps ==
  ASSUME SettlementInv, NEW m \in Nodes,
         StampPayment(m) \/ RefusePayment(m) \/ NotifyRefreshmentReceived(m)
  PROVE  SettlementInv'
<1>t. AccountsOK /\ RequestsOK /\ PaysOK /\ TransfersOK /\ TimesOK /\ Timed
  BY DEF SettlementInv
<1>0. UNCHANGED <<request, pay, sent, received, wire, cheque, ban, link, sessions, clock, slack>>
  BY DEF StampPayment, RefusePayment, NotifyRefreshmentReceived
<1>1. /\ handler[m] \in HandlerRecord /\ handler[m].granted \in Nat /\ handler[m].stamp \in Nat
      /\ received[m] \in Nat /\ clock \in Nat
  BY <1>t DEF TimesOK, HandlerRecord
<1>2. /\ received[m] <= clock /\ handler[m].stamp <= clock
      /\ handler[m].stamp > 0 => received[m] < handler[m].stamp
  <2>1. PICK n \in Nodes : m = Peer(n)
    BY PeerOther
  <2>2. Times(n, m)
    BY <2>1, <1>t DEF Timed
  <2> QED
    BY <2>2 DEF Times
<1>3. AccountsOK'
  <2>1. CASE UNCHANGED account
    BY <2>1, <1>t, AccountsKept
  <2>2. CASE account' = [account EXCEPT ![m] = RefreshmentReceived(account[m], handler[m].granted)]
    BY <2>2, <1>1, <1>t, ServerTypes, AccountSet DEF AccountsOK
  <2> QED
    BY <2>1, <2>2 DEF StampPayment, RefusePayment, NotifyRefreshmentReceived
<1>4. \E h \in HandlerRecord : /\ handler' = [handler EXCEPT ![m] = h]
                               /\ h.stamp <= clock
                               /\ h.stamp > 0 => received[m] < h.stamp
  <2>0. 0 \in Nat /\ 0 <= clock /\ ~(0 > 0)
    BY <1>1, SMT
  <2>1. CASE StampPayment(m)
    <3>1. PICK h : h = [handler[m] EXCEPT !.stamp = clock]
      OBVIOUS
    <3>2. handler' = [handler EXCEPT ![m] = h]
      BY <2>1, <3>1 DEF StampPayment
    <3>3. h \in HandlerRecord /\ h.stamp = clock
      BY <3>1, <1>1 DEF HandlerRecord
    <3>4. clock # received[m]
      BY <2>1 DEF StampPayment
    <3>5. clock <= clock /\ received[m] < clock
      BY <3>4, <1>1, <1>2, SMT
    <3> QED
      BY <3>2, <3>3, <3>5
  <2>2. CASE RefusePayment(m)
    <3>1. NoHandler \in HandlerRecord /\ NoHandler.stamp = 0
      BY <2>0 DEF NoHandler, HandlerRecord
    <3> QED
      BY <3>1, <2>0, <2>2 DEF RefusePayment
  <2>3. CASE NotifyRefreshmentReceived(m)
    <3>1. PICK h : h = [handler[m] EXCEPT !.granted = 0]
      OBVIOUS
    <3>2. handler' = [handler EXCEPT ![m] = h]
      BY <2>3, <3>1 DEF NotifyRefreshmentReceived
    <3>3. h \in HandlerRecord /\ h.stamp = handler[m].stamp
      BY <3>1, <2>0, <1>1 DEF HandlerRecord
    <3> QED
      BY <3>2, <3>3, <1>2
  <2> QED
    BY <2>1, <2>2, <2>3
<1>5. TimesOK' /\ Timed'
  BY <1>0, <1>4, HandlerSet
<1> QED
  BY <1>0, <1>3, <1>5, <1>t, RequestsKept, PaysKept, TransfersKept DEF SettlementInv

LEMMA AcknowledgePaymentKeeps ==
  ASSUME SettlementInv, NEW m \in Nodes, AcknowledgePayment(m)
  PROVE  SettlementInv'
<1>t. AccountsOK /\ RequestsOK /\ PaysOK /\ TransfersOK /\ TimesOK /\ Timed
  BY DEF SettlementInv
<1>1. PICK n \in Nodes : n = Peer(m)
  BY PeerOther
<1>2. m = Peer(n) /\ n # m
  BY <1>1, PeerOther
<1>3. PICK s : s = handler[m].stamp
  OBVIOUS
<1>4. PICK g : g = Smaller(Smaller((s - received[m]) * RefreshRate, PeerDebt(account[m])),
                           handler[m].asked)
  OBVIOUS
<1>0. /\ UNCHANGED <<account, request, sent, wire, cheque, ban, link, sessions, clock, slack>>
      /\ s > 0 /\ pay[n].stage = "waiting"
      /\ handler' = [handler EXCEPT ![m] = [NoHandler EXCEPT !.granted = g]]
      /\ received' = [received EXCEPT ![m] = s]
  BY <1>1, <1>3, <1>4 DEF AcknowledgePayment
<1>5. /\ s \in Nat /\ handler[m].asked \in Nat /\ received[m] \in Nat
      /\ clock \in Nat
  BY <1>3, <1>t DEF TimesOK, HandlerRecord
<1>6. Times(n, m)
  BY <1>2, <1>t DEF Timed
<1>7. received[m] < s /\ s <= clock /\ sent[n].stamp <= received[m]
  BY <1>0, <1>3, <1>6 DEF Times
<1>8. g \in Nat
  <2>1. PeerDebt(account[m]) \in Nat
    <3>1. account[m] \in Account
      BY <1>t DEF AccountsOK
    <3> QED
      BY <3>1, AccountTypes, SMT DEF PeerDebt, Greater
  <2>2. (s - received[m]) * RefreshRate \in Nat
    <3>1. s - received[m] \in Nat /\ RefreshRate \in Nat
      BY <1>5, <1>7, LedgerAssumption, SMT
    <3> QED
      BY <3>1, SMT
  <2>3. Smaller((s - received[m]) * RefreshRate, PeerDebt(account[m])) \in Nat
    BY <2>1, <2>2 DEF Smaller
  <2> QED
    BY <2>3, <1>4, <1>5 DEF Smaller
<1>9. PICK p : p = [pay[n] EXCEPT !.stage = "answered", !.accepted = g, !.stamp = s]
  OBVIOUS
<1>10. pay' = [pay EXCEPT ![n] = p]
  BY <1>1, <1>3, <1>4, <1>9 DEF AcknowledgePayment
<1>11. p \in PayRecord /\ p.stage = "answered" /\ p.request = pay[n].request /\ p.stamp = s
  BY <1>5, <1>8, <1>9, <1>t DEF PaysOK, PayRecord
<1>12. PaysOK'
  <2>1. p.request \in Requests
    BY <1>0, <1>11, <1>t DEF PaysOK
  <2> QED
    BY <2>1, <1>10, <1>11, <1>t, PaySet
<1>13. PICK h : h = [NoHandler EXCEPT !.granted = g]
  OBVIOUS
<1>14. h \in HandlerRecord /\ h.stamp = 0
  <2>1. 0 \in Nat
    BY SMT
  <2> QED
    BY <2>1, <1>8, <1>13 DEF NoHandler, HandlerRecord
<1>15. TimesOK'
  BY <1>0, <1>5, <1>13, <1>14, <1>t DEF TimesOK
<1>16. ASSUME NEW k \in Nodes, NEW l \in Nodes, l = Peer(k)
       PROVE  Times(k, l)'
  <2>1. Times(k, l)
    BY <1>16, <1>t DEF Timed
  <2>2. CASE k # n
    <3>1. l # m
      BY <2>2, <1>1, <1>16, PeerOther
    <3>2. pay'[k] = pay[k] /\ received'[l] = received[l] /\ handler'[l] = handler[l]
      BY <2>2, <3>1, <1>0, <1>10, <1>t DEF PaysOK, TimesOK
    <3> QED
      BY <3>2, <2>1, <1>0 DEF Times
  <2>3. CASE k = n
    <3>1. l = m
      BY <2>3, <1>2, <1>16
    <3>2. /\ pay'[k].stage = "answered" /\ pay'[k].stamp = s /\ received'[l] = s
          /\ handler'[l].stamp = 0 /\ sent'[k] = sent[k] /\ clock' = clock
      BY <2>3, <3>1, <1>0, <1>10, <1>11, <1>13, <1>14, <1>t DEF PaysOK, TimesOK
    <3>3. sent[k].stamp \in Nat
      BY <1>t DEF TimesOK
    <3>4. sent[k].stamp <= s /\ 0 <= clock /\ ~(0 > 0)
      BY <2>3, <3>3, <1>5, <1>7, SMT
    <3> QED
      BY <3>2, <3>4, <1>7 DEF Times
  <2> QED
    BY <2>2, <2>3
<1>17. Timed'
  BY <1>16, TimedPairs
<1> QED
  BY <1>0, <1>12, <1>15, <1>17, <1>t, AccountsKept, RequestsKept, TransfersKept DEF SettlementInv

LEMMA PaySucceedsKeeps ==
  ASSUME SettlementInv, NEW n \in Nodes, PaySucceeds(n)
  PROVE  SettlementInv'
<1>t. AccountsOK /\ RequestsOK /\ PaysOK /\ TransfersOK /\ TimesOK /\ Timed
  BY DEF SettlementInv
<1>0. /\ UNCHANGED <<handler, received, wire, ban, link, sessions, clock, slack>>
      /\ pay[n].stage = "answered" /\ pay' = [pay EXCEPT ![n] = NoPay]
      /\ sent' = [sent EXCEPT ![n] = [stamp |-> pay[n].stamp, check |-> pay[n].check]]
  BY DEF PaySucceeds
<1>1. PICK a : a = Refreshed(account[n], pay[n].accepted, pay[n].check)
  OBVIOUS
<1>2. a \in Account
  BY <1>1, <1>t, PayTypes, SettlementTypes DEF AccountsOK
<1>3. pay[n].request \in Requests
  BY <1>0, <1>t DEF PaysOK
<1>4. FinishReserve(pay[n].request, n, pay[n].originated, a, pay[n].now)
  BY <1>1 DEF PaySucceeds
<1>5. AccountsOK' /\ RequestsOK' /\ TransfersOK'
  BY <1>0, <1>2, <1>3, <1>4, <1>t, PayTypes, FinishReserveKeeps
<1>6. PaysOK'
  BY <1>0, <1>t, PayTypes, PaySet
<1>7. PICK x : x = [stamp |-> pay[n].stamp, check |-> pay[n].check]
  OBVIOUS
<1>8. x \in [stamp : Nat, check : Nat] /\ x.stamp = pay[n].stamp
  BY <1>7, <1>t, PayTypes
<1>9. TimesOK'
  BY <1>0, <1>7, <1>8, <1>t DEF TimesOK
<1>10. ASSUME NEW k \in Nodes, NEW m \in Nodes, m = Peer(k)
       PROVE  Times(k, m)'
  <2>1. Times(k, m)
    BY <1>10, <1>t DEF Timed
  <2>2. CASE k # n
    <3>1. pay'[k] = pay[k] /\ sent'[k] = sent[k]
      BY <2>2, <1>0, <1>t DEF PaysOK, TimesOK
    <3> QED
      BY <3>1, <2>1, <1>0 DEF Times
  <2>3. CASE k = n
    <3>1. pay'[k].stage = "idle" /\ sent'[k] = x
      BY <2>3, <1>0, <1>7, <1>t, PayTypes DEF PaysOK, TimesOK
    <3>2. received[m] = pay[k].stamp /\ received[m] \in Nat
      BY <2>1, <2>3, <1>0, <1>t DEF Times, TimesOK
    <3>3. sent'[k].stamp = received[m]
      BY <2>3, <3>1, <3>2, <1>8
    <3>4. received[m] <= received[m]
      BY <3>2, SMT
    <3> QED
      BY <3>1, <3>3, <3>4, <2>1, <1>0 DEF Times
  <2> QED
    BY <2>2, <2>3
<1>11. Timed'
  BY <1>10, TimedPairs
<1> QED
  BY <1>5, <1>6, <1>9, <1>11 DEF SettlementInv

LEMMA PayFailsKeeps ==
  ASSUME SettlementInv, NEW n \in Nodes, PayFails(n)
  PROVE  SettlementInv'
<1>t. AccountsOK /\ RequestsOK /\ PaysOK /\ TransfersOK /\ TimesOK /\ Timed
  BY DEF SettlementInv
<1>0. /\ UNCHANGED <<account, handler, sent, received, wire, cheque, sessions, clock, slack>>
      /\ pay[n].stage # "idle" /\ pay' = [pay EXCEPT ![n] = NoPay]
      /\ request' = [request EXCEPT ![pay[n].request] = Forgotten]
      /\ Blocklist(n, account[n])
  BY DEF PayFails, Free
<1>1. PICK r \in Requests : r = pay[n].request
  BY <1>0, <1>t DEF PaysOK
<1>2. RequestsOK'
  <2>1. FALSE \in BOOLEAN
    OBVIOUS
  <2> QED
    BY <2>1, <1>0, <1>1, <1>t, RequestTypes, RequestSet
<1>3. PaysOK'
  BY <1>0, <1>t, PayTypes, PaySet
<1>4. account[n] \in Account
  BY <1>t DEF AccountsOK
<1>5. TimesOK' /\ Timed'
  BY <1>0, <1>4, BlocklistKeeps
<1> QED
  BY <1>0, <1>2, <1>3, <1>5, <1>t, AccountsKept, TransfersKept DEF SettlementInv

-----------------------------------------------------------------------------
(* Requests. *)

\* A request changes on one side, with the owner it has.
LEMMA RequestStep ==
  ASSUME SettlementInv, NEW r \in Requests, NEW q \in RequestRecord,
         request' = [request EXCEPT ![r] = q], q.owner = request[r].owner,
         request[r].owner \in Nodes
  PROVE  RequestsOK'
<1>1. RequestsOK
  BY DEF SettlementInv
<1> QED
  BY <1>1, RequestSet DEF OwnerKnown

LEMMA RequestTyped ==
  ASSUME SettlementInv, NEW r \in Requests
  PROVE  /\ request[r] \in RequestRecord /\ OwnerKnown(request[r])
         /\ request[r].originated \in BOOLEAN
         /\ request[r].owner # "none" => request[r].owner \in Nodes
  BY DEF SettlementInv, RequestsOK, RequestRecord

LEMMA PrepareDebitKeeps ==
  ASSUME SettlementInv, NEW r \in Requests, PrepareDebit(r)
  PROVE  SettlementInv'
<1>t. AccountsOK /\ RequestsOK /\ PaysOK /\ TransfersOK /\ TimesOK /\ Timed
  BY DEF SettlementInv
<1>0. /\ UNCHANGED <<pay, handler, sent, received, wire, cheque, ban, link, sessions, clock,
                     slack>>
      /\ request[r].owner # "none"
  BY DEF PrepareDebit
<1>1. PICK m \in Nodes : m = Peer(request[r].owner)
  BY <1>0, RequestTyped, PeerOther
<1>2. account' = [account EXCEPT ![m] = DebitPrepared(account[m], Price)]
  BY <1>1 DEF PrepareDebit
<1>3. AccountsOK'
  BY <1>2, <1>t, PeerSettlementAssumption, ServerTypes, AccountSet DEF AccountsOK
<1>4. PICK q : q = [request[r] EXCEPT !.server = "prepared"]
  OBVIOUS
<1>5. request' = [request EXCEPT ![r] = q]
  BY <1>4 DEF PrepareDebit
<1>6. q \in RequestRecord /\ q.owner = request[r].owner
  BY <1>4, RequestTyped DEF RequestRecord
<1>7. RequestsOK'
  BY <1>0, <1>5, <1>6, RequestTyped, RequestStep
<1> QED
  BY <1>0, <1>3, <1>7, <1>t, PaysKept, TransfersKept, TimesKept, TimedKept DEF SettlementInv

LEMMA DeliverKeeps ==
  ASSUME SettlementInv, NEW r \in Requests, Deliver(r)
  PROVE  SettlementInv'
<1>t. AccountsOK /\ RequestsOK /\ PaysOK /\ TransfersOK /\ TimesOK /\ Timed
  BY DEF SettlementInv
<1>0. /\ UNCHANGED <<account, pay, handler, sent, received, wire, cheque, ban, link, sessions,
                     clock, slack>>
      /\ request[r].server = "prepared"
  BY DEF Deliver
<1>1. request[r].owner \in Nodes
  BY <1>0, RequestTyped DEF OwnerKnown
<1>2. PICK q : q = [request[r] EXCEPT !.server = "delivered", !.delivered = TRUE]
  OBVIOUS
<1>3. request' = [request EXCEPT ![r] = q]
  BY <1>2 DEF Deliver
<1>4. q \in RequestRecord /\ q.owner = request[r].owner
  BY <1>2, RequestTyped DEF RequestRecord
<1>5. RequestsOK'
  BY <1>1, <1>3, <1>4, RequestStep
<1> QED
  BY <1>0, <1>5, <1>t, AccountsKept, PaysKept, TransfersKept, TimesKept, TimedKept
  DEF SettlementInv

\* The server ends its side and may blocklist the client.
LEMMA ServedKeeps ==
  ASSUME SettlementInv, NEW r \in Requests, DeliveryFails(r) \/ Apply(r)
  PROVE  SettlementInv'
<1>t. AccountsOK /\ RequestsOK /\ PaysOK /\ TransfersOK /\ TimesOK /\ Timed
  BY DEF SettlementInv
<1>0. /\ UNCHANGED <<pay, handler, sent, received, wire, cheque, sessions, clock, slack>>
      /\ request[r].server \in {"prepared", "delivered"}
  BY DEF DeliveryFails, Apply
<1>1. request[r].owner \in Nodes
  BY <1>0, RequestTyped DEF OwnerKnown
<1>2. PICK m \in Nodes : m = Peer(request[r].owner)
  BY <1>1, PeerOther
<1>3. account[m] \in Account
  BY <1>t DEF AccountsOK
<1>4. \E a \in Account : /\ account' = [account EXCEPT ![m] = a]
                         /\ Blocklist(m, a) \/ UNCHANGED <<ban, link>>
  <2>1. /\ DebitCleanedUp(account[m], Price) \in Account
        /\ DebitApplied(account[m], Price) \in Account
    BY <1>3, PeerSettlementAssumption, ServerTypes
  <2>2. CASE DeliveryFails(r)
    BY <2>1, <2>2, <1>2 DEF DeliveryFails
  <2>3. CASE Apply(r)
    BY <2>1, <2>3, <1>2 DEF Apply
  <2> QED
    BY <2>2, <2>3
<1>5. TimesOK' /\ Timed'
  BY <1>0, <1>4, <1>t, BlocklistKeeps, TimesKept, TimedKept
<1>6. AccountsOK'
  BY <1>4, <1>t, AccountSet
<1>7. \E q \in RequestRecord : /\ request' = [request EXCEPT ![r] = q]
                               /\ q.owner = request[r].owner
  <2>1. CASE DeliveryFails(r)
    <3>1. PICK arrives \in {FALSE, link} :
            request' = [request EXCEPT ![r].server = "cleaned", ![r].delivered = arrives]
      BY <2>1 DEF DeliveryFails
    <3>2. PICK q : q = [request[r] EXCEPT !.server = "cleaned", !.delivered = arrives]
      OBVIOUS
    <3>3. request' = [request EXCEPT ![r] = q]
      BY <3>1, <3>2
    <3>4. arrives \in BOOLEAN
      BY <1>t DEF TimesOK
    <3>5. q \in RequestRecord /\ q.owner = request[r].owner
      BY <3>2, <3>4, RequestTyped DEF RequestRecord
    <3> QED
      BY <3>3, <3>5
  <2>2. CASE Apply(r)
    <3>1. PICK q : q = [request[r] EXCEPT !.server = "applied"]
      OBVIOUS
    <3>2. request' = [request EXCEPT ![r] = q]
      BY <2>2, <3>1 DEF Apply
    <3>3. q \in RequestRecord /\ q.owner = request[r].owner
      BY <3>1, RequestTyped DEF RequestRecord
    <3> QED
      BY <3>2, <3>3
  <2> QED
    BY <2>1, <2>2
<1>8. RequestsOK'
  BY <1>1, <1>7, RequestStep
<1> QED
  BY <1>0, <1>5, <1>6, <1>8, <1>t, PaysKept, TransfersKept DEF SettlementInv

\* The client ends its side.
LEMMA ClientKeeps ==
  ASSUME SettlementInv, NEW r \in Requests, Credit(r) \/ Release(r)
  PROVE  SettlementInv'
<1>t. AccountsOK /\ RequestsOK /\ PaysOK /\ TransfersOK /\ TimesOK /\ Timed
  BY DEF SettlementInv
<1>0. /\ UNCHANGED <<pay, handler, sent, received, wire, cheque, ban, link, sessions, clock,
                     slack>>
      /\ request[r].client \in {"reserved", "credited"}
  BY DEF Credit, Release
<1>1. PICK n \in Nodes : n = request[r].owner
  BY <1>0, RequestTyped DEF OwnerKnown
<1>2. account[n] \in Account
  BY <1>t DEF AccountsOK
<1>3. \E a \in Account : account' = [account EXCEPT ![n] = a]
  <2>1. /\ Credited(account[n], Price, request[r].originated) \in Account
        /\ Released(account[n], Price) \in Account
    BY <1>2, PeerSettlementAssumption, RequestTyped, ClientTypes
  <2> QED
    BY <2>1, <1>1 DEF Credit, Release
<1>4. AccountsOK'
  BY <1>3, <1>t, AccountSet
<1>5. PICK c \in {"credited", "paid", "gaveup"} :
        request' = [request EXCEPT ![r].client = c]
  <2>1. CASE Credit(r)
    BY <2>1 DEF Credit
  <2>2. CASE Release(r)
    <3>1. PICK c : c = IF request[r].client = "credited" THEN "paid" ELSE "gaveup"
      OBVIOUS
    <3>2. request' = [request EXCEPT ![r].client = c]
      BY <2>2, <3>1 DEF Release
    <3> QED
      BY <3>1, <3>2
  <2> QED
    BY <2>1, <2>2
<1>6. PICK q : q = [request[r] EXCEPT !.client = c]
  OBVIOUS
<1>7. q \in RequestRecord /\ q.owner = request[r].owner
  BY <1>6, RequestTyped DEF RequestRecord
<1>8. RequestsOK'
  BY <1>1, <1>5, <1>6, <1>7, RequestStep
<1> QED
  BY <1>0, <1>4, <1>8, <1>t, PaysKept, TransfersKept, TimesKept, TimedKept DEF SettlementInv

-----------------------------------------------------------------------------
(* Cheques. *)

LEMMA ChequeKeeps ==
  ASSUME SettlementInv, NEW n \in Nodes, WriteCheque(n) \/ ChequeSent(n) \/ ChequeFails(n)
  PROVE  SettlementInv'
<1>t. AccountsOK /\ RequestsOK /\ PaysOK /\ TransfersOK /\ TimesOK /\ Timed
  BY DEF SettlementInv
<1>0. UNCHANGED <<request, pay, handler, sent, received, ban, link, sessions, clock>>
  BY DEF WriteCheque, ChequeSent, ChequeFails
<1>1. /\ cheque[n] \in ChequeRecord /\ cheque[n].amount \in Nat
      /\ wire[n] \in Nat /\ slack[n] \in Nat /\ clock \in Nat /\ account[n] \in Account
  BY <1>t DEF TransfersOK, ChequeRecord, TimesOK, AccountsOK
<1>2. AccountsOK'
  <2>1. /\ PaymentSent(account[n], cheque[n].amount) \in Account
        /\ PaymentFailed(account[n], cheque[n].amount, clock) \in Account
    BY <1>1, SettlementTypes
  <2>2. UNCHANGED account \/ \E a \in Account : account' = [account EXCEPT ![n] = a]
    BY <2>1 DEF WriteCheque, ChequeSent, ChequeFails
  <2> QED
    BY <2>2, <1>t, AccountsKept, AccountSet
<1>3. \E x \in ChequeRecord : cheque' = [cheque EXCEPT ![n] = x]
  <2>1. NoCheque \in ChequeRecord
    <3>1. 0 \in Nat
      BY SMT
    <3> QED
      BY <3>1 DEF NoCheque, ChequeRecord
  <2>2. [cheque[n] EXCEPT !.written = TRUE] \in ChequeRecord
    BY <1>1 DEF ChequeRecord
  <2> QED
    BY <2>1, <2>2 DEF WriteCheque, ChequeSent, ChequeFails
<1>4. UNCHANGED wire \/ \E w \in Nat : wire' = [wire EXCEPT ![n] = w]
  <2>1. wire[n] + cheque[n].amount \in Nat
    BY <1>1, SMT
  <2> QED
    BY <2>1 DEF WriteCheque, ChequeSent, ChequeFails
<1>5. UNCHANGED slack \/ \E w \in Nat : slack' = [slack EXCEPT ![n] = w]
  <2>1. PICK w : w = IF cheque[n].written THEN slack[n] + cheque[n].amount ELSE slack[n]
    OBVIOUS
  <2>2. slack[n] + cheque[n].amount \in Nat
    BY <1>1, SMT
  <2>3. w \in Nat
    BY <2>1, <2>2, <1>1
  <2> QED
    BY <2>1, <2>3 DEF WriteCheque, ChequeSent, ChequeFails
<1>6. TransfersOK'
  BY <1>3, <1>4, <1>5, <1>t DEF TransfersOK
<1> QED
  BY <1>0, <1>2, <1>6, <1>t, RequestsKept, PaysKept, TimesKept, TimedKept DEF SettlementInv

LEMMA PaymentReceivedKeeps ==
  ASSUME SettlementInv, NEW m \in Nodes, NotifyPaymentReceived(m)
  PROVE  SettlementInv'
<1>t. AccountsOK /\ RequestsOK /\ PaysOK /\ TransfersOK /\ TimesOK /\ Timed
  BY DEF SettlementInv
<1>0. UNCHANGED <<request, pay, handler, sent, received, cheque, ban, link, sessions, clock, slack>>
  BY DEF NotifyPaymentReceived
<1>1. PICK n \in Nodes : n = Peer(m)
  BY PeerOther
<1>2. wire[n] \in Nat /\ account[m] \in Account /\ 0 \in Nat
  BY <1>t DEF TransfersOK, AccountsOK
<1>3. /\ account' = [account EXCEPT ![m] = PaymentReceived(account[m], wire[n])]
      /\ wire' = [wire EXCEPT ![n] = 0]
  BY <1>1 DEF NotifyPaymentReceived
<1>4. AccountsOK'
  BY <1>2, <1>3, <1>t, ServerTypes, AccountSet
<1>5. TransfersOK'
  BY <1>0, <1>2, <1>3, <1>t DEF TransfersOK
<1> QED
  BY <1>0, <1>4, <1>5, <1>t, RequestsKept, PaysKept, TimesKept, TimedKept DEF SettlementInv

-----------------------------------------------------------------------------
(* Connections. *)

LEMMA LinkDownKeeps ==
  ASSUME SettlementInv, LinkDown
  PROVE  SettlementInv'
<1>t. AccountsOK /\ RequestsOK /\ PaysOK /\ TransfersOK /\ TimesOK /\ Timed
  BY DEF SettlementInv
<1>0. /\ UNCHANGED <<account, request, pay, handler, sent, received, wire, cheque, ban, sessions,
                     clock, slack>>
      /\ link' = FALSE
  BY DEF LinkDown
<1>1. PICK n \in Nodes : TRUE
  BY DEF Nodes
<1>2. account[n] \in Account
  BY <1>t DEF AccountsOK
<1>3. TimesOK' /\ Timed'
  BY <1>0, <1>2, BlocklistKeeps
<1> QED
  BY <1>0, <1>3, <1>t, AccountsKept, RequestsKept, PaysKept, TransfersKept DEF SettlementInv

LEMMA DisconnectKeeps ==
  ASSUME SettlementInv, NEW n \in Nodes, Disconnect(n)
  PROVE  SettlementInv'
<1>t. AccountsOK /\ RequestsOK /\ PaysOK /\ TransfersOK /\ TimesOK /\ Timed
  BY DEF SettlementInv
<1>0. /\ UNCHANGED <<request, pay, handler, sent, received, wire, cheque, link, sessions, clock,
                     slack>>
      /\ ~link /\ account' = [account EXCEPT ![n] = Disconnected(account[n])]
      /\ ban' = [ban EXCEPT ![n] = BanOf(n, account[n])]
  BY DEF Disconnect
<1>1. account[n] \in Account
  BY <1>t DEF AccountsOK
<1>2. TimesOK' /\ Timed'
  BY <1>0, <1>1, BlocklistKeeps
<1>3. AccountsOK'
  BY <1>0, <1>1, <1>t, ConnectionTypes, AccountSet
<1> QED
  BY <1>0, <1>2, <1>3, <1>t, RequestsKept, PaysKept, TransfersKept DEF SettlementInv

LEMMA ConnectKeeps ==
  ASSUME SettlementInv, NEW n \in Nodes, Connect(n)
  PROVE  SettlementInv'
<1>t. AccountsOK /\ RequestsOK /\ PaysOK /\ TransfersOK /\ TimesOK /\ Timed
  BY DEF SettlementInv
<1>0. /\ UNCHANGED <<request, pay, handler, sent, received, wire, cheque, ban, link, sessions,
                     clock, slack>>
      /\ account' = [account EXCEPT ![n] = Connected(account[n])]
  BY DEF Connect
<1>1. account[n] \in Account
  BY <1>t DEF AccountsOK
<1>2. AccountsOK'
  BY <1>0, <1>1, <1>t, ConnectionTypes, AccountSet
<1> QED
  BY <1>0, <1>2, <1>t, RequestsKept, PaysKept, TransfersKept, TimesKept, TimedKept
  DEF SettlementInv

\* The second in which m stored a refreshment that n has not stored is over
\* when the time of n's blocklist is.
LEMMA LinkUpKeeps ==
  ASSUME SettlementInv, LinkUp
  PROVE  SettlementInv'
<1>t. AccountsOK /\ RequestsOK /\ PaysOK /\ TransfersOK /\ TimesOK /\ Timed
  BY DEF SettlementInv
<1>0. /\ UNCHANGED <<account, pay, handler, sent, received, cheque, clock>>
      /\ link' = TRUE /\ sessions' = sessions + 1
      /\ ban' = [n \in Nodes |-> NoBan] /\ request' = [r \in Requests |-> NewRequest]
      /\ wire' = [n \in Nodes |-> 0] /\ slack' = [n \in Nodes |-> 0]
      /\ \A n \in Nodes : pay[n].stage = "idle" /\ clock >= ban[n].since + ban[n].seconds
  BY DEF LinkUp, Quiet, Free
<1>z. 0 \in Nat /\ sessions + 1 \in Nat
  BY <1>t, SMT DEF TimesOK
<1>1. RequestsOK'
  <2>1. NewRequest \in RequestRecord /\ OwnerKnown(NewRequest)
    BY DEF NewRequest, RequestRecord, OwnerKnown
  <2>2. PICK q : q = NewRequest
    OBVIOUS
  <2>3. request' = [r \in Requests |-> q] /\ q \in RequestRecord /\ OwnerKnown(q)
    BY <2>1, <2>2, <1>0
  <2> QED
    BY <2>3 DEF RequestsOK, OwnerKnown, RequestRecord, Nodes
<1>2. TransfersOK'
  BY <1>0, <1>z, <1>t DEF TransfersOK
<1>3. NoBan \in BanRecord
  BY <1>z DEF NoBan, BanRecord
<1>4. TimesOK'
  BY <1>0, <1>3, <1>z, <1>t DEF TimesOK
<1>5. ASSUME NEW n \in Nodes, NEW m \in Nodes, m = Peer(n)
      PROVE  Times(n, m)'
  <2>1. Times(n, m)
    BY <1>5, <1>t DEF Timed
  <2>2. /\ ban[n].since \in Nat /\ ban[n].seconds \in Nat /\ clock \in Nat /\ received[m] \in Nat
    BY <1>t DEF TimesOK, BanRecord
  <2>3. ban[n].seconds > 0 /\ received[m] <= ban[n].since => received[m] < clock
    <3>1. clock >= ban[n].since + ban[n].seconds
      BY <1>0
    <3> QED
      BY <2>2, <3>1, SMT
  <2>4. received[m] = sent[n].stamp \/ received[m] < clock
    BY <2>1, <2>3, <1>0 DEF Times
  <2>5. pay'[n].stage = "idle"
    BY <1>0
  <2> QED
    BY <2>1, <2>4, <2>5, <1>0 DEF Times
<1>6. Timed'
  BY <1>5, TimedPairs
<1> QED
  BY <1>0, <1>1, <1>2, <1>4, <1>6, <1>t, AccountsKept, PaysKept DEF SettlementInv

LEMMA TickKeeps ==
  ASSUME SettlementInv, Tick
  PROVE  SettlementInv'
<1>t. AccountsOK /\ RequestsOK /\ PaysOK /\ TransfersOK /\ TimesOK /\ Timed
  BY DEF SettlementInv
<1>0. /\ UNCHANGED <<account, request, pay, handler, sent, received, wire, cheque, ban, link,
                     sessions, slack>>
      /\ clock' = clock + 1
  BY DEF Tick
<1>1. clock \in Nat /\ clock + 1 \in Nat
  BY <1>t, SMT DEF TimesOK
<1>2. TimesOK'
  BY <1>0, <1>1, <1>t DEF TimesOK
<1>3. ASSUME NEW n \in Nodes, NEW m \in Nodes, m = Peer(n)
      PROVE  Times(n, m)'
  <2>1. Times(n, m)
    BY <1>3, <1>t DEF Timed
  <2>2. received[m] \in Nat /\ handler[m].stamp \in Nat
    BY <1>t DEF TimesOK, HandlerRecord
  <2>3. received[m] <= clock /\ handler[m].stamp <= clock
    BY <2>1 DEF Times
  <2>4. /\ received[m] <= clock' /\ handler[m].stamp <= clock' /\ received[m] < clock'
    BY <2>2, <2>3, <1>0, <1>1, SMT
  <2> QED
    BY <2>1, <2>4, <1>0 DEF Times
<1>4. Timed'
  BY <1>3, TimedPairs
<1> QED
  BY <1>0, <1>2, <1>4, <1>t, AccountsKept, RequestsKept, PaysKept, TransfersKept
  DEF SettlementInv

-----------------------------------------------------------------------------
LEMMA SettlementInitially == Init => SettlementInv
<1> SUFFICES ASSUME Init
             PROVE  SettlementInv
  OBVIOUS
<1>z. 0 \in Nat /\ 0 \in Int /\ StartTime \in Nat /\ 0 <= 0 /\ 0 <= StartTime
  BY PeerSettlementAssumption, SMT
<1>1. AccountsOK
  <2>1. NewAccount \in Account
    BY <1>z, LedgerAssumption DEF NewAccount, Account
  <2> QED
    BY <2>1 DEF Init, AccountsOK
<1>2. RequestsOK
  <2>1. NewRequest \in RequestRecord /\ OwnerKnown(NewRequest)
    BY DEF NewRequest, RequestRecord, OwnerKnown
  <2> QED
    BY <2>1 DEF Init, RequestsOK
<1>3. PaysOK
  <2>1. NoPay \in PayRecord /\ NoPay.stage = "idle"
    BY <1>z DEF NoPay, PayRecord
  <2> QED
    BY <2>1 DEF Init, PaysOK
<1>4. TransfersOK
  <2>1. NoCheque \in ChequeRecord
    BY <1>z DEF NoCheque, ChequeRecord
  <2> QED
    BY <2>1, <1>z DEF Init, TransfersOK
<1>5. TimesOK
  <2>1. NoHandler \in HandlerRecord /\ NoBan \in BanRecord
    BY <1>z DEF NoHandler, NoBan, HandlerRecord, BanRecord
  <2> QED
    BY <2>1, <1>z DEF Init, TimesOK
<1>6. ASSUME NEW n \in Nodes
      PROVE  Times(n, Peer(n))
  <2>1. PICK m \in Nodes : m = Peer(n)
    BY PeerOther
  <2>2. /\ sent[n].stamp = 0 /\ received[m] = 0 /\ clock = StartTime /\ handler[m].stamp = 0
        /\ pay[n].stage = "idle"
    BY DEF Init, NoHandler, NoPay
  <2>3. ~(0 > 0)
    BY SMT
  <2> QED
    BY <2>1, <2>2, <2>3, <1>z DEF Times
<1> QED
  BY <1>1, <1>2, <1>3, <1>4, <1>5, <1>6 DEF SettlementInv, Timed

LEMMA SettlementStep == SettlementInv /\ [Next]_vars => SettlementInv'
<1> SUFFICES ASSUME SettlementInv, [Next]_vars
             PROVE  SettlementInv'
  OBVIOUS
<1>1. CASE UNCHANGED vars
  BY <1>1, AccountsKept, RequestsKept, PaysKept, TransfersKept, TimesKept, TimedKept
  DEF vars, SettlementInv
<1>2. CASE Next
  <2>1. ASSUME NEW r \in Requests, NEW n \in Clients, NEW originated \in Originations,
               Reserve(r, n, originated)
        PROVE  SettlementInv'
    <3>1. n \in Nodes /\ originated \in BOOLEAN
      BY PeerSettlementAssumption DEF Nodes
    <3> QED
      BY <2>1, <3>1, ReserveKeeps
  <2>2. ASSUME NEW n \in Nodes, SendPayment(n) \/ PaySucceeds(n) \/ PayFails(n)
        PROVE  SettlementInv'
    BY <2>2, SendPaymentKeeps, PaySucceedsKeeps, PayFailsKeeps
  <2>3. ASSUME NEW n \in Nodes,
               \/ StampPayment(n) \/ AcknowledgePayment(n) \/ RefusePayment(n)
               \/ NotifyRefreshmentReceived(n)
        PROVE  SettlementInv'
    BY <2>3, HandlerKeeps, AcknowledgePaymentKeeps
  <2>4. ASSUME NEW r \in Requests,
               PrepareDebit(r) \/ Deliver(r) \/ DeliveryFails(r) \/ Apply(r) \/ Credit(r) \/ Release(r)
        PROVE  SettlementInv'
    BY <2>4, PrepareDebitKeeps, DeliverKeeps, ServedKeeps, ClientKeeps
  <2>5. ASSUME NEW n \in Nodes,
               WriteCheque(n) \/ ChequeSent(n) \/ ChequeFails(n) \/ NotifyPaymentReceived(n)
        PROVE  SettlementInv'
    BY <2>5, ChequeKeeps, PaymentReceivedKeeps
  <2>6. ASSUME LinkDown \/ LinkUp \/ Tick \/ \E n \in Nodes : Connect(n) \/ Disconnect(n)
        PROVE  SettlementInv'
    BY <2>6, LinkDownKeeps, LinkUpKeeps, TickKeeps, ConnectKeeps, DisconnectKeeps
  <2> QED
    BY <1>2, <2>1, <2>2, <2>3, <2>4, <2>5, <2>6 DEF Next
<1> QED
  BY <1>1, <1>2

LEMMA SettlementKept == Spec => []SettlementInv
  BY SettlementInitially, SettlementStep, PTL DEF Spec

\* Both accounts, both sides of every request and the refreshments keep their
\* types: no cheque or refreshment is for a negative amount, and the surplus,
\* the reserved balance and the ghost balance never fall below zero.
THEOREM SettlementTypesHold == Spec => []TypeOK
<1>1. SettlementInv => TypeOK
  <2> SUFFICES ASSUME SettlementInv
               PROVE  TypeOK
    OBVIOUS
  <2>1. AccountsOK /\ RequestsOK /\ PaysOK /\ TransfersOK /\ TimesOK
    BY DEF SettlementInv
  <2>2. \A r \in Requests :
           /\ request[r].owner \in Nodes \cup {"none"}
           /\ request[r].client \in {"new", "settling", "reserved", "credited", "paid", "gaveup"}
           /\ request[r].server \in {"none", "prepared", "delivered", "applied", "cleaned"}
    BY <2>1 DEF RequestsOK, RequestRecord
  <2>3. \A n \in Nodes : pay[n].stage \in {"idle", "opening", "waiting", "answered"}
    BY <2>1 DEF PaysOK, PayRecord
  <2> QED
    BY <2>1, <2>2, <2>3
    DEF TypeOK, AccountsOK, TransfersOK, TimesOK, HandlerRecord, BanRecord
<1> QED
  BY <1>1, SettlementKept, PTL

\* A refreshment that its sender still waits for is never refused as too soon:
\* the payer's own check against the time it stored is enough, because a time
\* it has not stored is over before the blocklist lets the nodes reconnect.
THEOREM RefreshmentsAreNotTooSoon == Spec => []NeverRefusedTooSoon
<1>1. SettlementInv => NeverRefusedTooSoon
  <2> SUFFICES ASSUME SettlementInv, NEW m \in Nodes, pay[Peer(m)].stage = "waiting"
               PROVE  clock # received[m]
    BY DEF NeverRefusedTooSoon
  <2>1. TimesOK /\ Timed
    BY DEF SettlementInv
  <2>2. PICK n \in Nodes : n = Peer(m) /\ m = Peer(n)
    BY PeerOther
  <2>3. Times(n, m)
    BY <2>1, <2>2 DEF Timed
  <2>4. received[m] < clock
    BY <2>2, <2>3 DEF Times
  <2>5. clock \in Nat /\ received[m] \in Nat
    BY <2>1 DEF TimesOK
  <2> QED
    BY <2>4, <2>5, SMT
<1> QED
  BY <1>1, SettlementKept, PTL
=============================================================================
