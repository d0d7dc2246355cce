----------------------------- MODULE MineWorker -----------------------------
(***************************************************************************)
(* The worker of a miner (pkg/mine): it keeps asking the contract whether  *)
(* the node works, deposits when it has to, collects signatures of trust   *)
(* nodes (pkg/mine/trust) and activates the node, each attempt under a     *)
(* timeout of twenty seconds.  Answers of trust nodes are handed over on   *)
(* an unbuffered channel by a handler that holds the lock of all waits.    *)
(***************************************************************************)
EXTENDS Naturals, FiniteSets

CONSTANTS
  TrustNodes,   \* the trust nodes the node knows
  NeedTrust,    \* signatures the contract asks for an activation
  MaxCalls,     \* bound: attempts to collect signatures
  MaxMineFaults, MaxCrashes, MaxInactive   \* bounds: early timeouts and losses, crashes, inactivations

VARIABLES
  deposited, active,   \* the contract: the node has a deposit, and works
  txs,                 \* the contract: transactions on their way
  depositKey,          \* persisted: the deposit transaction being waited for
  wpc, purpose,        \* the worker: its step, what the signatures are for
  calls,               \* the calls of TrustsSignature and where they are
  got,                 \* the signatures each call has collected
  answers,             \* answers of trust nodes on their way: call and node
  lockedBy,            \* the answer whose handler holds the lock, or NoAnswer
  deposits, mineFaults, waitTimeouts, crashes, lostHash, inactive   \* counts of what happened

mineVars == <<deposited, active, txs, depositKey, wpc, purpose, calls, got, answers,
              lockedBy, deposits, mineFaults, waitTimeouts, crashes, lostHash, inactive>>
contractVars == <<deposited, active, txs, inactive>>
trustVars == <<calls, got, answers, lockedBy>>
counts == <<deposits, mineFaults, waitTimeouts, crashes, lostHash>>

ASSUME MineAssumption == MaxCalls \in Nat

CallId == 1..MaxCalls
NoAnswer == <<0, "none">>
Current == CHOOSE i \in CallId : calls[i] # "new" /\ \A j \in CallId : calls[j] # "new" => j <= i
Need == IF purpose = "deposit" THEN 1 ELSE NeedTrust

MineInit ==
  /\ deposited = FALSE /\ active = FALSE /\ txs = {} /\ depositKey = FALSE
  /\ wpc = "timer" /\ purpose = "none"
  /\ calls = [i \in CallId |-> "new"] /\ got = [i \in CallId |-> {}]
  /\ answers = {} /\ lockedBy = NoAnswer
  /\ deposits = 0 /\ mineFaults = 0 /\ waitTimeouts = 0 /\ crashes = 0 /\ lostHash = 0 /\ inactive = 0

-----------------------------------------------------------------------------
\* What the contract tells the node, and the transactions it takes.
IsWorking == active
CheckDeposit == deposited
Deposit == txs' = txs \cup {"deposit"} /\ deposits' = deposits + 1
Active == txs' = txs \cup {"active"} /\ UNCHANGED deposits
HasReceipt(t) == t \notin txs

\* A trust node signs for a node that is neither frozen nor cashing out, and sends
\* its signature back for the call.
NotifyTrustSignature(i, t) == {<<i, t>>}

\* The request goes from peer to peer until it reaches its trust node.
HandlerSign(i, t) == NotifyTrustSignature(i, t)
TrustSignature(i) == UNION {HandlerSign(i, t) : t \in TrustNodes}

\* mortgageMiner: a deposit that was sent before is waited for, not sent again.
MortgageMiner == purpose' = "deposit" /\ wpc' = IF depositKey THEN "wait" ELSE "sign"

\* checkWorkingWorker: the contract says what is missing.
CheckWorking ==
  /\ wpc = "timer" /\ ~IsWorking
  /\ IF CheckDeposit THEN wpc' = "sign" /\ purpose' = "active" ELSE MortgageMiner
  /\ UNCHANGED <<contractVars, depositKey, trustVars, counts>>

\* TrustsSignature registers a wait, which needs the lock, and asks the nodes.
ObtainWait ==
  /\ wpc = "sign" /\ lockedBy = NoAnswer
  /\ \E i \in CallId :
       /\ calls[i] = "new" /\ \A j \in CallId : j < i => calls[j] # "new"
       /\ calls' = [calls EXCEPT ![i] = "asking"]
       /\ answers' = answers \cup TrustSignature(i)
  /\ wpc' = "collect"
  /\ UNCHANGED <<contractVars, depositKey, purpose, got, lockedBy, counts>>

\* All requests are written: the call listens for answers.
Listen(i) ==
  /\ calls[i] = "asking" /\ calls' = [calls EXCEPT ![i] = "listening"]
  /\ UNCHANGED <<contractVars, depositKey, wpc, purpose, got, answers, lockedBy, counts>>

\* handlerSignRet takes the lock; without a wait it drops the answer, otherwise
\* it keeps the lock until the call takes the answer.
HandleSignRet(a) ==
  /\ lockedBy = NoAnswer /\ a \in answers /\ answers' = answers \ {a}
  /\ lockedBy' = IF calls[a[1]] \in {"asking", "listening", "returned"} THEN a ELSE NoAnswer
  /\ UNCHANGED <<contractVars, depositKey, wpc, purpose, calls, got, counts>>

\* The call receives the answer; with enough of them it returns.
Receive ==
  LET i == lockedBy[1] IN
  /\ lockedBy # NoAnswer /\ calls[i] = "listening"
  /\ got' = [got EXCEPT ![i] = @ \cup {lockedBy[2]}]
  /\ lockedBy' = NoAnswer
  /\ IF Cardinality(got'[i]) = Need
     THEN calls' = [calls EXCEPT ![i] = "returned"] /\ wpc' = "release"
     ELSE UNCHANGED <<calls, wpc>>
  /\ UNCHANGED <<contractVars, depositKey, purpose, answers, counts>>

\* releaseWait needs the lock as well; only then does TrustsSignature return.
ReleaseWait(i) ==
  /\ calls[i] = "returned" /\ lockedBy = NoAnswer
  /\ calls' = [calls EXCEPT ![i] = "released"]
  /\ wpc' = IF wpc = "release" /\ i = Current THEN "send" ELSE wpc
  /\ UNCHANGED <<contractVars, depositKey, purpose, got, answers, lockedBy, counts>>

\* Deposit or Active is sent with the signatures.
SendTx ==
  /\ wpc = "send"
  /\ IF purpose = "deposit" THEN Deposit ELSE Active
  /\ wpc' = IF purpose = "deposit" THEN "store" ELSE "wait"
  /\ UNCHANGED <<deposited, active, inactive, depositKey, purpose, trustVars, mineFaults,
                 waitTimeouts, crashes, lostHash>>

\* Mutant: the deposit transaction is not remembered.
ForgetDeposit ==
  /\ wpc = "store" /\ wpc' = "wait" /\ UNCHANGED depositKey
  /\ UNCHANGED <<contractVars, purpose, trustVars, counts>>
StoreDeposit ==
  /\ wpc = "store" /\ wpc' = "wait" /\ depositKey' = TRUE
  /\ UNCHANGED <<contractVars, purpose, trustVars, counts>>

\* The transaction is confirmed; the record of the deposit is deleted.
Confirmed ==
  /\ wpc = "wait" /\ HasReceipt(purpose)
  /\ purpose = "deposit" => deposited
  /\ depositKey' = FALSE /\ wpc' = "timer"
  /\ UNCHANGED <<contractVars, purpose, trustVars, counts>>

\* An attempt ends without a result.  A call that collects stops listening and
\* has its wait to release, in a goroutine the worker does not wait for; a wait
\* for the deposit deletes the record all the same.
Fail(next) ==
  /\ wpc' = next
  /\ waitTimeouts' = IF wpc = "wait" THEN waitTimeouts + 1 ELSE waitTimeouts
  /\ depositKey' = IF wpc = "wait" THEN FALSE ELSE depositKey
  /\ calls' = IF wpc = "collect" THEN [calls EXCEPT ![Current] = "returned"] ELSE calls
  /\ UNCHANGED <<contractVars, purpose, got, answers, lockedBy, deposits, crashes, lostHash>>

\* Nothing that the worker waits for is on its way any more.
NothingComes ==
  /\ wpc = "collect" /\ calls[Current] = "listening"
  /\ \A a \in answers \cup {lockedBy} : a[1] # Current

\* Mutant: the timer is not set again after an attempt that failed.
GiveUp ==
  /\ wpc \in {"sign", "collect", "release", "send", "wait"}
  /\ \/ mineFaults < MaxMineFaults /\ mineFaults' = mineFaults + 1
     \/ NothingComes /\ UNCHANGED mineFaults
  /\ Fail("stopped")

\* The attempt times out, early or because answers were lost, and the timer is
\* set to try again.
Timeout ==
  /\ wpc \in {"sign", "collect", "release", "send", "wait"}
  /\ \/ mineFaults < MaxMineFaults /\ mineFaults' = mineFaults + 1
     \/ NothingComes /\ UNCHANGED mineFaults
  /\ Fail("timer")

\* A request or its answer is lost on the way through other nodes.
LoseAnswer(a) ==
  /\ a \in answers /\ mineFaults < MaxMineFaults /\ mineFaults' = mineFaults + 1
  /\ answers' = answers \ {a}
  /\ UNCHANGED <<contractVars, depositKey, wpc, purpose, calls, got, lockedBy, deposits,
                 crashes, lostHash, waitTimeouts>>

-----------------------------------------------------------------------------
\* The contract (external) accepts a transaction, or makes the node inactive.
AcceptTx(t) ==
  /\ t \in txs /\ txs' = txs \ {t}
  /\ deposited' = (deposited \/ t = "deposit") /\ active' = (active \/ t = "active")
  /\ UNCHANGED <<inactive, depositKey, wpc, purpose, trustVars, counts>>

Inactivated ==
  /\ active /\ inactive < MaxInactive /\ inactive' = inactive + 1 /\ active' = FALSE
  /\ UNCHANGED <<deposited, txs, depositKey, wpc, purpose, trustVars, counts>>

\* The process ends and starts again: calls, waits and the lock are gone.
RestartMiner ==
  /\ crashes < MaxCrashes /\ crashes' = crashes + 1
  /\ lostHash' = IF wpc = "store" THEN lostHash + 1 ELSE lostHash
  /\ wpc' = "timer" /\ purpose' = "none" /\ answers' = {} /\ lockedBy' = NoAnswer
  /\ calls' = [i \in CallId |-> IF calls[i] = "new" THEN "new" ELSE "released"]
  /\ UNCHANGED <<contractVars, depositKey, got, deposits, mineFaults, waitTimeouts>>

Worker == CheckWorking \/ ObtainWait \/ Receive \/ SendTx \/ StoreDeposit \/ Confirmed

MineNext ==
  \/ Worker \/ Timeout \/ Inactivated \/ RestartMiner
  \/ \E i \in CallId : Listen(i) \/ ReleaseWait(i)
  \/ \E a \in answers : HandleSignRet(a) \/ LoseAnswer(a)
  \/ \E t \in txs : AcceptTx(t)

\* The worker's loop runs whenever it can, a call or a handler while one can;
\* transactions that were sent are mined.
MineFairness ==
  /\ WF_mineVars(Worker) /\ WF_mineVars(NothingComes /\ Timeout)
  /\ WF_mineVars(\E i \in CallId : Listen(i) \/ ReleaseWait(i))
  /\ WF_mineVars(\E a \in CallId \X TrustNodes : HandleSignRet(a))
  /\ WF_mineVars(\E t \in {"deposit", "active"} : AcceptTx(t))

MineSpec == MineInit /\ [][MineNext]_mineVars /\ MineFairness
-----------------------------------------------------------------------------
(***************************************************************************)
(* The node deposits again only after a wait for the deposit ended without *)
(* a result, or after a crash between sending and recording it; never      *)
(* because it was restarted while it waited.                               *)
(***************************************************************************)
DepositRepeatedOnlyAfterTimeout == deposits <= 1 + waitTimeouts + lostHash

\* An answer was accepted for a call that has stopped listening: its handler
\* keeps the lock, and the call cannot release its wait.
Stalled == lockedBy # NoAnswer /\ calls[lockedBy[1]] = "returned"

(***************************************************************************)
(* The worker goes on until the node works, through timeouts and restarts: *)
(* the only thing that ends its attempts is a stalled lock of the waits,   *)
(* left behind by an answer that came when enough had been collected or    *)
(* after the timeout.                                                      *)
(***************************************************************************)
WorkerGoesOn == []<>(active \/ Stalled)
=============================================================================
