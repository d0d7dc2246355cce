---------------------------- MODULE Transactions ----------------------------
(***************************************************************************)
(* The transaction service and its monitor (pkg/transaction): sending with *)
(* a nonce that is partly stored and partly asked from the backend,        *)
(* resending, cancelling, and watching sent transactions until there is a  *)
(* receipt or a competing transaction has enough confirmations.  The chain *)
(* drops transactions, replaces its newest block and fails calls; the node *)
(* crashes between any two writes.                                         *)
(***************************************************************************)
EXTENDS Integers, Sequences, FiniteSets, FiniteSetsExt

CONSTANTS
  Req,               \* transactions the node is asked to send
  Cancellable,       \* those it may be asked to cancel
  CancellationDepth, \* blocks after which a used nonce is final
  MaxHeight,         \* bound: blocks of the chain
  MaxTxFaults          \* bound: drops, reorganisations, failed calls, crashes

\* Only requests are cancelled; a cancellation is final below the newest block.
ASSUME TransactionsAssumption ==
  Cancellable \subseteq Req /\ CancellationDepth \in Nat \ {0}

Tx == (Req \X {"request"}) \cup (Cancellable \X {"cancel"})
NoTx == <<"none", "none">>
NoNonce == -1

VARIABLES
  blocks,     \* chain: the sender's transaction in each block, or NoTx
  pool,       \* chain: transactions waiting, with their nonces
  nonceStore, stored, pendingTx,   \* persisted: next nonce, transactions, pending
  sending,    \* the call that holds the lock and one that cancels, without the lock
  watches,    \* the monitor: transactions being watched
  watchAdded, \* the monitor: a check is due at once
  lastBlock,  \* the monitor: last block checked
  check,      \* the monitor: the check in progress
  results,    \* results on their way to the goroutine that waits for them
  cancelledTx,\* transactions reported as cancelled
  txFaults

txVars == <<blocks, pool, nonceStore, stored, pendingTx, sending, watches, watchAdded,
            lastBlock, check, results, cancelledTx, txFaults>>
chainVars == <<blocks, pool, txFaults>>
storeVars == <<nonceStore, stored, pendingTx>>
monitorVars == <<watches, watchAdded, lastBlock, check, results, cancelledTx>>

Call == {"send", "cancel"}
NoCall == [tx |-> NoTx, nonce |-> 0, step |-> "idle"]
NoCheck == [step |-> "wait", block |-> 0, found |-> {}, missing |-> {}]

NonceAt(b) == Cardinality({i \in 1..b : i <= Len(blocks) /\ blocks[i] # NoTx})
MinedTx == {blocks[i] : i \in DOMAIN blocks} \ {NoTx}
PoolNonces == {p.nonce : p \in pool}
PendingNonceAt ==
  LET mined == NonceAt(Len(blocks))
  IN  Min({n \in mined..mined + Cardinality(pool) : n \notin PoolNonces})

TxInit ==
  /\ blocks = <<>> /\ pool = {} /\ txFaults = 0
  /\ nonceStore = NoNonce /\ stored = [t \in Tx |-> NoNonce] /\ pendingTx = {}
  /\ sending = [k \in Call |-> NoCall]
  /\ watches = {} /\ watchAdded = FALSE /\ lastBlock = 0 /\ check = NoCheck
  /\ results = {} /\ cancelledTx = {}

-----------------------------------------------------------------------------
\* The chain (external).
MineTx ==
  /\ Len(blocks) < MaxHeight
  /\ \/ blocks' = Append(blocks, NoTx) /\ UNCHANGED pool
     \/ \E p \in pool :
          /\ p.nonce = NonceAt(Len(blocks))
          /\ blocks' = Append(blocks, p.tx) /\ pool' = {q \in pool : q.nonce # p.nonce}
  /\ UNCHANGED <<txFaults, storeVars, sending, monitorVars>>

Fault == txFaults < MaxTxFaults /\ txFaults' = txFaults + 1

\* The newest block is replaced by one without its transaction, which goes back
\* to the pool or is lost; less than CancellationDepth blocks are ever replaced.
Reorg ==
  /\ Fault /\ blocks # <<>> /\ blocks[Len(blocks)] # NoTx
  /\ blocks' = [blocks EXCEPT ![Len(blocks)] = NoTx]
  /\ pool' \in {pool, pool \cup {[tx |-> blocks[Len(blocks)], nonce |-> NonceAt(Len(blocks)) - 1]}}
  /\ UNCHANGED <<storeVars, sending, monitorVars>>

Drop(p) ==
  /\ Fault /\ pool' = pool \ {p}
  /\ UNCHANGED <<blocks, storeVars, sending, monitorVars>>

\* SendTransaction: a used nonce is refused, a higher price replaces.
Accepts(t, n) ==
  /\ n >= NonceAt(Len(blocks))
  /\ \A p \in pool : p.nonce = n => t[2] = "cancel" /\ p.tx[2] = "request"
InPool(t, n) == {p \in pool : p.nonce # n} \cup {[tx |-> t, nonce |-> n]}

-----------------------------------------------------------------------------
\* Mutant: the nonce comes from the backend alone.
BackendNonce == PendingNonceAt
NextNonce ==
  IF nonceStore = NoNonce \/ PendingNonceAt > nonceStore THEN PendingNonceAt ELSE nonceStore

\* Send takes the lock, chooses a nonce and hands the transaction over.  The
\* call may fail although the transaction is in the pool.
Send(r) ==
  LET t == <<r, "request">> n == NextNonce IN
  /\ sending["send"] = NoCall /\ stored[t] = NoNonce /\ t \notin MinedTx
  /\ \A p \in pool : p.tx # t
  /\ Accepts(t, n) /\ pool' = InPool(t, n)
  /\ \/ sending' = [sending EXCEPT !["send"] = [tx |-> t, nonce |-> n, step |-> "sent"]]
        /\ UNCHANGED txFaults
     \/ Fault /\ UNCHANGED sending
  /\ UNCHANGED <<blocks, storeVars, monitorVars>>

PutNonce ==
  /\ sending["send"].step = "sent"
  /\ nonceStore' = sending["send"].nonce + 1
  /\ sending' = [sending EXCEPT !["send"].step = "nonce"]
  /\ UNCHANGED <<chainVars, stored, pendingTx, monitorVars>>

PutStored(k) ==
  /\ sending[k].step = "nonce"
  /\ stored' = [stored EXCEPT ![sending[k].tx] = sending[k].nonce]
  /\ sending' = [sending EXCEPT ![k].step = "stored"]
  /\ UNCHANGED <<chainVars, nonceStore, pendingTx, monitorVars>>

\* WatchTransaction: the watch is added and the monitor woken.
Watch(ts) == watches' = watches \cup ts /\ watchAdded' = TRUE

\* The pending record, and the goroutine that waits for the receipt.
PutPending(k) ==
  /\ sending[k].step = "stored"
  /\ pendingTx' = pendingTx \cup {sending[k].tx}
  /\ Watch({sending[k].tx}) /\ sending' = [sending EXCEPT ![k] = NoCall]
  /\ UNCHANGED <<chainVars, nonceStore, stored, lastBlock, check, results, cancelledTx>>

ResendTransaction(t) ==
  /\ stored[t] # NoNonce /\ Accepts(t, stored[t]) /\ t \notin MinedTx
  /\ pool' = InPool(t, stored[t])
  /\ UNCHANGED <<blocks, txFaults, storeVars, sending, monitorVars>>

\* CancelTransaction reuses the nonce; it neither locks nor stores a nonce.
CancelTransaction(r) ==
  LET c == <<r, "cancel">> n == stored[<<r, "request">>] IN
  /\ n # NoNonce /\ sending["cancel"] = NoCall /\ stored[c] = NoNonce
  /\ Accepts(c, n) /\ pool' = InPool(c, n)
  /\ sending' = [sending EXCEPT !["cancel"] = [tx |-> c, nonce |-> n, step |-> "nonce"]]
  /\ UNCHANGED <<blocks, txFaults, storeVars, monitorVars>>

-----------------------------------------------------------------------------
\* Mutant: a watch that was added does not trigger a check of its own.
DueOnNewBlock == Len(blocks) > lastBlock
Due == watchAdded \/ Len(blocks) > lastBlock

\* potentiallyConfirmedWatches: their nonce is used.
Confirmable(n) == {t \in watches : stored[t] < n}

\* watchPending wakes up, reads the height and the nonce at that height.
CheckPending ==
  /\ check = NoCheck /\ Due /\ watches # {}
  /\ watchAdded' = FALSE
  /\ check' = [step |-> "receipts", block |-> Len(blocks), found |-> {},
               missing |-> Confirmable(NonceAt(Len(blocks)))]
  /\ UNCHANGED <<chainVars, storeVars, sending, watches, lastBlock, results, cancelledTx>>

\* The receipts of these watches are asked for.
Receipts ==
  /\ check.step = "receipts"
  /\ check' = [step |-> "notify", block |-> check.block,
               found |-> check.missing \cap MinedTx, missing |-> check.missing \ MinedTx]
  /\ UNCHANGED <<chainVars, storeVars, sending, watches, watchAdded, lastBlock, results,
                 cancelledTx>>

\* Mutant: one confirmation of a competing transaction is enough.
FinalAtOnce(block) == NonceAt(block)
\* The nonce that was final when CancellationDepth blocks were on top of it.
FinalNonce(block) == NonceAt(block - CancellationDepth)

\* Subscribers hear of receipts and of final cancellations; the block
\* counts as checked.  The block number must reach back far enough.
Notify ==
  LET gone == {t \in check.missing : stored[t] < FinalNonce(check.block)} IN
  /\ check.step = "notify"
  /\ check.missing # {} => check.block >= CancellationDepth
  /\ results' = results \cup check.found \cup gone
  /\ cancelledTx' = cancelledTx \cup gone
  /\ watches' = watches \ (check.found \cup gone)
  /\ lastBlock' = check.block /\ check' = NoCheck
  /\ UNCHANGED <<chainVars, storeVars, sending, watchAdded>>

\* A call of the backend fails while the chain still grows, or the nonce of a
\* block before the first is asked for: the check is given up.
CheckFails ==
  /\ check # NoCheck
  /\ \/ Fault /\ Len(blocks) < MaxHeight
     \/ /\ check.step = "notify" /\ check.missing # {} /\ check.block < CancellationDepth
        /\ UNCHANGED txFaults
  /\ check' = NoCheck
  /\ UNCHANGED <<blocks, pool, storeVars, sending, watches, watchAdded, lastBlock, results,
                 cancelledTx>>

\* The waiting goroutine takes its result and unregisters the transaction.
Unregister(t) ==
  /\ t \in results /\ results' = results \ {t}
  /\ pendingTx' = pendingTx \ {t}
  /\ UNCHANGED <<chainVars, nonceStore, stored, sending, watches, watchAdded, lastBlock,
                 check, cancelledTx>>

\* The process ends and starts again: NewService watches what is pending.
RestartTx ==
  /\ Fault
  /\ sending' = [k \in Call |-> NoCall] /\ check' = NoCheck /\ results' = {}
  /\ lastBlock' = 0 /\ watches' = pendingTx /\ watchAdded' = (pendingTx # {})
  /\ UNCHANGED <<blocks, pool, storeVars, cancelledTx>>

Monitor == CheckPending \/ Receipts \/ Notify \/ CheckFails

TxNext ==
  \/ MineTx \/ Reorg \/ Monitor \/ PutNonce \/ RestartTx
  \/ \E p \in pool : Drop(p)
  \/ \E r \in Req : Send(r)
  \/ \E r \in Cancellable : CancelTransaction(r)
  \/ \E k \in Call : PutStored(k) \/ PutPending(k)
  \/ \E t \in Tx : ResendTransaction(t) \/ Unregister(t)

\* The monitor's loop runs whenever it can, a waiting goroutine while one can,
\* and the chain keeps growing.
TxFairness ==
  /\ WF_txVars(Monitor) /\ WF_txVars(MineTx)
  /\ WF_txVars(\E t \in Tx : Unregister(t))

TxSpec == TxInit /\ [][TxNext]_txVars /\ TxFairness
-----------------------------------------------------------------------------
(***************************************************************************)
(* Two requests never get the same nonce, whatever was dropped from the    *)
(* pool, reorganised or lost in a crash: no transaction of the node        *)
(* silently replaces another.                                              *)
(***************************************************************************)
NoncesUnique ==
  \A r, q \in Req : LET n == stored[<<r, "request">>] IN
    r # q /\ n # NoNonce => n # stored[<<q, "request">>]

(***************************************************************************)
(* A transaction reported as cancelled is never part of the chain: its     *)
(* nonce was used CancellationDepth blocks deep by another one, and only   *)
(* fewer blocks are ever replaced.                                         *)
(***************************************************************************)
CancelledIsFinal == cancelledTx \cap MinedTx = {}

(***************************************************************************)
(* Again and again no transaction of the chain is left pending: one that   *)
(* is in the chain is unregistered, also when it was mined before it was   *)
(* watched, when the check of its block failed and when the node restarted *)
(* in between.                                                             *)
(***************************************************************************)
MinedIsNoticed == []<>(pendingTx \cap MinedTx = {})
=============================================================================
