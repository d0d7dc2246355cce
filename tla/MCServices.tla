----------------------------- MODULE MCServices -----------------------------
(***************************************************************************)
(* The transaction service, the mine worker and retrieval, side by side. A *)
(* behaviour chooses one of them and runs it alone, under the fairness of  *)
(* that one.                                                               *)
(***************************************************************************)
EXTENDS Retrieval, Transactions, MineWorker

VARIABLE part  \* the component that runs

-----------------------------------------------------------------------------
MCInit ==
  /\ part \in {"retrieval", "transactions", "mine"}
  /\ Init /\ TxInit /\ MineInit

MCNext ==
  \/ /\ part = "retrieval" /\ Next
     /\ UNCHANGED <<part, txVars, mineVars>>
  \/ /\ part = "transactions" /\ TxNext
     /\ UNCHANGED <<part, retVars, mineVars>>
  \/ /\ part = "mine" /\ MineNext
     /\ UNCHANGED <<part, retVars, txVars>>

mcVars == <<part, retVars, txVars, mineVars>>

\* The fairness of the part that runs, as its module states it.
MCFairness ==
  /\ WF_txVars(part = "transactions" /\ Monitor)
  /\ WF_txVars(part = "transactions" /\ MineTx)
  /\ WF_txVars(part = "transactions" /\ \E t \in Tx : Unregister(t))
  /\ WF_mineVars(part = "mine" /\ Worker)
  /\ WF_mineVars(part = "mine" /\ NothingComes /\ Timeout)
  /\ WF_mineVars(part = "mine" /\ \E i \in CallId : Listen(i) \/ ReleaseWait(i))
  /\ WF_mineVars(part = "mine" /\ \E a \in CallId \X TrustNodes : HandleSignRet(a))
  /\ WF_mineVars(part = "mine" /\ \E t \in {"deposit", "active"} : AcceptTx(t))
  /\ \A f \in Flight : WF_retVars(part = "retrieval" /\ Loop(f))
  /\ \A a \in Request : WF_retVars(part = "retrieval" /\ Attempt(a))

MCSpec == MCInit /\ [][MCNext]_mcVars /\ MCFairness
-----------------------------------------------------------------------------
\* The worker goes on until the node is active or its lock stalls (mine worker).
WorksUnlessStalled == part = "mine" => WorkerGoesOn
=============================================================================
