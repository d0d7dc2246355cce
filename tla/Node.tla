-------------------------------- MODULE Node --------------------------------
(***************************************************************************)
(* The life of the process: "ant start" makes or reads the node's key,     *)
(* NewAnt opens the parts of the node one after another, a signal or a     *)
(* failing contract event shuts them down (pkg/node, cmd/ant/cmd/start.go, *)
(* pkg/settlement/swap/chequebook/init.go, pkg/keystore/file).             *)
(*                                                                         *)
(* The process may crash, or a step of NewAnt may fail, anywhere: what is  *)
(* on disk and on the chain is kept, the rest is lost.  The operator may   *)
(* start it again with other options.                                      *)
(***************************************************************************)
EXTENDS Integers, Sequences

CONSTANTS Modes,       \* the sets of enabled features an operator starts it with
          MaxStarts,   \* bound on the starts of the process
          MaxForks,    \* bound on the reorganisations of the chain
          MaxDeploys   \* bound on the deployment transactions

VARIABLES keyFile,     \* the file of the "sana" key: -1 absent, 0 empty, else the key
          dep, bookKey, \* ChequebookDeploymentKey and chequebookKey, 0 if absent
          savedOverlay, \* secureOverlayKey, None if absent
          deploys,     \* the deployment transactions: "pending", "mined" or "failed"
          fork,        \* how often the chain was reorganised
          funds,       \* the account has the gas and the tokens of the initial deposit
          funded,      \* the chequebooks an initial deposit was sent to
          pc,          \* where main is
          opts,        \* the options of this start
          key, tx, overlay,    \* locals of NewAnt
          opened, closed,      \* the parts of the node (the fields of Ant) set and closed
          stage,       \* how far Shutdown is, 0 before it is called
          by,          \* who called Shutdown
          closeErr,    \* mErr # nil
          worker,      \* the syncer's goroutine runs
          announced,   \* the overlays libp2p was ever started with
          starts

disk == <<keyFile, dep, bookKey, savedOverlay>>
nodeChain == <<deploys, fork, funds, funded>>
locals == <<opts, key, tx, overlay>>
parts == <<opened, closed, stage, by, closeErr, worker>>
nodeVars == <<disk, nodeChain, pc, locals, parts, announced, starts>>

None == <<0, 0, 0>>

On(feature) == feature \in opts.mode

At(a, b) == pc = a /\ pc' = b

(***************************************************************************)
(* The overlay is the hash of the key and of a block hash: the option's,   *)
(* <<0, 0>>, or that of the block after the transaction's, which a         *)
(* reorganisation changes.                                                 *)
(***************************************************************************)
NewOverlayAddress(t) == IF opts.block THEN <<key, 0, 0>> ELSE <<key, t, fork>>

NodeInit ==
    /\ keyFile = -1 /\ dep = 0 /\ bookKey = 0 /\ savedOverlay = None
    /\ deploys = <<>> /\ fork = 0 /\ funds = FALSE /\ funded = {}
    /\ pc = "off" /\ opts = [mode |-> {}, tx |-> 0, block |-> FALSE]
    /\ key = 0 /\ tx = 0 /\ overlay = None
    /\ opened = {} /\ closed = {} /\ stage = 0 /\ by = "none"
    /\ closeErr = FALSE /\ worker = FALSE
    /\ announced = {} /\ starts = 0

---------------------------------------------------------------------------
(* The chain and the operator.                                             *)

Mine(i) ==
    /\ deploys[i] = "pending"
    /\ \E r \in {"mined", "failed"} : deploys' = [deploys EXCEPT ![i] = r]
    /\ UNCHANGED <<disk, fork, funds, funded, pc, locals, parts, announced, starts>>

Reorganise ==
    /\ fork < MaxForks /\ fork' = fork + 1
    /\ UNCHANGED <<disk, deploys, funds, funded, pc, locals, parts, announced, starts>>

Fund ==
    /\ ~funds /\ funded = {} /\ funds' = TRUE
    /\ UNCHANGED <<disk, deploys, fork, funded, pc, locals, parts, announced, starts>>

(***************************************************************************)
(* Every end of the process: a crash, an error NewAnt returns, a kill.     *)
(***************************************************************************)
Exit ==
    /\ pc' = "off" /\ opts' = [mode |-> {}, tx |-> 0, block |-> FALSE]
    /\ key' = 0 /\ tx' = 0 /\ overlay' = None
    /\ opened' = {} /\ closed' = {} /\ stage' = 0 /\ by' = "none"
    /\ closeErr' = FALSE /\ worker' = FALSE
    /\ UNCHANGED <<disk, nodeChain, announced, starts>>

StartFails == pc \notin {"off", "running", "stopping"} /\ Exit

ProcessCrash == pc \in {"running", "stopping"} /\ Exit

---------------------------------------------------------------------------
(* ant start: options and keys.                                            *)

Start ==
    /\ starts < MaxStarts /\ starts' = starts + 1
    /\ At("off", "signer")
    /\ \E m \in Modes, t \in {0, 1}, b \in BOOLEAN : opts' = [mode |-> m, tx |-> t, block |-> b]
    /\ UNCHANGED <<disk, nodeChain, key, tx, overlay, parts, announced>>

(***************************************************************************)
(* Key: an absent or an empty file gets a new key.  The file is created    *)
(* before its bytes are in it.                                             *)
(***************************************************************************)
ReadKey ==
    /\ keyFile > 0 /\ key' = keyFile
    /\ At("signer", "statestore")
    /\ UNCHANGED <<disk, nodeChain, opts, tx, overlay, parts, announced, starts>>

GenerateKey ==
    /\ keyFile <= 0 /\ keyFile' = 0 /\ key' = starts
    /\ At("signer", "writeKey")
    /\ UNCHANGED <<dep, bookKey, savedOverlay, nodeChain, opts, tx, overlay, parts, announced, starts>>

WriteKey ==
    /\ keyFile' = key
    /\ At("writeKey", "statestore")
    /\ UNCHANGED <<dep, bookKey, savedOverlay, nodeChain, locals, parts, announced, starts>>

---------------------------------------------------------------------------
(* NewAnt up to the overlay.                                               *)

Opens(new) == opened' = opened \union new /\ UNCHANGED <<closed, stage, by, closeErr, worker>>

Other == UNCHANGED <<disk, nodeChain, locals, announced, starts>>

InitStateStore == At("statestore", "chain") /\ Opens({"tracer", "statestore"}) /\ Other

InitChain ==
    /\ At("chain", "debug")
    /\ Opens(IF On("standalone") THEN {} ELSE {"monitor"})
    /\ Other

OpenDebugAPI ==
    /\ pc = "debug" /\ pc' = IF On("standalone") THEN "txHash" ELSE "backend"
    /\ Opens({"servers"}) /\ Other

(***************************************************************************)
(* Swap needs the chain: with standalone its steps dereference nil.        *)
(***************************************************************************)
WaitSynced ==
    /\ pc = "backend" /\ pc' = IF On("swap") THEN "factory" ELSE "txHash"
    /\ Other /\ UNCHANGED parts

InitChequebookFactory == At("factory", "chequebook") /\ Other /\ UNCHANGED parts

(***************************************************************************)
(* chequebook.Init: use the stored chequebook; else wait for the stored    *)
(* deployment; else check the balance and deploy.                          *)
(***************************************************************************)
LookUpChequebook ==
    /\ pc = "chequebook"
    /\ pc' = IF bookKey # 0 THEN "verify"
             ELSE IF dep # 0 THEN "waitDeployed"
             ELSE IF On("deposit") THEN "balance" ELSE "deploy"
    /\ Other /\ UNCHANGED parts

CheckBalance == funds /\ At("balance", "deploy") /\ Other /\ UNCHANGED parts

Deploy ==
    /\ Len(deploys) < MaxDeploys
    /\ At("deploy", "saveDeployment")
    /\ deploys' = Append(deploys, "pending")
    /\ tx' = Len(deploys')
    /\ UNCHANGED <<disk, fork, funds, funded, opts, key, overlay, parts, announced, starts>>

SaveDeployment ==
    /\ At("saveDeployment", "waitDeployed")
    /\ dep' = tx
    /\ UNCHANGED <<keyFile, bookKey, savedOverlay, nodeChain, locals, parts, announced, starts>>

WaitDeployed ==
    /\ At("waitDeployed", "saveBook")
    /\ deploys[dep] = "mined"
    /\ Other /\ UNCHANGED parts

SaveChequebook ==
    /\ pc = "saveBook" /\ pc' = IF On("deposit") THEN "deposit" ELSE "verify"
    /\ bookKey' = dep
    /\ UNCHANGED <<keyFile, dep, savedOverlay, nodeChain, locals, parts, announced, starts>>

InitialDeposit ==
    /\ funds /\ At("deposit", "verify")
    /\ funds' = FALSE /\ funded' = funded \union {bookKey}
    /\ UNCHANGED <<disk, deploys, fork, locals, parts, announced, starts>>

VerifyChequebook == At("verify", "txHash") /\ Other /\ UNCHANGED parts

(***************************************************************************)
(* The transaction of the overlay: the option or the stored deployment.    *)
(***************************************************************************)
GetTxHash ==
    /\ opts.tx # 0 \/ dep # 0
    /\ At("txHash", "block")
    /\ tx' = IF opts.tx # 0 THEN opts.tx ELSE dep
    /\ UNCHANGED <<disk, nodeChain, opts, key, overlay, parts, announced, starts>>

GetTxNextBlock ==
    /\ At("block", "overlay")
    /\ opts.block \/ (~On("standalone") /\ tx <= Len(deploys) /\ deploys[tx] # "pending")
    /\ overlay' = NewOverlayAddress(tx)
    /\ UNCHANGED <<disk, nodeChain, opts, key, tx, parts, announced, starts>>

\* Mutant: the stored overlay is replaced by the new one.
CheckForgets ==
    /\ At("overlay", "p2p")
    /\ savedOverlay' = overlay
    /\ UNCHANGED <<keyFile, dep, bookKey, nodeChain, locals, parts, announced, starts>>

CheckOverlayWithStore ==
    /\ savedOverlay \in {None, overlay}
    /\ At("overlay", "p2p")
    /\ savedOverlay' = overlay
    /\ UNCHANGED <<keyFile, dep, bookKey, nodeChain, locals, parts, announced, starts>>

---------------------------------------------------------------------------
(* NewAnt from the overlay on.                                             *)

StartP2P ==
    /\ At("p2p", "stores") /\ Opens({"p2p"})
    /\ announced' = announced \union {overlay}
    /\ UNCHANGED <<disk, nodeChain, locals, starts>>

OpenStores ==
    /\ pc = "stores" /\ pc' = IF On("standalone") THEN "protocols" ELSE "contracts"
    /\ Opens({"localstore", "postage"}) /\ Other

ChainServices ==
    /\ pc = "contracts" /\ pc' = IF On("mine") THEN "mine" ELSE "protocols"
    /\ Opens({"syncer"}) /\ Other

MineServices == At("mine", "protocols") /\ Opens({"mine"}) /\ Other

Protocols == At("protocols", "topology") /\ Other /\ UNCHANGED parts

Topology ==
    /\ pc = "topology" /\ pc' = IF On("standalone") THEN "accounting" ELSE "worker"
    /\ Opens({"topology"}) /\ Other

StartWorker ==
    /\ At("worker", "sync") /\ worker' = TRUE
    /\ UNCHANGED <<opened, closed, stage, by, closeErr>> /\ Other

(***************************************************************************)
(* The syncer has no more pages: NewAnt goes on and starts the miner.      *)
(***************************************************************************)
Synced == worker /\ At("sync", "accounting") /\ Other /\ UNCHANGED parts

Accounting ==
    /\ pc = "accounting" /\ pc' = IF On("swap") THEN "swap" ELSE "services"
    /\ Opens({"accounting"}) /\ Other

InitSwap == At("swap", "services") /\ Opens({"oracle"}) /\ Other

Services ==
    /\ At("services", "api") /\ Other
    /\ Opens({"tags", "pss", "pusher", "pullsync"} \union (IF On("full") THEN {"puller"} ELSE {}))

StartAPI == At("api", "ready") /\ Opens({"resolver", "api"}) /\ Other

Ready == At("ready", "running") /\ Other /\ UNCHANGED parts

---------------------------------------------------------------------------
(* Shutdown.  The parts of a stage close concurrently, and the next stage  *)
(* waits for them all.                                                     *)

\* Mutant: the state store is closed before the tags are saved in it.
EarlyStore == <<{"api"}, {"servers"}, {"pss", "pusher", "puller", "accounting", "mine", "pullsync"},
                {"p2p"}, {"oracle"}, {"monitor", "syncer", "postage"}, {"tracer"}, {"statestore"},
                {"tags"}, {"topology"}, {"localstore"}, {"resolver"}>>

Order == <<{"api"}, {"servers"}, {"pss", "pusher", "puller", "accounting", "mine", "pullsync"},
           {"p2p"}, {"oracle"}, {"monitor", "syncer", "postage"}, {"tracer"}, {"tags"},
           {"topology"}, {"statestore"}, {"localstore"}, {"resolver"}>>

(***************************************************************************)
(* The first caller shuts the node down, a later one is told that it is    *)
(* in progress.                                                            *)
(***************************************************************************)
Shutdown(who) ==
    /\ stage = 0 /\ stage' = 1 /\ by' = who
    /\ UNCHANGED <<opened, closed, closeErr>>

Signal == /\ At("running", "stopping")
          /\ IF stage = 0 THEN Shutdown("main") /\ UNCHANGED worker ELSE UNCHANGED parts
          /\ Other

(***************************************************************************)
(* An event of a contract that cannot be applied ends the syncer, which    *)
(* shuts the node down itself, whatever main is doing.                     *)
(***************************************************************************)
EventFails ==
    /\ worker /\ worker' = FALSE
    /\ IF stage = 0 THEN Shutdown("syncer") ELSE UNCHANGED <<opened, closed, stage, by, closeErr>>
    /\ UNCHANGED pc /\ Other

CloseStage ==
    /\ stage \in 1..Len(Order) /\ stage' = stage + 1
    /\ closed' = closed \union (Order[stage] \intersect opened)
    /\ closeErr' \in IF Order[stage] \intersect opened = {} THEN {closeErr} ELSE {closeErr, TRUE}
    /\ worker' = (worker /\ "syncer" \notin Order[stage])
    /\ UNCHANGED <<opened, by, pc>> /\ Other

(***************************************************************************)
(* pidKiller kills the process only if Shutdown returned no error.         *)
(***************************************************************************)
Kill == by = "syncer" /\ stage > Len(Order) /\ ~closeErr /\ Exit

(***************************************************************************)
(* main ends when its Shutdown returns, or at a second signal.             *)
(***************************************************************************)
Stopped == /\ pc = "stopping"
           /\ by = "syncer" \/ stage > Len(Order)
           /\ Exit

SecondSignal == pc = "stopping" /\ Exit

---------------------------------------------------------------------------

NodeNext ==
    \/ \E i \in DOMAIN deploys : Mine(i)
    \/ Reorganise \/ Fund \/ StartFails \/ ProcessCrash
    \/ Start \/ ReadKey \/ GenerateKey \/ WriteKey \/ InitStateStore \/ InitChain
    \/ OpenDebugAPI \/ WaitSynced \/ InitChequebookFactory
    \/ LookUpChequebook \/ CheckBalance \/ Deploy \/ SaveDeployment \/ WaitDeployed
    \/ SaveChequebook \/ InitialDeposit \/ VerifyChequebook
    \/ GetTxHash \/ GetTxNextBlock \/ CheckOverlayWithStore
    \/ StartP2P \/ OpenStores \/ ChainServices \/ MineServices \/ Protocols \/ Topology
    \/ StartWorker \/ Synced \/ Accounting \/ InitSwap \/ Services \/ StartAPI \/ Ready
    \/ Signal \/ EventFails \/ CloseStage \/ Kill \/ Stopped \/ SecondSignal

NodeSpec == NodeInit /\ [][NodeNext]_nodeVars

---------------------------------------------------------------------------
(***************************************************************************)
(* Whatever crashes, options and reorganisations come between its starts,  *)
(* the node is one node: the network only ever meets it under one overlay  *)
(* address, and the initial deposit only ever goes to the chequebook it    *)
(* finds again at the next start (CheckOverlayWithStore, chequebook.Init). *)
(***************************************************************************)
OneIdentity ==
    /\ \A x, y \in announced : x = y
    /\ funded \subseteq {bookKey}

\* The parts that write to a store in their Close, or until it returns.  One is
\* left out: the local store, whose eviction worker takes entries off the queue
\* in the state store and which Shutdown closes after it.
Writers == [statestore |-> {"puller", "accounting", "mine", "p2p", "syncer", "postage", "tags", "topology"},
            localstore |-> {"api", "pusher", "puller", "pullsync", "p2p"}]

(***************************************************************************)
(* A part that writes to a store, the local store's own eviction worker    *)
(* apart, is closed before that store, when the node was complete at       *)
(* Shutdown.                                                               *)
(***************************************************************************)
StoresCloseLast ==
    by = "main" =>
        \A s \in DOMAIN Writers : s \in closed => Writers[s] \intersect opened \subseteq closed
=============================================================================
