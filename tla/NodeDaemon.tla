----------------------------- MODULE NodeDaemon -----------------------------
(***************************************************************************)
(* The processes that share one data directory: the daemon, with its       *)
(* mining loop (internal/daemon/server.go) and its RPC handler "generate"  *)
(* (internal/rpc/server.go), and "xcosh send" (internal/cli/handlers.go).  *)
(* They share the LevelDB database, which one process at a time may open,  *)
(* the file mempool.json, which nothing protects, and wallet.dat (module   *)
(* Wallet), whose first account the daemon mines for.  The variables of    *)
(* module Ledger are those of the process that has the database open.      *)
(***************************************************************************)
EXTENDS LedgerProperties, Wallet

CONSTANTS
    loop, handler,     \* the two goroutines that call MineBlock
    DaemonDifficulty,  \* InitializeLedger(dataDir, 3, ...)
    CliDifficulty,     \* InitializeLedger(dataDir, 1, ...)
    GenerateCounts     \* block counts of "generate" requests, {} for none

ASSUME DaemonAssumption ==
    /\ Threads = {loop, handler} /\ Handlers = {handler} /\ loop # handler
    /\ OldAccounts \in Seq(Addr) /\ Creates \subseteq Addr
    /\ {DaemonDifficulty, CliDifficulty} \subseteq InitialDifficulties
    /\ GenerateCounts \subseteq Nat

VARIABLES
    owner,        \* who has the database open: "none", "daemon" or "cli"
    mempoolFile,  \* mempool.json; unreadable text counts as the empty list
    loopStep,     \* progress of the mining loop
    diskMempool,  \* what the loop read from mempool.json
    request,      \* the "generate" request: [step, left]
    sending,      \* the command-line process: [step, tx, existingMempool]
    submitted,    \* history: transfers whose send command has started
    lapses        \* history: "stopped", the daemon ended after its loop queued
                  \* what mempool.json held and before it cleared the file;
                  \* "kept", a selected transfer stayed in the queue

otherVars  == <<submitted, lapses, walletVars>>
daemonVars == <<owner, mempoolFile, loopStep, diskMempool, request, sending, submitted,
                walletVars>>
allVars    == <<vars, daemonVars, lapses>>

NoRequest == [step |-> "none", left |-> 0]
NotSending == [step |-> "none", tx |-> {}, existingMempool |-> <<>>]

DaemonInit ==
    /\ Init
    /\ owner = "none" /\ mempoolFile = <<>>
    /\ loopStep = "asleep" /\ diskMempool = <<>>
    /\ request = NoRequest /\ sending = NotSending
    /\ submitted = {} /\ lapses = {}
    /\ WalletInit

-----------------------------------------------------------------------------
\* leveldb.OpenFile takes a file lock: a second opener fails, and panics.
NewDatabase(process) == owner = "none" /\ owner' = process

\* wallet.LoadWallet, at the start: Accounts[0], if there is one.
WalletMiner == IF LoadWallet(wallet) = <<>> THEN SYSTEM_MINER ELSE LoadWallet(wallet)[1]

\* The wallet is read a moment before the database is opened; a start at that
\* moment reads the same.
StartDaemon ==
    /\ NewDatabase("daemon")
    /\ InitializeLedger(WalletMiner, DaemonDifficulty)
    /\ UNCHANGED <<mempoolFile, loopStep, diskMempool, request, sending, otherVars>>

Continue(t) == MineStep(t) /\ pc[t] # "idle"

\* The queue drops as many entries as were selected, from its front.
KeepsSelected(t) ==
    pc[t] = "selecting" /\ pc'[t] = "selected"
        /\ ToSet(newBlock[t].txs) \cap ToSet(Mempool') # {}

MiningStep(t) ==
    /\ Continue(t)
    /\ lapses' = IF KeepsSelected(t) THEN lapses \cup {"kept"} ELSE lapses
    /\ UNCHANGED daemonVars

\* Genesis and MineBlock steps of whichever process is running.
LedgerStep ==
    \/ (SpawnGenesis \/ IndexGenesis) /\ UNCHANGED <<daemonVars, lapses>>
    \/ \E t \in Threads : MiningStep(t)

Running == owner = "daemon" /\ status = "up"

ProcessGone ==
    /\ owner' = "none"
    /\ loopStep' = "asleep" /\ diskMempool' = <<>>
    /\ request' = NoRequest /\ sending' = NotSending
    /\ lapses' = IF loopStep \in {"installed", "mining"} /\ mempoolFile # <<>>
                 THEN lapses \cup {"stopped"} ELSE lapses
    /\ UNCHANGED <<mempoolFile, submitted, walletVars>>

\* The process is killed: its memory and its lock go, the files stay.
Kill == Crash /\ ProcessGone

\* RPC "stop" answers and calls os.Exit a second later, whatever the loop and
\* the other handlers are doing by then.  A panic of the loop ends it as well.
Stop == Running /\ ProcessEnds /\ ProcessGone

\* A process with no MineBlock call under way exits.
Exit ==
    /\ status' = "down"
    /\ Chain' = <<>> /\ State' = NoState /\ Mempool' = <<>>
    /\ MinerAddress' = SYSTEM_MINER /\ TargetDifficulty' = 0
    /\ UNCHANGED <<Mu, reorg, locals, disk>>

-----------------------------------------------------------------------------
(* The mining loop of the daemon                                           *)

\* Mutant: the loop waits for two transfers.
LoadMempoolPairs ==
    /\ Running /\ loopStep = "asleep" /\ Len(mempoolFile) > 1
    /\ diskMempool' = mempoolFile
    /\ loopStep' = "loaded"
    /\ UNCHANGED <<vars, owner, mempoolFile, request, sending, otherVars>>

LoadMempool ==
    /\ Running /\ loopStep = "asleep" /\ mempoolFile # <<>>
    /\ diskMempool' = mempoolFile
    /\ loopStep' = "loaded"
    /\ UNCHANGED <<vars, owner, mempoolFile, request, sending, otherVars>>

\* ledger.Mempool = diskMempool, under the lock: what was queued is replaced.
InstallMempool ==
    /\ loopStep = "loaded" /\ Mu = Free
    /\ Mempool' = diskMempool
    /\ loopStep' = "installed"
    /\ UNCHANGED <<status, Chain, State, MinerAddress, TargetDifficulty, Mu, reorg,
                   locals, disk, owner, mempoolFile, diskMempool, request, sending,
                   otherVars>>

LoopMines ==
    /\ loopStep = "installed"
    /\ MineBlock(loop) \/ RejectMiner(loop)
    /\ loopStep' = "mining"
    /\ UNCHANGED <<owner, mempoolFile, diskMempool, request, sending, otherVars>>

\* Mutant: the file keeps what was mined.
LoopClearsNothing ==
    /\ loopStep = "mining" /\ pc[loop] = "idle"
    /\ loopStep' = "asleep" /\ diskMempool' = <<>>
    /\ UNCHANGED <<vars, owner, mempoolFile, request, sending, otherVars>>

\* SaveMempoolToDisk of an empty list, whatever the file holds by now.
LoopClears ==
    /\ loopStep = "mining" /\ pc[loop] = "idle"
    /\ mempoolFile' = <<>>
    /\ loopStep' = "asleep" /\ diskMempool' = <<>>
    /\ UNCHANGED <<vars, owner, request, sending, otherVars>>

-----------------------------------------------------------------------------
(* RPC "generate"                                                          *)

Generate ==
    /\ Running /\ request = NoRequest
    /\ \E n \in GenerateCounts : request' = [step |-> "next", left |-> n]
    /\ UNCHANGED <<vars, owner, mempoolFile, loopStep, diskMempool, sending, otherVars>>

HandlerMines ==
    /\ request.step = "next" /\ request.left > 0
    /\ MineBlock(handler) \/ RejectMiner(handler)
    /\ request' = [request EXCEPT !.step = "mining", !.left = @ - 1]
    /\ UNCHANGED <<owner, mempoolFile, loopStep, diskMempool, sending, otherVars>>

HandlerMined ==
    /\ request.step = "mining" /\ pc[handler] = "idle"
    /\ request' = [request EXCEPT !.step = "next"]
    /\ UNCHANGED <<vars, owner, mempoolFile, loopStep, diskMempool, sending, otherVars>>

\* A panic ends the handler before it rewrites mempool.json.
HandlerPanics ==
    /\ RecoverPanic(handler)
    /\ request' = NoRequest
    /\ UNCHANGED <<owner, mempoolFile, loopStep, diskMempool, sending, otherVars>>

HandlerClears ==
    /\ request.step = "next" /\ request.left = 0
    /\ mempoolFile' = <<>>
    /\ request' = NoRequest
    /\ UNCHANGED <<vars, owner, loopStep, diskMempool, sending, otherVars>>

-----------------------------------------------------------------------------
(* xcosh send                                                              *)

\* Open the database with the sender as miner; every transfer carries a fresh
\* nonce, so it is sent at most once.
HandleSendTx(tx) ==
    /\ tx \notin submitted
    /\ NewDatabase("cli")
    /\ InitializeLedger(tx.from, CliDifficulty)
    /\ sending' = [NotSending EXCEPT !.step = "opening", !.tx = {tx}]
    /\ submitted' = submitted \cup {tx}
    /\ UNCHANGED <<mempoolFile, loopStep, diskMempool, request, lapses, walletVars>>

\* Mutant: the database is closed before the file is rewritten.
ReadMempoolFileAndClose ==
    /\ sending.step = "opening" /\ status = "up"
    /\ sending' = [sending EXCEPT !.step = "read", !.existingMempool = mempoolFile]
    /\ Exit /\ owner' = "none"
    /\ UNCHANGED <<mempoolFile, loopStep, diskMempool, request, otherVars>>

ReadMempoolFile ==
    /\ sending.step = "opening" /\ status = "up"
    /\ sending' = [sending EXCEPT !.step = "read", !.existingMempool = mempoolFile]
    /\ UNCHANGED <<vars, owner, mempoolFile, loopStep, diskMempool, request, otherVars>>

\* os.WriteFile truncates the file before it writes it.
TruncateMempoolFile ==
    /\ sending.step = "read"
    /\ mempoolFile' = <<>>
    /\ sending' = [sending EXCEPT !.step = "truncated"]
    /\ UNCHANGED <<vars, owner, loopStep, diskMempool, request, otherVars>>

\* The new list is written and the process exits.
WriteMempoolFile ==
    /\ sending.step = "truncated"
    /\ mempoolFile' = Append(sending.existingMempool, CHOOSE tx \in sending.tx : TRUE)
    /\ Exit
    /\ owner' = "none" /\ sending' = NotSending
    /\ UNCHANGED <<loopStep, diskMempool, request, otherVars>>

\* "balance", "supply" and "fees" open the database too, which writes a genesis
\* block into an empty one, print, and exit.
HandleCheckBalance ==
    /\ NewDatabase("cli")
    /\ InitializeLedger(SYSTEM_MINER, CliDifficulty)
    /\ sending' = [NotSending EXCEPT !.step = "viewing"]
    /\ UNCHANGED <<mempoolFile, loopStep, diskMempool, request, otherVars>>

BalancePrinted ==
    /\ sending.step = "viewing" /\ status = "up"
    /\ Exit /\ ProcessGone

-----------------------------------------------------------------------------
DaemonNext ==
    \/ StartDaemon \/ LedgerStep \/ Kill \/ Stop
    \/ LoadMempool \/ InstallMempool \/ LoopMines \/ LoopClears
    \/ Generate \/ HandlerMines \/ HandlerMined \/ HandlerPanics \/ HandlerClears
    \/ \E tx \in Transfers : HandleSendTx(tx)
    \/ ReadMempoolFile \/ TruncateMempoolFile \/ WriteMempoolFile
    \/ HandleCheckBalance \/ BalancePrinted
    \/ WalletNext /\ UNCHANGED <<vars, owner, mempoolFile, loopStep, diskMempool, request,
                                  sending, submitted, lapses>>

DaemonSpec == DaemonInit /\ [][DaemonNext]_allVars

\* The loop and the genesis run on their own; the loop gets the mutex if it
\* keeps asking for it; the runtime ends a process whose loop panics.  Nobody
\* promises that a command or a request arrives.
DaemonFairness ==
    /\ \A t \in Threads : WF_allVars(MiningStep(t))
    /\ \A t \in Threads : SF_allVars(CommitBlock(t) /\ UNCHANGED <<daemonVars, lapses>>)
    /\ WF_allVars(LoadMempool) /\ WF_allVars(LoopClears)
    /\ SF_allVars(InstallMempool) /\ SF_allVars(LoopMines)
    /\ WF_allVars(Stop /\ pc[loop] = "panicked")

LiveDaemonSpec == DaemonSpec /\ DaemonFairness
-----------------------------------------------------------------------------
\* The send command's read-modify-write of mempool.json is not interleaved
\* with another process, although the file has no lock of its own: the
\* database is held across it (handlers.go:170-182, storage/db.go:33).
SendAtomic ==
    sending.step = "read" => mempoolFile = sending.existingMempool

\* A transfer is executed at most once, however often mempool.json is read
\* again and whoever mines, but for two lapses: the daemon ends between mining
\* and clearing the file (daemon/server.go:117-123), or a transfer that was
\* selected stays in the queue because one before it was skipped
\* (ledger.go:352-354, 371-373).
MinedOnce ==
    lapses = {} =>
        \A i, k \in DOMAIN Chain :
            \A j \in DOMAIN Chain[i].txs, l \in DOMAIN Chain[k].txs :
                Chain[i].txs[j] = Chain[k].txs[l] => <<i, j>> = <<k, l>>

\* The pending queue holds no transfer that has been mined already, as long as
\* no daemon ended before it cleared mempool.json (ledger.go:242, 371-373).
PendingNotMined ==
    "stopped" \notin lapses =>
        \A i \in DOMAIN Chain : ToSet(Chain[i].txs) \cap ToSet(Mempool) = {}

\* However often it restarts, and whatever is created meanwhile, the daemon mines
\* for the oldest account of the wallet, or for none (daemon/server.go:37-43).
MinesForOldest ==
    Running /\ ~harmed => MinerAddress \in {OldAccounts[1], SYSTEM_MINER}

\* Transfers waiting in mempool.json are taken off it while the daemon lives,
\* also when "generate" requests keep competing for the ledger
\* (daemon/server.go:112-126).
PendingTaken ==
    Running /\ mempoolFile # <<>>
      ~> \/ mempoolFile = <<>> \/ ~Running
         \/ Tip(Chain).index >= MaxHeight      \* the bound of the model
=============================================================================
