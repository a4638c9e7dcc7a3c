------------------------------- MODULE Ledger -------------------------------
(***************************************************************************)
(* The ledger process: LedgerCore (node/ledger.go) over its LevelDB        *)
(* storage (storage/db.go).                                                *)
(*                                                                         *)
(* MineBlock runs in several goroutines: the daemon's loop and one HTTP    *)
(* handler per "generate" request.  It holds the mutex while it selects    *)
(* transfers and again while it commits, and not in between, so it is cut  *)
(* into one action per access to shared state.  Storage writes are cut     *)
(* where a crash leaves something behind: every Put and Delete is a step.  *)
(***************************************************************************)
EXTENDS Core
LOCAL INSTANCE SequencesExt   \* Reverse
LOCAL INSTANCE Functions      \* Bijection

CONSTANTS
    Threads,             \* goroutines that call MineBlock
    Handlers,            \* those run by net/http, which recovers their panics
    MinerChoices,        \* addresses the process may be started with
    InitialDifficulties, \* difficulties InitializeLedger is called with
    GenesisHashes,       \* [difficulty -> hashes mining the genesis may find]
    GenesisTime,         \* genesisTimestamp
    LegacyGenesis,       \* genesis block of an older release
    Clock,               \* readings of time.Now().Unix()
    HeaderReserve,       \* the 512 bytes MineBlock sets aside for the header
    MayCrash,            \* may the process end?
    DiskFaults,          \* may a LevelDB write fail?
    Reorgs,              \* may a caller roll back and append blocks?
    PeerTransfers,       \* transfer lists of the blocks it appends
    MaxHeight,           \* bound: highest block index mined
    MaxMempool           \* bound: transfers queued in memory

ASSUME ThreadAssumption == Handlers \subseteq Threads /\ "free" \notin Threads
ASSUME MinerAssumption  == MinerChoices \subseteq Miners
ASSUME GenesisAssumption ==
    /\ InitialDifficulties \subseteq Nat
    /\ GenesisHashes \in [InitialDifficulties -> SUBSET Hash]
    /\ GenesisTime \in Nat \ {0}
    /\ LegacyGenesis \in Block /\ LegacyGenesis.policy = "legacy"
    /\ LegacyGenesis.hash # NoHash
ASSUME ClockAssumption == Clock \subseteq Nat
ASSUME PeerAssumption  == PeerTransfers \subseteq Seq(Transfers)
ASSUME BoundAssumption ==
    /\ HeaderReserve \in 0 .. MaxBlockSizeBytes
    /\ MaxHeight \in Nat /\ MaxMempool \in Nat
    /\ {MayCrash, DiskFaults, Reorgs} \subseteq BOOLEAN

VARIABLES
    status,            \* "down", "spawning" / "indexing" the genesis, "up"
    Chain, State, Mempool, MinerAddress,   \* fields of LedgerCore
    TargetDifficulty,  \* Engine.TargetDifficulty, shared by all miners
    Mu,                \* holder of the mutex
    reorg,             \* RollbackBlock / AppendBlockDirectly: [step, block]
    pc,                \* progress of each MineBlock call
    parent, newBlock, feeTotal, currentSupply, cursor, blockBytes,  \* its locals
    blocks, lastIndex  \* LevelDB: the block_N keys and last_index

memory  == <<Chain, State, Mempool, MinerAddress, TargetDifficulty>>
locals  == <<pc, parent, newBlock, feeTotal, currentSupply, cursor, blockBytes>>
disk    == <<blocks, lastIndex>>
vars    == <<status, memory, Mu, reorg, locals, disk>>

Free    == "free"
NoIndex == -1
Heights == 0 .. MaxHeight

PcStates == {"idle", "selecting", "selected", "priced", "retargeted", "assembled",
             "mined", "saved", "unsaved", "panicked"}

NoReorg == [step |-> "none", block |-> NoBlock]

Idle == \A t \in Threads : pc[t] = "idle"

-----------------------------------------------------------------------------
(* Storage                                                                 *)

\* The blocks a restart reads: block_0 up to last_index, cut at a missing key.
LoadedLength ==
    CHOOSE n \in 0 .. lastIndex + 1 :
        /\ \A i \in 0 .. n - 1 : blocks[i] # NoBlock
        /\ n = lastIndex + 1 \/ blocks[n] = NoBlock
LoadedChain == [i \in 1 .. LoadedLength |-> blocks[i-1]]

\* Mutants: keys that are off by one.
PutBlockOffByOne(b)     == blocks' = [blocks EXCEPT ![b.index - 1] = b]
PutLastIndexOffByOne(n) == lastIndex' = n - 1

PutBlock(b)     == blocks' = [blocks EXCEPT ![b.index] = b]
PutLastIndex(n) == lastIndex' = n

-----------------------------------------------------------------------------
(* Start, genesis and crash                                                *)

PerThread(x) == [t \in Threads |-> x]

Init ==
    /\ status = "down"
    /\ Chain = <<>> /\ State = NoState /\ Mempool = <<>>
    /\ MinerAddress = SYSTEM_MINER /\ TargetDifficulty = 0
    /\ Mu = Free /\ reorg = NoReorg
    /\ pc = PerThread("idle")
    /\ parent = PerThread(NoBlock) /\ newBlock = PerThread(NoBlock)
    /\ feeTotal = PerThread(0) /\ currentSupply = PerThread(0)
    /\ cursor = PerThread(0) /\ blockBytes = PerThread(0)
    /\ \/ blocks = [n \in Heights |-> NoBlock] /\ lastIndex = NoIndex
       \/ blocks = [n \in Heights |-> IF n = 0 THEN LegacyGenesis ELSE NoBlock]
          /\ lastIndex = 0

\* VerifyConsensusIntegrity: checkpoints and the cap, on the blocks just read.
ConsensusIntegrity(chain) ==
    /\ \A i \in 1 .. Len(chain) : VerifyCheckpoint(i - 1, chain[i].hash)
    /\ GetTotalCirculatingSupply(chain) <= MaxSupply

\* InitializeLedger up to the point where the chain is loaded or a genesis
\* block has to be spawned.  When the integrity check panics nothing changes.
InitializeLedger(miner, difficulty) ==
    /\ status = "down"
    /\ MinerAddress' = miner
    /\ TargetDifficulty' = difficulty
    /\ \/ /\ LoadedChain = <<>>
          /\ status' = "spawning"
          /\ UNCHANGED <<Chain, State, disk>>
       \/ /\ LoadedChain # <<>> /\ LoadedChain[1].policy # "current"
          /\ \/ blocks' = [n \in Heights |-> NoBlock]    \* ClearAll: one batch
                /\ lastIndex' = NoIndex
             \/ DiskFaults /\ UNCHANGED disk
          /\ status' = "spawning"
          /\ UNCHANGED <<Chain, State>>
       \/ /\ LoadedChain # <<>> /\ LoadedChain[1].policy = "current"
          /\ ConsensusIntegrity(LoadedChain)
          /\ Chain' = LoadedChain
          /\ State' = Replay(LoadedChain)
          /\ status' = "up"
          /\ UNCHANGED disk
    /\ UNCHANGED <<Mempool, Mu, reorg, locals>>

\* SpawnGenesis, first write: the block key.
SpawnGenesis ==
    /\ status = "spawning"
    /\ \E h \in GenesisHashes[TargetDifficulty] :
         LET genesis == [NoBlock EXCEPT !.hash = h, !.work = TargetDifficulty,
                           !.time = GenesisTime, !.diff = TargetDifficulty,
                           !.reward = CalculateBlockReward(0)]
         IN  /\ Chain' = <<genesis>>
             /\ \/ PutBlock(genesis) /\ status' = "indexing"
                \/ DiskFaults /\ UNCHANGED blocks /\ status' = "up"
    /\ UNCHANGED <<State, Mempool, MinerAddress, TargetDifficulty, Mu, reorg, locals,
                   lastIndex>>

\* SpawnGenesis, second write: last_index.
IndexGenesis ==
    /\ status = "indexing"
    /\ status' = "up"
    /\ PutLastIndex(0) \/ (DiskFaults /\ UNCHANGED lastIndex)
    /\ UNCHANGED <<memory, Mu, reorg, locals, blocks>>

\* The process ends wherever it is: memory is gone, storage stays as it is.
ProcessEnds ==
    /\ status # "down"
    /\ status' = "down"
    /\ Chain' = <<>> /\ State' = NoState /\ Mempool' = <<>>
    /\ MinerAddress' = SYSTEM_MINER /\ TargetDifficulty' = 0
    /\ Mu' = Free /\ reorg' = NoReorg
    /\ pc' = PerThread("idle")
    /\ parent' = PerThread(NoBlock) /\ newBlock' = PerThread(NoBlock)
    /\ feeTotal' = PerThread(0) /\ currentSupply' = PerThread(0)
    /\ cursor' = PerThread(0) /\ blockBytes' = PerThread(0)
    /\ UNCHANGED disk

\* It is killed, or a goroutine that is not an HTTP handler panics.
Crash == MayCrash /\ ProcessEnds

\* net/http recovers the panic of a handler; the process goes on.
RecoverPanic(t) ==
    /\ pc[t] = "panicked" /\ t \in Handlers
    /\ pc' = [pc EXCEPT ![t] = "idle"]
    /\ UNCHANGED <<status, memory, Mu, reorg, parent, newBlock, feeTotal,
                   currentSupply, cursor, blockBytes, disk>>

-----------------------------------------------------------------------------
(* MineBlock                                                               *)

\* Mutants: the mutex is taken while it is held; it is not given back.
LockBusy(t)     == Mu' = t
UnlockForgotten == UNCHANGED Mu

Lock(t) == Mu = Free /\ Mu' = t
Unlock  == Mu' = Free

\* Mutant: a block takes its height's place in the slice.
AppendAtHeight(b) == Chain' = Append(SubSeq(Chain, 1, b.index), b)

AppendBlock(b) == Chain' = Append(Chain, b)

Finish(t, how) ==
    /\ pc'            = [pc            EXCEPT ![t] = how]
    /\ parent'        = [parent        EXCEPT ![t] = NoBlock]
    /\ newBlock'      = [newBlock      EXCEPT ![t] = NoBlock]
    /\ feeTotal'      = [feeTotal      EXCEPT ![t] = 0]
    /\ currentSupply' = [currentSupply EXCEPT ![t] = 0]
    /\ cursor'        = [cursor        EXCEPT ![t] = 0]
    /\ blockBytes'    = [blockBytes    EXCEPT ![t] = 0]

CanMine(t) == status = "up" /\ reorg = NoReorg /\ pc[t] = "idle"

RejectMiner(t) ==
    /\ CanMine(t)
    /\ MinerAddress # SYSTEM_GENESIS /\ ~HasPrefix(MinerAddress)
    /\ pc' = [pc EXCEPT ![t] = "panicked"]
    /\ UNCHANGED <<status, memory, Mu, reorg, parent, newBlock, feeTotal,
                   currentSupply, cursor, blockBytes, disk>>

\* Lock; take the tip as parent.
MineBlock(t) ==
    /\ CanMine(t)
    /\ MinerAddress = SYSTEM_GENESIS \/ HasPrefix(MinerAddress)
    /\ Tip(Chain).index < MaxHeight
    /\ Lock(t)
    /\ pc'         = [pc         EXCEPT ![t] = "selecting"]
    /\ parent'     = [parent     EXCEPT ![t] = Tip(Chain)]
    /\ cursor'     = [cursor     EXCEPT ![t] = 1]
    /\ blockBytes' = [blockBytes EXCEPT ![t] = HeaderReserve]
    /\ UNCHANGED <<status, memory, reorg, newBlock, feeTotal, currentSupply, disk>>

Candidate(t) == Mempool[cursor[t]]
AtTransfer(t) == pc[t] = "selecting" /\ cursor[t] <= Len(Mempool)
\* Mutant: the size of the next transfer is not counted.
FitsUncounted(t) == blockBytes[t] <= MaxBlockSizeBytes
Fits(t) == blockBytes[t] + Candidate(t).size <= MaxBlockSizeBytes
\* Mutant: nobody looks at the sender's balance.
AffordableAlways(t) == TRUE
Affordable(t) == State[Candidate(t).from].balance >= Cost(Candidate(t))

\* The transfer at the cursor is executed on the account state at once.
SelectTransfer(t) ==
    /\ AtTransfer(t) /\ Fits(t) /\ Affordable(t)
    /\ LET tx == Candidate(t)
           debited == [State EXCEPT ![tx.from].balance = @ - Cost(tx),
                                    ![tx.from].nonce   = @ + 1]
       IN  /\ State'      = Credit(debited, tx.to, tx.value)
           /\ feeTotal'   = [feeTotal   EXCEPT ![t] = Plus(@, tx.fee)]
           /\ blockBytes' = [blockBytes EXCEPT ![t] = @ + tx.size]
           /\ newBlock'   = [newBlock   EXCEPT ![t].txs = Append(@, tx)]
    /\ cursor' = [cursor EXCEPT ![t] = @ + 1]
    /\ UNCHANGED <<status, Chain, Mempool, MinerAddress, TargetDifficulty, Mu, reorg,
                   pc, parent, currentSupply, disk>>

\* The sender cannot pay: "continue", the transfer stays where it is.
SkipTransfer(t) ==
    /\ AtTransfer(t) /\ Fits(t) /\ ~Affordable(t)
    /\ cursor' = [cursor EXCEPT ![t] = @ + 1]
    /\ UNCHANGED <<status, memory, Mu, reorg, pc, parent, newBlock, feeTotal,
                   currentSupply, blockBytes, disk>>

\* End of the mempool or no room left: as many entries as were selected leave
\* the front of the mempool; unlock.
FinishSelection(t) ==
    /\ pc[t] = "selecting"
    /\ AtTransfer(t) => ~Fits(t)
    /\ Mempool' = SubSeq(Mempool, Len(newBlock[t].txs) + 1, Len(Mempool))
    /\ Unlock
    /\ pc'         = [pc         EXCEPT ![t] = "selected"]
    /\ cursor'     = [cursor     EXCEPT ![t] = 0]
    /\ blockBytes' = [blockBytes EXCEPT ![t] = 0]
    /\ UNCHANGED <<status, Chain, State, MinerAddress, TargetDifficulty, reorg,
                   parent, newBlock, feeTotal, currentSupply, disk>>

\* Without the lock: read the chain for the supply and fix the reward.
ComputeReward(t) ==
    /\ pc[t] = "selected"
    /\ LET supply == GetTotalCirculatingSupply(Chain)
       IN  /\ currentSupply' = [currentSupply EXCEPT ![t] = supply]
           /\ newBlock' = [newBlock EXCEPT
                 ![t].reward = AllowedReward(parent[t].index + 1, supply)]
    /\ pc' = [pc EXCEPT ![t] = "priced"]
    /\ UNCHANGED <<status, memory, Mu, reorg, parent, feeTotal, cursor, blockBytes,
                   disk>>

BlockTime(now, parentTime) == IF now <= parentTime THEN parentTime + 1 ELSE now

\* Read the clock, write the engine's difficulty.
AdjustDifficulty(t) ==
    /\ pc[t] = "priced"
    /\ \E now \in Clock :
         LET time == BlockTime(now, parent[t].time)
         IN  /\ newBlock' = [newBlock EXCEPT ![t].time = time]
             /\ TargetDifficulty' =
                  CalculateNextDifficulty(parent[t].time, time, parent[t].diff)
    /\ pc' = [pc EXCEPT ![t] = "retargeted"]
    /\ UNCHANGED <<status, Chain, State, Mempool, MinerAddress, Mu, reorg, parent,
                   feeTotal, currentSupply, cursor, blockBytes, disk>>

\* Build the block; its difficulty is read back from the engine.
AssembleBlock(t) ==
    /\ pc[t] = "retargeted"
    /\ newBlock' = [newBlock EXCEPT
          ![t].index = parent[t].index + 1, ![t].prev = parent[t].hash,
          ![t].miner = MinerAddress,        ![t].diff = TargetDifficulty]
    /\ pc' = [pc EXCEPT ![t] = "assembled"]
    /\ UNCHANGED <<status, memory, Mu, reorg, parent, feeTotal, currentSupply, cursor,
                   blockBytes, disk>>

BlocksInUse == {blocks[n] : n \in Heights} \cup {Chain[i] : i \in 1 .. Len(Chain)}
                  \cup {newBlock[t] : t \in Threads}

HashesInUse == {b.hash : b \in BlocksInUse}
                  \cup UNION {GenesisHashes[d] : d \in InitialDifficulties}

\* Two headers never share a hash; one header may be hashed twice.  The free
\* values are interchangeable, so a new header takes the least.
HashOf(h, b) ==
    \/ \E c \in BlocksInUse : c.hash = h /\ c.index = b.index /\ Header(c) = Header(b)
    \/ h \notin HashesInUse /\ \A g \in Hash \ HashesInUse : h <= g

\* Search a hash that meets the engine's difficulty at that moment, then
\* validate the block against the parent it was built on.
MineAndValidate(t) ==
    /\ pc[t] = "assembled"
    /\ \E h \in Hash, work \in {TargetDifficulty, newBlock[t].diff} :
         LET b == [newBlock[t] EXCEPT !.hash = h, !.work = work]
         IN  /\ HashOf(h, newBlock[t])
             /\ ValidatePoW(work, TargetDifficulty)
             /\ IF ValidateBlockConsensus(b, parent[t], currentSupply[t])
                THEN /\ newBlock' = [newBlock EXCEPT ![t] = b]
                     /\ pc' = [pc EXCEPT ![t] = "mined"]
                     /\ UNCHANGED <<parent, feeTotal, currentSupply, cursor, blockBytes>>
                ELSE Finish(t, "panicked")
    /\ UNCHANGED <<status, memory, Mu, reorg, disk>>

\* Lock, append, first write of SaveBlock, whose error is dropped.
CommitBlock(t) ==
    /\ pc[t] = "mined"
    /\ Lock(t)
    /\ AppendBlock(newBlock[t])
    /\ \/ PutBlock(newBlock[t]) /\ pc' = [pc EXCEPT ![t] = "saved"]
       \/ DiskFaults /\ UNCHANGED blocks /\ pc' = [pc EXCEPT ![t] = "unsaved"]
    /\ UNCHANGED <<status, State, Mempool, MinerAddress, TargetDifficulty, reorg,
                   parent, newBlock, feeTotal, currentSupply, cursor, blockBytes,
                   lastIndex>>

\* Mutants: the fees are lost; the reward is not the one in the block.
MinerRewardNoFees(t)    == newBlock[t].reward
MinerRewardScheduled(t) ==
    Plus(CalculateBlockReward(newBlock[t].index), feeTotal[t])

TotalMinerReward(t) == Plus(newBlock[t].reward, feeTotal[t])

\* Second write of SaveBlock, reward and fees to the miner, unlock.
CreditMiner(t) ==
    /\ \/ pc[t] = "saved" /\ PutLastIndex(newBlock[t].index)
       \/ pc[t] = "saved" /\ DiskFaults /\ UNCHANGED lastIndex
       \/ pc[t] = "unsaved" /\ UNCHANGED lastIndex
    /\ State' = Credit(State, MinerAddress, TotalMinerReward(t))
    /\ Unlock
    /\ Finish(t, "idle")
    /\ UNCHANGED <<status, Chain, Mempool, MinerAddress, TargetDifficulty, reorg, blocks>>

MineStep(t) ==
    \/ RejectMiner(t) \/ MineBlock(t)
    \/ SelectTransfer(t) \/ SkipTransfer(t) \/ FinishSelection(t)
    \/ ComputeReward(t) \/ AdjustDifficulty(t) \/ AssembleBlock(t)
    \/ MineAndValidate(t) \/ CommitBlock(t) \/ CreditMiner(t)
-----------------------------------------------------------------------------
(* The rest of the ledger's interface.  Nothing in the repository calls    *)
(* these yet; their callers are taken to be serialised with MineBlock.     *)

\* sort.Slice by descending fee, which may swap equal fees.
FeeOrders(txs) ==
    {s \in {[i \in DOMAIN txs |-> txs[p[i]]] : p \in Bijection(DOMAIN txs, DOMAIN txs)} :
        \A i, j \in DOMAIN s : i < j => s[i].fee >= s[j].fee}

AddToMempool(tx) ==
    /\ status = "up" /\ Mu = Free
    /\ Len(Mempool) < MaxMempool
    /\ HasPrefix(tx.to)
    /\ State' = [State EXCEPT ![tx.from].nonce = tx.nonce]
    /\ Mempool' \in FeeOrders(Append(Mempool, tx))
    /\ UNCHANGED <<status, Chain, MinerAddress, TargetDifficulty, Mu, reorg, locals, disk>>

CanReorg == Reorgs /\ status = "up" /\ reorg = NoReorg /\ Idle

\* The tip's transfers go back to the mempool, the tip leaves the chain, then
\* its key is deleted.  If that fails the call returns an error right away.
RollbackBlock ==
    /\ CanReorg /\ Len(Chain) > 1
    /\ Len(Mempool) + Len(Tip(Chain).txs) <= MaxMempool
    /\ Mempool' = Reverse(Tip(Chain).txs) \o Mempool
    /\ Chain' = SubSeq(Chain, 1, Len(Chain) - 1)
    /\ \/ /\ blocks' = [blocks EXCEPT ![Tip(Chain).index] = NoBlock]
          /\ reorg' = [step |-> "deleted", block |-> Tip(Chain)]
       \/ DiskFaults /\ UNCHANGED <<blocks, reorg>>
    /\ UNCHANGED <<status, State, MinerAddress, TargetDifficulty, Mu, locals, lastIndex>>

\* Mutant: the accounts are left as the removed block made them.
FinishRollbackOnly ==
    /\ reorg.step = "deleted"
    /\ PutLastIndex(reorg.block.index - 1)
    /\ reorg' = NoReorg
    /\ UNCHANGED <<status, memory, Mu, locals, blocks>>

\* last_index steps back, then the state is rebuilt from the first block.
FinishRollback ==
    /\ reorg.step = "deleted"
    /\ \/ PutLastIndex(reorg.block.index - 1) /\ State' = Replay(Chain)
       \/ DiskFaults /\ UNCHANGED <<lastIndex, State>>
    /\ reorg' = NoReorg
    /\ UNCHANGED <<status, Chain, Mempool, MinerAddress, TargetDifficulty, Mu, locals, blocks>>

\* Blocks a peer may offer: a child of the tip, or one wrong in some field.
PeerBlocks ==
    LET tip == Tip(Chain)
        allowed == AllowedReward(tip.index + 1, GetTotalCirculatingSupply(Chain))
    IN  {b \in [hash : Hash, work : {0, tip.diff}, index : {tip.index, tip.index + 1},
                time : {tip.time, tip.time + 1}, prev : {tip.hash, NoHash},
                txs : PeerTransfers, miner : MinerChoices, diff : {tip.diff},
                reward : {allowed, CalculateBlockReward(tip.index + 1)},
                policy : Policies] :
            b.index <= MaxHeight /\ HashOf(b.hash, b)}

AppendBlockDirectly(block) ==
    /\ CanReorg
    /\ ValidateBlockConsensus(block, Tip(Chain), GetTotalCirculatingSupply(Chain))
    /\ AppendBlock(block)
    /\ \/ PutBlock(block) /\ reorg' = [step |-> "saved", block |-> block]
       \/ DiskFaults /\ UNCHANGED blocks /\ reorg' = [step |-> "unsaved", block |-> block]
    /\ UNCHANGED <<status, State, Mempool, MinerAddress, TargetDifficulty, Mu, locals,
                   lastIndex>>

FinishAppend ==
    /\ \/ reorg.step = "saved" /\ PutLastIndex(reorg.block.index)
       \/ reorg.step = "saved" /\ DiskFaults /\ UNCHANGED lastIndex
       \/ reorg.step = "unsaved" /\ UNCHANGED lastIndex
    /\ State' = RebuildState(State, reorg.block)
    /\ reorg' = NoReorg
    /\ UNCHANGED <<status, Chain, Mempool, MinerAddress, TargetDifficulty, Mu, locals, blocks>>

-----------------------------------------------------------------------------
Next ==
    \/ \E m \in MinerChoices, d \in InitialDifficulties : InitializeLedger(m, d)
    \/ SpawnGenesis \/ IndexGenesis \/ Crash
    \/ \E t \in Threads : MineStep(t) \/ RecoverPanic(t)
    \/ \E tx \in Transfers : AddToMempool(tx)
    \/ RollbackBlock \/ FinishRollback
    \/ (CanReorg /\ \E b \in PeerBlocks : AppendBlockDirectly(b)) \/ FinishAppend

Spec == Init /\ [][Next]_vars
=============================================================================
