-------------------------- MODULE LedgerProperties --------------------------
(***************************************************************************)
(* What the ledger must guarantee, and the abstract specification its      *)
(* storage implements.                                                     *)
(***************************************************************************)
EXTENDS Ledger
LOCAL INSTANCE Functions   \* SumFunction

\* Every variable has its type; in particular a thread's progress names only
\* the steps of MineBlock and the disk holds blocks at their own keys.
TypeOK ==
    /\ status \in {"down", "spawning", "indexing", "up"}
    /\ Chain \in Seq(Block)
    /\ State \in [Accounts -> [balance : 0 .. Word - 1, nonce : Nat]]
    /\ Mempool \in Seq(Transfers)
    /\ MinerAddress \in Miners
    /\ TargetDifficulty \in Nat
    /\ Mu \in Threads \cup {Free}
    /\ reorg \in [step : {"none", "deleted", "saved", "unsaved"}, block : Block]
    /\ pc \in [Threads -> PcStates]
    /\ parent \in [Threads -> Block]
    /\ newBlock \in [Threads -> Block]
    /\ feeTotal \in [Threads -> Nat]
    /\ currentSupply \in [Threads -> Nat]
    /\ cursor \in [Threads -> Nat]
    /\ blockBytes \in [Threads -> Nat]
    /\ blocks \in [Heights -> Block]
    /\ lastIndex \in Heights \cup {NoIndex}

-----------------------------------------------------------------------------
Linked(chain) ==
    \A i \in 2 .. Len(chain) :
        /\ chain[i].prev = chain[i-1].hash
        /\ chain[i].index = chain[i-1].index + 1
        /\ chain[i].time > chain[i-1].time

Scheduled(chain) ==
    \A i \in 2 .. Len(chain) :
        chain[i].reward = AllowedReward(i - 1, SupplyAt(chain)[i-1])

\* The chain in memory is one linked chain of strictly later blocks, each
\* claiming the exact reward: what validator.go:24-35 and :91-104 check of one
\* block against the parent it was built on, MineBlock must keep for the chain.
ChainValid == status = "up" => Linked(Chain) /\ Scheduled(Chain)

\* Minted units never exceed the fixed cap (consensus.go:33, ledger.go:87-93).
SupplyWithinCap == GetTotalCirculatingSupply(Chain) <= MaxSupply

\* Whenever the process dies, between any two writes of SaveBlock, DeleteBlock
\* or the genesis, the next start finds an empty database, an old release's
\* chain, or a valid chain, which its own integrity check accepts if it accepts
\* the first block (ledger.go:76-94, 129-172).
RestartSafe ==
    LET chain == LoadedChain
    IN  \/ chain = <<>>
        \/ chain[1].policy = "legacy"
        \/ /\ Linked(chain) /\ Scheduled(chain)
           /\ VerifyCheckpoint(0, chain[1].hash) => ConsensusIntegrity(chain)

\* What the process has written the next start accepts (ledger.go:129-172).
NextStartAccepts ==
    LoadedChain = <<>> \/ LoadedChain[1].policy = "legacy"
      \/ ConsensusIntegrity(LoadedChain)

\* Between two calls storage holds exactly the chain in memory; during a write
\* it holds that chain or lags one block (ledger.go:425-427, 465-471, 512-515).
NothingLostOnRestart ==
    status = "up" =>
      /\ Idle /\ reorg = NoReorg => LoadedChain = Chain
      /\ LoadedChain = Chain \/ Append(LoadedChain, Tip(Chain)) = Chain

Balances(state) == [a \in Accounts |-> state[a].balance]

\* Between two calls the balances MineBlock keeps up to date one transfer at a
\* time are those a restart would rebuild from the blocks (ledger.go:335-369
\* and 425-436 against RebuildState, 175-209).
StateIsReplay ==
    status = "up" /\ Idle /\ reorg = NoReorg
      => Balances(State) = Balances(Replay(Chain))

\* Balances, plus the fees and rewards on their way to a miner.
ValueInLedger ==
    SumFunction(Balances(State)) + SumFunction(feeTotal)
      + SumFunction([t \in Threads |->
            IF pc[t] \in {"saved", "unsaved"} THEN newBlock[t].reward ELSE 0])

\* The rewards of all blocks but the genesis, whose reward nobody receives.
ValueMinted == GetTotalCirculatingSupply(Chain) - Chain[1].reward

\* Units are neither created nor destroyed at any step of a MineBlock call
\* that does not panic (ledger.go:335-369, 425-436), nor by a restart.
ValueConserved ==
    (status = "up" /\ reorg = NoReorg /\ \A t \in Threads : pc[t] # "panicked")
      => ValueInLedger = ValueMinted

\* However MineBlock calls interleave and panic within one process lifetime,
\* the balances never hold more than was minted (same lines).
ValueNeverCreated == status = "up" => ValueInLedger <= ValueMinted

\* The mutex is held exactly by the call that is selecting transfers or
\* committing a block (ledger.go:327-375, 425-437), so no two calls ever
\* execute transfers or append blocks at the same time.
LockDiscipline ==
    \A t \in Threads : Mu = t <=> pc[t] \in {"selecting", "saved", "unsaved"}

\* Even when MineBlock calls race, a block is only ever appended after its
\* parent: the slice is a listing of a tree of blocks (ledger.go:328, 401, 426).
ParentPrecedes ==
    \A i \in 2 .. Len(Chain) :
        \E j \in 1 .. i - 1 : /\ Chain[i].prev = Chain[j].hash
                              /\ Chain[i].index = Chain[j].index + 1
                              /\ Chain[i].time > Chain[j].time

\* Once a proof of work is found, the block passes the validation that would
\* otherwise panic (ledger.go:421-423), whatever the clock, the supply and the
\* queue: the size estimated from the transfers (333-344) bounds the size that
\* is measured (validator.go:80-88).  A block whose header and commas outgrow
\* the bytes set aside for them is another matter, and does panic.
GeneratedBlockValid ==
    \A t \in Threads :
        /\ pc[t] = "assembled"
        /\ HeaderBytes + Separators(newBlock[t].txs) <= HeaderReserve
        => ValidateBlockConsensus([newBlock[t] EXCEPT !.work = TargetDifficulty],
                                  parent[t], currentSupply[t])

-----------------------------------------------------------------------------
\* The ledger's storage implements the abstract durable chain.
Entries(chain) ==
    [i \in DOMAIN chain |->
        [hash |-> chain[i].hash, prev |-> chain[i].prev, index |-> chain[i].index,
         time |-> chain[i].time, reward |-> chain[i].reward,
         total |-> SupplyAt(chain)[i], policy |-> chain[i].policy]]

BlockTimes == 0 .. GenesisTime + MaxHeight
                \cup UNION {c .. c + MaxHeight : c \in Clock}

D == INSTANCE DurableChain WITH
       durable <- Entries(LoadedChain), Times <- BlockTimes,
       LegacyGenesis <- Entries(<<LegacyGenesis>>)[1]

\* Every step of the process, crashes and both halves of every write included,
\* founds, extends, retracts or wipes the durable chain, or leaves it alone.
ImplementsDurableChain == D!Spec

-----------------------------------------------------------------------------
\* Go's mutex hands the lock to a waiter that starves, so a thread that waits
\* for it gets it; every other step of a call is the goroutine's own.
Fairness ==
    \A t \in Threads :
        /\ WF_vars(MineStep(t) /\ pc[t] # "idle")
        /\ SF_vars(CommitBlock(t))
LiveSpec == Spec /\ Fairness

\* A MineBlock call returns, panics or dies with the process: it never waits
\* for a lock nobody releases (ledger.go:327, 375, 425, 437).
MineBlockReturns ==
    \A t \in Threads : pc[t] = "selecting" ~> pc[t] \in {"idle", "panicked"}
=============================================================================
