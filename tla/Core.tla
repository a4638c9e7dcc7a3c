-------------------------------- MODULE Core --------------------------------
(***************************************************************************)
(* Package core and the pure part of package node: transfers, blocks, the  *)
(* validation of one block against its parent, and what a chain of blocks  *)
(* amounts to (circulating supply and account state).                      *)
(***************************************************************************)
EXTENDS Consensus, Sequences

CONSTANTS
    Addr,              \* addresses that carry the network prefix
    Transfers,         \* signed transfers: [id, from, to, value, fee, nonce, size]
    Hash,              \* block hashes
    NoHash,            \* prev_hash of a genesis block
    HeaderBytes,       \* JSON size of a block without transfers
    MaxBlockSizeBytes  \* the block size limit

SYSTEM_GENESIS == "SYSTEM_GENESIS"
SYSTEM_MINER   == "SYSTEM_MINER"
Accounts == Addr \cup {SYSTEM_GENESIS}
Miners   == Accounts \cup {SYSTEM_MINER}

ASSUME TransferAssumption ==
    \A tx \in Transfers : /\ tx.from \in Addr /\ tx.to \in Addr
                          /\ tx.value \in 0 .. Word - 1
                          /\ tx.fee \in 0 .. Word - 1
                          /\ tx.nonce \in Nat
                          /\ tx.size \in Nat
ASSUME HashAssumption == Hash \subseteq Nat /\ NoHash \notin Hash
ASSUME SizeAssumption == HeaderBytes \in Nat /\ MaxBlockSizeBytes \in Nat

\* "policy" stands for the parameters LoadFromDisk compares on the genesis
\* block (message, timestamp, bits, reward, max supply, halving interval).
Policies == {"current", "legacy"}

Block == [hash : Hash \cup {NoHash}, work : Nat, index : Nat, time : Nat,
          prev : Hash \cup {NoHash}, txs : Seq(Transfers), miner : Miners,
          diff : Nat, reward : Nat, policy : Policies]

\* No block: an absent database key, an unset local variable.
NoBlock == [hash |-> NoHash, work |-> 0, index |-> 0, time |-> 0, prev |-> NoHash,
            txs |-> <<>>, miner |-> SYSTEM_GENESIS, diff |-> 0, reward |-> 0,
            policy |-> "current"]

\* Mine takes a zero reward for an unset one and hashes the scheduled reward.
HashedReward(b) ==
    IF b.reward = 0 /\ b.index > 0 THEN CalculateBlockReward(b.index) ELSE b.reward

\* The fields AssembleBlockData feeds to the hash (the miner is not one).
Header(b) == <<b.prev, b.txs, b.index, b.time, HashedReward(b), b.diff>>

HasPrefix(name) == name \in Addr

\* Mutant: the first block instead of the last.
TipOldest(chain) == chain[1]
Tip(chain) == chain[Len(chain)]

-----------------------------------------------------------------------------
\* Commas between the transfers of a block.
Separators(txs) == IF txs = <<>> THEN 0 ELSE Len(txs) - 1

\* Size of the JSON text of a block.
TransferBytes(txs) ==
    LET sum[i \in 0 .. Len(txs)] == IF i = 0 THEN 0 ELSE sum[i-1] + txs[i].size
    IN  sum[Len(txs)]
BlockBytes(txs) == HeaderBytes + TransferBytes(txs) + Separators(txs)

\* Mutant: the claimed reward is not looked at.
ValidateWithoutReward(block, prevBlock, currentTotalSupply) ==
    /\ block.index = prevBlock.index + 1
    /\ block.time > prevBlock.time
    /\ block.prev = prevBlock.hash
    /\ block.miner = SYSTEM_GENESIS \/ HasPrefix(block.miner)
    /\ ValidatePoW(block.work, block.diff)
    /\ block.policy = "current"
    /\ BlockBytes(block.txs) <= MaxBlockSizeBytes

ValidateBlockConsensus(block, prevBlock, currentTotalSupply) ==
    /\ block.index = prevBlock.index + 1
    /\ block.time > prevBlock.time
    /\ block.prev = prevBlock.hash
    /\ block.miner = SYSTEM_GENESIS \/ HasPrefix(block.miner)
    /\ ValidatePoW(block.work, block.diff)
    /\ block.policy = "current"
    /\ BlockBytes(block.txs) <= MaxBlockSizeBytes
    /\ block.reward = AllowedReward(block.index, currentTotalSupply)

-----------------------------------------------------------------------------
\* Cumulative rewards of a chain: entry i is the supply after i blocks.
SupplyAt(chain) ==
    LET sum[i \in 0 .. Len(chain)] == IF i = 0 THEN 0 ELSE sum[i-1] + chain[i].reward
    IN  sum
GetTotalCirculatingSupply(chain) == SupplyAt(chain)[Len(chain)]

\* Sum of the fees of a sequence of transfers.
FeeTotal(txs) ==
    LET sum[i \in 0 .. Len(txs)] == IF i = 0 THEN 0 ELSE Plus(sum[i-1], txs[i].fee)
    IN  sum[Len(txs)]

Cost(tx) == Plus(tx.value, tx.fee)

Credit(state, name, amount) ==
    [state EXCEPT ![name].balance = Plus(@, amount)]

\* RebuildState's treatment of one transfer: an overdraft is floored at zero.
ReplayTransfer(state, tx) ==
    LET debited == [state EXCEPT
                      ![tx.from].balance = IF @ >= Cost(tx) THEN @ - Cost(tx) ELSE 0,
                      ![tx.from].nonce   = @ + 1]
    IN  Credit(debited, tx.to, tx.value)

ReplayTransfers(state, txs) ==
    LET after[i \in 0 .. Len(txs)] ==
            IF i = 0 THEN state ELSE ReplayTransfer(after[i-1], txs[i])
    IN  after[Len(txs)]

RebuildState(state, block) ==
    LET spent == ReplayTransfers(state, block.txs)
    IN  IF block.miner = SYSTEM_GENESIS THEN spent
        ELSE Credit(spent, block.miner, Plus(block.reward, FeeTotal(block.txs)))

NoState == [a \in Accounts |-> [balance |-> 0, nonce |-> 0]]

\* The account state a whole chain amounts to.
Replay(chain) ==
    LET after[i \in 0 .. Len(chain)] ==
            IF i = 0 THEN NoState ELSE RebuildState(after[i-1], chain[i])
    IN  after[Len(chain)]
=============================================================================
