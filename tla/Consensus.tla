----------------------------- MODULE Consensus -----------------------------
(***************************************************************************)
(* The pure rules of package internal/consensus: the emission schedule,    *)
(* the difficulty retarget, the proof-of-work test and the checkpoints.    *)
(*                                                                         *)
(* Numbers are scaled down through the constants; MaxSupply, BlockReward   *)
(* and HalvingInterval are 785e14, 5e9 and 7850000 in the code.  A block   *)
(* hash is a member of a set of opaque values, and the "work" of a hash is *)
(* the number of bits PoWLimit can be shifted right and still bound it.    *)
(***************************************************************************)
EXTENDS Integers

CONSTANTS
    MaxSupply,            \* the fixed cap on minted units
    BlockReward,          \* reward of the first HalvingInterval blocks
    HalvingInterval,      \* blocks between two halvings
    TargetBlockTimeSec,   \* desired distance between two blocks
    WordBits,             \* width of uint64: 64 in the code
    Checkpoints           \* HardcodedCheckpoints: [heights -> hashes]

ASSUME SupplyAssumption     == MaxSupply \in Nat
ASSUME RewardAssumption     == BlockReward \in 0 .. MaxSupply
ASSUME IntervalAssumption   == HalvingInterval \in Nat \ {0}
ASSUME TargetAssumption     == TargetBlockTimeSec \in Nat \ {0}
ASSUME WordAssumption       == WordBits \in Nat \ {0}
\* Powers of two up to the word size are positive and double: arithmetic, named
\* here because the SMT backend of the prover knows nothing of exponentiation.
ASSUME PowerAssumption ==
    \A h \in 0 .. WordBits : 2^h \in Nat \ {0} /\ 2^(h+1) = 2 * 2^h
ASSUME CheckpointAssumption == DOMAIN Checkpoints \subseteq Nat

-----------------------------------------------------------------------------
Word == 2^WordBits

\* Unsigned addition of the code's uint64 type.
Plus(a, b) == (a + b) % Word

\* Mutant: the remainder for the quotient, so that each interval starts over.
CalculateBlockRewardRemainder(blockIndex) ==
    BlockReward \div 2^(blockIndex % HalvingInterval)

\* BlockReward >> halvings; a shift by the word size or more leaves nothing.
CalculateBlockReward(blockIndex) ==
    LET halvings == blockIndex \div HalvingInterval
    IN  IF halvings >= WordBits THEN 0 ELSE BlockReward \div 2^halvings

\* Mutant: the last reward before the cap is not cut short.
AllowedRewardUntruncated(blockIndex, currentSupply) ==
    IF currentSupply >= MaxSupply THEN 0 ELSE CalculateBlockReward(blockIndex)

\* The reward a block may claim on top of a circulating supply: the scheduled
\* one, truncated to what the cap leaves.
AllowedReward(blockIndex, currentSupply) ==
    IF currentSupply >= MaxSupply THEN 0
    ELSE IF currentSupply + CalculateBlockReward(blockIndex) > MaxSupply
         THEN MaxSupply - currentSupply
         ELSE CalculateBlockReward(blockIndex)

-----------------------------------------------------------------------------
AtLeastOne(d) == IF d < 1 THEN 1 ELSE d

CalculateNextDifficulty(prevTime, time, prevDifficulty) ==
    LET elapsed == time - prevTime
    IN  IF prevTime = 0 \/ time <= prevTime
        THEN AtLeastOne(prevDifficulty)
        ELSE CASE elapsed < TargetBlockTimeSec -> prevDifficulty + 1
               [] elapsed > TargetBlockTimeSec * 2 /\ prevDifficulty > 1
                    -> prevDifficulty - 1
               [] OTHER -> AtLeastOne(prevDifficulty)

\* A hash of the given work meets a difficulty.  Every hash the miner keeps is
\* at most PoWLimit, and a difficulty of 0 or 1 asks for nothing more.
ValidatePoW(work, difficulty) == work >= 0 /\ (difficulty > 1 => work >= difficulty)

VerifyCheckpoint(height, hash) ==
    height \in DOMAIN Checkpoints => hash = Checkpoints[height]
=============================================================================
