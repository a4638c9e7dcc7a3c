---------------------------- MODULE DurableChain ----------------------------
(***************************************************************************)
(* What the ledger promises of its storage: the chain that a restart would *)
(* load, whatever the moment of the crash.  It is founded by one genesis   *)
(* block, then only grows by one valid block or loses its tip; a chain     *)
(* founded under other network parameters is wiped before anything else    *)
(* happens to it.                                                          *)
(*                                                                         *)
(* Each entry carries the cumulative supply "total", so that the monetary  *)
(* cap is a statement about single entries.                                *)
(***************************************************************************)
EXTENDS Consensus, Sequences

CONSTANTS
    Hash,          \* block hashes
    NoHash,        \* prev_hash of a genesis block
    Times,         \* block timestamps
    GenesisTime,   \* timestamp of the current genesis block
    LegacyGenesis  \* a genesis block written under other network parameters

VARIABLE durable   \* the chain a restart loads

Entry == [hash : Hash, prev : Hash \cup {NoHash}, index : Nat, time : Times,
          reward : Nat, total : Nat, policy : {"current", "legacy"}]

ASSUME DurableAssumption ==
    /\ NoHash \notin Hash
    /\ Times \subseteq Nat
    /\ GenesisTime \in Times
    /\ LegacyGenesis \in Entry /\ LegacyGenesis.policy = "legacy"

Last(chain) == chain[Len(chain)]

Genesis(h) == [hash |-> h, prev |-> NoHash, index |-> 0, time |-> GenesisTime,
               reward |-> CalculateBlockReward(0), total |-> CalculateBlockReward(0),
               policy |-> "current"]

Child(b, h, t) ==
    LET reward == AllowedReward(b.index + 1, b.total)
    IN  [hash |-> h, prev |-> b.hash, index |-> b.index + 1, time |-> t,
         reward |-> reward, total |-> b.total + reward, policy |-> "current"]

Legacy(chain) == chain = <<LegacyGenesis>>
-----------------------------------------------------------------------------
\* Storage is empty, or holds the genesis block of an older release.
Init == durable = <<>> \/ Legacy(durable)

Found == /\ durable = <<>>
         /\ \E h \in Hash : durable' = <<Genesis(h)>>

Extend == /\ durable # <<>> /\ ~Legacy(durable)
          /\ durable' \in {Append(durable, Child(Last(durable), h, t)) :
                              h \in Hash, t \in {u \in Times : u > Last(durable).time}}

Retract == /\ Len(durable) > 1
           /\ durable' = SubSeq(durable, 1, Len(durable) - 1)

Wipe == /\ Legacy(durable)
        /\ durable' = <<>>

Next == Found \/ Extend \/ Retract \/ Wipe

Spec == Init /\ [][Next]_durable
-----------------------------------------------------------------------------
TypeOK == durable \in Seq(Entry)

\* Current chains only: every entry sits at its height, extends its parent by
\* hash and by time, and claims exactly what the schedule and the cap allow
\* (validator.go:24-35, 91-104).
WellFormed ==
    ~Legacy(durable) =>
      \A i \in 1 .. Len(durable) :
        /\ durable[i].index = i - 1
        /\ i > 1 => /\ durable[i].prev = durable[i-1].hash
                    /\ durable[i].time > durable[i-1].time
                    /\ durable[i].reward = AllowedReward(i - 1, durable[i-1].total)
                    /\ durable[i].total = durable[i-1].total + durable[i].reward

\* No prefix of a current chain has minted more than MaxSupply
\* (consensus.go:33, validator.go:94-99).
SupplyCapped ==
    ~Legacy(durable) => \A i \in 1 .. Len(durable) : durable[i].total <= MaxSupply

\* Through halvings, the truncated last reward and the exhausted cap, a block
\* never mints more than its parent did (consensus.go:87-93, validator.go:91-99).
EmissionNeverRises ==
    ~Legacy(durable) =>
      \A i \in 2 .. Len(durable) : durable[i].reward <= durable[i-1].reward
=============================================================================
