------------------------- MODULE DurableChain_proofs -------------------------
(***************************************************************************)
(* Theorems about the durable chain, for every schedule, cap and set of    *)
(* hashes: its entries are well formed and never mint past the cap.        *)
(***************************************************************************)
EXTENDS DurableChain, Consensus_proofs

\* A child of an entry is an entry, and stays within the cap if its parent is.
LEMMA ChildFits ==
    ASSUME NEW b \in Entry, b.total <= MaxSupply, NEW h \in Hash, NEW t \in Times
    PROVE  /\ Child(b, h, t) \in Entry
           /\ Child(b, h, t).total <= MaxSupply
           /\ Child(b, h, t).total = b.total + Child(b, h, t).reward
           /\ Child(b, h, t).reward = AllowedReward(b.index + 1, b.total)
           /\ Child(b, h, t).index = b.index + 1
           /\ Child(b, h, t).prev = b.hash
           /\ Child(b, h, t).time = t
           /\ Child(b, h, t).policy = "current"
<1>1. b.index \in Nat /\ b.total \in Nat /\ b.hash \in Hash
  BY DEF Entry
<1> DEFINE r == AllowedReward(b.index + 1, b.total)
<1>2. r \in Nat /\ b.total + r <= MaxSupply
  <2>1. b.index + 1 \in Nat
    BY <1>1
  <2> QED BY <1>1, <2>1, AllowedFits
<1>3. Child(b, h, t) = [hash |-> h, prev |-> b.hash, index |-> b.index + 1, time |-> t,
                        reward |-> r, total |-> b.total + r, policy |-> "current"]
  BY DEF Child
<1> HIDE DEF r
<1>4. Child(b, h, t) \in Entry
  BY <1>1, <1>2, <1>3 DEF Entry
<1> QED BY <1>1, <1>2, <1>3, <1>4 DEF r

\* The genesis entry, which mints the first reward.
LEMMA GenesisFits ==
    ASSUME NEW h \in Hash
    PROVE  /\ Genesis(h) \in Entry /\ Genesis(h).index = 0
           /\ Genesis(h).total <= MaxSupply
           /\ Genesis(h).reward = CalculateBlockReward(0)
<1> DEFINE r == CalculateBlockReward(0)
<1>1. r \in Nat /\ r <= MaxSupply
  BY RewardRange, RewardAssumption, SupplyAssumption
<1>2. Genesis(h) = [hash |-> h, prev |-> NoHash, index |-> 0, time |-> GenesisTime,
                    reward |-> r, total |-> r, policy |-> "current"]
  BY DEF Genesis
<1>3. Genesis(h).reward = CalculateBlockReward(0)
  BY <1>2
<1> HIDE DEF r
<1> QED BY <1>1, <1>2, <1>3, DurableAssumption DEF Entry

-----------------------------------------------------------------------------
\* A current chain starts with the first scheduled reward: not needed for the
\* cap, but the second reward is compared with it.
FullGenesisReward ==
    ~Legacy(durable) /\ durable # <<>> => durable[1].reward = CalculateBlockReward(0)

Safe == TypeOK /\ WellFormed /\ SupplyCapped /\ FullGenesisReward

\* The initial storage, empty or of an older release, is safe.
LEMMA InitSafe == Init => Safe
<1> SUFFICES ASSUME Init PROVE Safe
  OBVIOUS
<1>1. CASE durable = <<>>
  BY <1>1 DEF Safe, TypeOK, WellFormed, SupplyCapped, FullGenesisReward
<1>2. CASE Legacy(durable)
  BY <1>2, DurableAssumption
     DEF Safe, TypeOK, WellFormed, SupplyCapped, FullGenesisReward, Legacy
<1> QED BY <1>1, <1>2 DEF Init

\* Appending a child is what takes the arithmetic.
LEMMA ExtendSafe == Safe /\ Extend => Safe'
<1> SUFFICES ASSUME Safe, Extend PROVE Safe'
  OBVIOUS
<1>1. PICK h \in Hash, t \in Times :
         t > Last(durable).time /\ durable' = Append(durable, Child(Last(durable), h, t))
  BY DEF Extend
<1> DEFINE n == Len(durable)
           b == Last(durable)
           c == Child(b, h, t)
<1>2. durable \in Seq(Entry) /\ n \in Nat /\ n >= 1 /\ ~Legacy(durable)
  BY DEF Safe, TypeOK, Extend
<1>3. b = durable[n] /\ b \in Entry /\ b.total <= MaxSupply /\ b.index = n - 1
  BY <1>2 DEF Last, Safe, WellFormed, SupplyCapped
<1>4. /\ c \in Entry /\ c.total <= MaxSupply
      /\ c.total = b.total + c.reward
      /\ c.reward = AllowedReward(b.index + 1, b.total)
      /\ c.index = b.index + 1 /\ c.prev = b.hash /\ c.time = t
  BY <1>3, ChildFits
<1>5. /\ durable' \in Seq(Entry) /\ Len(durable') = n + 1
      /\ durable'[n + 1] = c
      /\ \A i \in 1 .. n : durable'[i] = durable[i]
  BY <1>1, <1>2, <1>4
<1> HIDE DEF c, b
<1>6. ASSUME NEW i \in 1 .. n + 1
      PROVE  /\ durable'[i].index = i - 1
             /\ i > 1 => /\ durable'[i].prev = durable'[i-1].hash
                         /\ durable'[i].time > durable'[i-1].time
                         /\ durable'[i].reward = AllowedReward(i - 1, durable'[i-1].total)
                         /\ durable'[i].total = durable'[i-1].total + durable'[i].reward
             /\ durable'[i].total <= MaxSupply
  <2>1. CASE i \in 1 .. n
    <3>1. durable'[i] = durable[i] /\ (i > 1 => durable'[i-1] = durable[i-1])
      BY <2>1, <1>2, <1>5
    <3> QED BY <3>1, <2>1, <1>2 DEF Safe, WellFormed, SupplyCapped
  <2>2. CASE i = n + 1
    <3>1. durable'[i] = c /\ durable'[i-1] = b /\ i - 1 = n /\ b.index + 1 = n
      BY <2>2, <1>2, <1>3, <1>5
    <3>2. t > b.time
      BY <1>1 DEF b
    <3> QED BY <3>1, <3>2, <1>4
  <2> QED BY <2>1, <2>2, <1>2
<1>7. FullGenesisReward'
  <2>1. durable'[1] = durable[1] /\ durable # <<>>
    BY <1>2, <1>5
  <2> QED BY <2>1, <1>2 DEF Safe, FullGenesisReward
<1> QED BY <1>5, <1>6, <1>7 DEF Safe, TypeOK, WellFormed, SupplyCapped

\* The other steps found, shorten or wipe the chain.
LEMMA StepSafe == Safe /\ [Next]_durable => Safe'
<1> SUFFICES ASSUME Safe, [Next]_durable PROVE Safe'
  OBVIOUS
<1>1. CASE Found
  <2>1. PICK h \in Hash : durable' = <<Genesis(h)>>
    BY <1>1 DEF Found
  <2>2. /\ Genesis(h) \in Entry /\ Genesis(h).index = 0
        /\ Genesis(h).total <= MaxSupply
    BY GenesisFits
  <2>3. Len(durable') = 1 /\ durable'[1] = Genesis(h) /\ durable' \in Seq(Entry)
    BY <2>1, <2>2
  <2>4. \A i \in 1 .. Len(durable') : i = 1
    BY <2>3
  <2>5. \A i \in 1 .. Len(durable') :
           durable'[i].index = i - 1 /\ ~(i > 1) /\ durable'[i].total <= MaxSupply
    BY <2>2, <2>3, <2>4
  <2>6. WellFormed' /\ SupplyCapped'
    BY <2>5 DEF WellFormed, SupplyCapped
  <2>7. FullGenesisReward'
    BY <2>3, GenesisFits DEF FullGenesisReward
  <2> QED BY <2>3, <2>6, <2>7 DEF Safe, TypeOK
<1>2. CASE Extend
  BY <1>2, ExtendSafe
<1>3. CASE Retract
  <2> DEFINE n == Len(durable)
  <2>1. durable \in Seq(Entry) /\ n \in Nat /\ n > 1
    BY <1>3 DEF Safe, TypeOK, Retract
  <2>2. ~Legacy(durable)
    <3>1. durable = <<LegacyGenesis>> => n = 1
      OBVIOUS
    <3> HIDE DEF n
    <3>2. n # 1
      BY <2>1
    <3> QED BY <3>1, <3>2, Zenon DEF Legacy
  <2>3. /\ durable' \in Seq(Entry) /\ Len(durable') = n - 1
        /\ \A i \in 1 .. n - 1 : durable'[i] = durable[i]
    BY <1>3, <2>1 DEF Retract
  <2>4. ASSUME NEW i \in 1 .. n - 1
        PROVE  /\ durable'[i] = durable[i] /\ i \in 1 .. n
               /\ i > 1 => durable'[i-1] = durable[i-1]
    BY <2>1, <2>3
  <2>5. WellFormed'
    BY <2>1, <2>2, <2>3, <2>4 DEF Safe, WellFormed
  <2>6. SupplyCapped'
    BY <2>1, <2>2, <2>3, <2>4 DEF Safe, SupplyCapped
  <2>7. FullGenesisReward'
    <3>1. durable'[1] = durable[1] /\ durable # <<>>
      BY <2>1, <2>3
    <3> QED BY <3>1, <2>2 DEF Safe, FullGenesisReward
  <2> QED BY <2>3, <2>5, <2>6, <2>7 DEF Safe, TypeOK
<1>4. CASE Wipe
  BY <1>4 DEF Wipe, Safe, TypeOK, WellFormed, SupplyCapped, FullGenesisReward
<1>5. CASE UNCHANGED durable
  BY <1>5 DEF Safe, TypeOK, WellFormed, SupplyCapped, FullGenesisReward, Legacy
<1> QED BY <1>1, <1>2, <1>3, <1>4, <1>5 DEF Next

\* The inductive invariant holds in every reachable state.
THEOREM DurableSafe == Spec => []Safe
  BY InitSafe, StepSafe, PTL DEF Spec

\* Storage always holds a sequence of entries.
THEOREM DurableTyped == Spec => []TypeOK
<1>1. Safe => TypeOK
  BY DEF Safe
<1> QED BY <1>1, DurableSafe, PTL

\* A chain a restart loads links and schedules its blocks, at any crash point
\* (validator.go:24-35, 91-104).
LEMMA DurableWellFormed == Spec => []WellFormed
<1>1. Safe => WellFormed
  BY DEF Safe
<1> QED BY <1>1, DurableSafe, PTL

\* No prefix of a chain a restart loads has minted more than the cap
\* (consensus.go:33, ledger.go:87-93).
THEOREM DurableSupplyCapped == Spec => []SupplyCapped
<1>1. Safe => SupplyCapped
  BY DEF Safe
<1> QED BY <1>1, DurableSafe, PTL

\* A well-formed chain within the cap never raises the reward.
LEMMA SafeEmission == Safe => EmissionNeverRises
<1> SUFFICES ASSUME Safe, ~Legacy(durable), NEW i \in 2 .. Len(durable)
             PROVE  durable[i].reward <= durable[i-1].reward
  BY DEF EmissionNeverRises
<1> DEFINE b == durable[i-1]
           c == durable[i]
<1>0. Len(durable) \in Nat
  BY DEF Safe, TypeOK
<1>1. i - 1 \in 1 .. Len(durable) /\ i \in 1 .. Len(durable) /\ i > 1 /\ i - 2 \in Nat
  BY <1>0
<1>2. c.reward = AllowedReward(i - 1, b.total) /\ b.total <= MaxSupply
  BY <1>1 DEF Safe, WellFormed, SupplyCapped
<1>3. b.total \in Nat
  <2>1. b \in Entry
    BY <1>1 DEF Safe, TypeOK
  <2> QED BY <2>1 DEF Entry
<1>4. CASE i = 2
  <2>1. b.reward = CalculateBlockReward(0)
    BY <1>1, <1>4 DEF Safe, FullGenesisReward
  <2>2. CalculateBlockReward(1) <= CalculateBlockReward(0)
    BY RewardNeverRises
  <2> DEFINE r == CalculateBlockReward(1)
             g == CalculateBlockReward(0)
  <2>3. r \in Nat /\ g \in Nat /\ MaxSupply \in Nat
    BY RewardRange, RewardAssumption, SupplyAssumption
  <2>4. c.reward = IF b.total >= MaxSupply THEN 0
                   ELSE IF b.total + r > MaxSupply THEN MaxSupply - b.total ELSE r
    BY <1>2, <1>4 DEF AllowedReward
  <2>5. r <= b.reward
    BY <2>1, <2>2
  <2> HIDE DEF r, g, b, c
  <2>6. c.reward <= r
    BY <1>3, <2>3, <2>4
  <2>7. c.reward \in Nat /\ b.reward \in Nat
    BY <1>3, <2>1, <2>3, <2>4 DEF g
  <2> QED BY <2>3, <2>5, <2>6, <2>7 DEF b, c
<1>5. CASE i > 2
  <2> DEFINE a == durable[i-2]
  <2>1. /\ i - 2 \in 1 .. Len(durable) /\ (i - 1) - 1 = i - 2
        /\ i - 1 > 1 /\ (i - 2) + 1 = i - 1
    BY <1>1, <1>5
  <2>2. /\ b.reward = AllowedReward(i - 2, a.total) /\ a.total <= MaxSupply
        /\ b.total = a.total + b.reward
    BY <1>1, <2>1 DEF Safe, WellFormed, SupplyCapped
  <2>3. a.total \in Nat
    <3>1. a \in Entry
      BY <2>1 DEF Safe, TypeOK
    <3> QED BY <3>1 DEF Entry
  <2>4. AllowedReward((i - 2) + 1, a.total + AllowedReward(i - 2, a.total))
          <= AllowedReward(i - 2, a.total)
    BY <1>1, <2>2, <2>3, AllowedNeverRises
  <2> HIDE DEF a, b, c
  <2> QED BY <1>2, <2>1, <2>2, <2>4 DEF b, c
<1> QED BY <1>1, <1>4, <1>5

\* Through halvings and at the cap, no block of a chain a restart loads mints
\* more than its parent did (consensus.go:87-93, validator.go:91-99).
THEOREM DurableEmissionNeverRises == Spec => []EmissionNeverRises
  BY SafeEmission, DurableSafe, PTL
=============================================================================
