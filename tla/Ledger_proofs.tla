---------------------------- MODULE Ledger_proofs ----------------------------
(***************************************************************************)
(* Theorems about the ledger for every value of the constants.  In order:  *)
(* the mutex; types (TypeInv); the tree of blocks that racing calls build  *)
(* (TreeInv); chain and storage while one call at a time mines (StorageInv, *)
(* ChainInv, SerialInv) and the durable chain they implement; the block    *)
(* under way (MakingInv); the balances (BalanceInv); the units (ValueInv); *)
(* and the units while calls race and panic (MintedInv).                   *)
(***************************************************************************)
EXTENDS LedgerProperties, Consensus_proofs
LOCAL INSTANCE SequencesExt
LOCAL INSTANCE Functions

(* Sums over chains and over transfers, and the account state              *)

\* The fields of a block.
LEMMA BlockFields ==
    ASSUME NEW b \in Block
    PROVE  /\ b.hash \in Hash \cup {NoHash} /\ b.prev \in Hash \cup {NoHash}
           /\ b.work \in Nat /\ b.index \in Nat /\ b.time \in Nat
           /\ b.diff \in Nat /\ b.reward \in Nat
           /\ b.txs \in Seq(Transfers) /\ b.miner \in Miners /\ b.policy \in Policies
  BY DEF Block

\* The circulating supply of a chain is the supply of its prefix plus the
\* reward of its tip (ledger.go:66-73).
LEMMA SupplyIs ==
    ASSUME NEW c \in Seq(Block)
    PROVE  /\ SupplyAt(c) \in [0 .. Len(c) -> Nat]
           /\ SupplyAt(c)[0] = 0
           /\ \A i \in 1 .. Len(c) : SupplyAt(c)[i] = SupplyAt(c)[i-1] + c[i].reward
<1> DEFINE N == Len(c)
           r == [i \in 1 .. N |-> c[i].reward]
           IsSum(g) == g = [i \in 0 .. N |-> IF i = 0 THEN 0 ELSE g[i-1] + c[i].reward]
<1>1. N \in Nat /\ r \in [1 .. N -> Nat]
  <2>1. \A i \in 1 .. N : c[i].reward \in Nat
    BY BlockFields
  <2> QED BY <2>1
<1>2. \E f \in [0 .. N -> Nat] : f[0] = 0 /\ \A i \in 1 .. N : f[i] = f[i-1] + r[i]
  <2> HIDE DEF r, N
  <2> QED BY <1>1, SumExists
<1>3. PICK f \in [0 .. N -> Nat] : f[0] = 0 /\ \A i \in 1 .. N : f[i] = f[i-1] + r[i]
  BY <1>2
<1>4. \E g : IsSum(g)
  <2>1. IsSum(f)
    BY <1>1, <1>3
  <2> QED BY <2>1
<1>5. SupplyAt(c) = CHOOSE g : IsSum(g)
  BY DEF SupplyAt
<1> DEFINE s == SupplyAt(c)
<1>6. IsSum(s)
  <2> HIDE DEF IsSum
  <2> QED BY <1>4, <1>5
<1> HIDE DEF s
<1>7. DOMAIN s = 0 .. N /\ s[0] = 0 /\ \A i \in 1 .. N : s[i] = s[i-1] + c[i].reward
  BY <1>1, <1>6
<1> DEFINE T == {i \in 0 .. N : s[i] \in Nat}
<1>8. \A i \in 0 .. N : i \in T
  <2>1. 0 \in T
    BY <1>1, <1>7
  <2>2. ASSUME NEW i \in 1 .. N, i - 1 \in T PROVE i \in T
    <3>1. r[i] \in Nat /\ r[i] = c[i].reward
      BY <1>1
    <3>2. s[i-1] \in Nat /\ s[i] = s[i-1] + c[i].reward
      BY <1>7, <2>2
    <3> QED BY <3>1, <3>2
  <2> HIDE DEF T, N
  <2> QED BY <1>1, <2>1, <2>2, UpTo
<1>9. s \in [0 .. N -> Nat]
  BY <1>6, <1>8
<1> QED BY <1>7, <1>9 DEF s

LEMMA SupplyNat ==
    ASSUME NEW c \in Seq(Block)
    PROVE  GetTotalCirculatingSupply(c) \in Nat
<1>1. SupplyAt(c) \in [0 .. Len(c) -> Nat] /\ Len(c) \in 0 .. Len(c)
  BY SupplyIs
<1> QED BY <1>1 DEF GetTotalCirculatingSupply

\* A transfer's fields.
LEMMA TransferFields ==
    ASSUME NEW tx \in Transfers
    PROVE  /\ tx.from \in Accounts /\ tx.to \in Accounts
           /\ tx.value \in Nat /\ tx.fee \in Nat /\ tx.nonce \in Nat /\ tx.size \in Nat
           /\ Cost(tx) \in 0 .. Word - 1
<1>1. tx.value \in Nat /\ tx.fee \in Nat /\ tx.nonce \in Nat /\ tx.size \in Nat
  <2>1. tx.value \in 0 .. Word - 1 /\ tx.fee \in 0 .. Word - 1
    BY TransferAssumption
  <2> HIDE DEF Word
  <2> QED BY <2>1, WordPositive, TransferAssumption
<1>2. Cost(tx) \in 0 .. Word - 1
  BY <1>1, PlusRange DEF Cost
<1> QED BY <1>1, <1>2, TransferAssumption DEF Accounts

\* The account states of the ledger.
LedgerStates == [Accounts -> [balance : 0 .. Word - 1, nonce : Nat]]

\* An amount is credited to an account, or to a name that has none.
LEMMA CreditTyped ==
    ASSUME NEW state \in LedgerStates, NEW name, NEW amount \in Nat
    PROVE  Credit(state, name, amount) \in LedgerStates
<1> DEFINE account == [state[name] EXCEPT !.balance = Plus(@, amount)]
<1>1. Credit(state, name, amount) = [state EXCEPT ![name] = account]
  BY DEF Credit
<1>2. ASSUME name \in Accounts PROVE account \in [balance : 0 .. Word - 1, nonce : Nat]
  <2>1. state[name] \in [balance : 0 .. Word - 1, nonce : Nat]
    BY <1>2 DEF LedgerStates
  <2>2. Plus(state[name].balance, amount) \in 0 .. Word - 1
    <3>1. state[name].balance \in Nat
      BY <2>1, WordPositive
    <3> QED BY <3>1, PlusRange
  <2> QED BY <2>1, <2>2
<1> HIDE DEF account
<1> QED BY <1>1, <1>2 DEF LedgerStates

\* Taking what a transfer costs from its sender, who may be short of it.
LEMMA DebitTyped ==
    ASSUME NEW state \in LedgerStates, NEW name, NEW rest, NEW nonce \in Nat,
           name \in Accounts => rest \in 0 .. Word - 1
    PROVE  [state EXCEPT ![name].balance = rest, ![name].nonce = nonce] \in LedgerStates
<1> DEFINE account == [[state[name] EXCEPT !.balance = rest] EXCEPT !.nonce = nonce]
<1>1. ASSUME name \in Accounts
      PROVE  [state EXCEPT ![name].balance = rest, ![name].nonce = nonce]
                = [state EXCEPT ![name] = account]
  BY <1>1 DEF LedgerStates
<1>2. ASSUME name \in Accounts PROVE account \in [balance : 0 .. Word - 1, nonce : Nat]
  <2>1. state[name] \in [balance : 0 .. Word - 1, nonce : Nat]
    BY <1>2 DEF LedgerStates
  <2> QED BY <1>2, <2>1
<1>3. CASE name \in Accounts
  <2> HIDE DEF account
  <2> QED BY <1>1, <1>2, <1>3 DEF LedgerStates
<1>4. CASE name \notin Accounts
  BY <1>4 DEF LedgerStates
<1> QED BY <1>3, <1>4

LEMMA ReplayTransferTyped ==
    ASSUME NEW state \in LedgerStates, NEW tx \in Transfers
    PROVE  ReplayTransfer(state, tx) \in LedgerStates
<1> DEFINE rest == IF state[tx.from].balance >= Cost(tx)
                   THEN state[tx.from].balance - Cost(tx) ELSE 0
           nonce == state[tx.from].nonce + 1
           debited == [state EXCEPT ![tx.from].balance = rest, ![tx.from].nonce = nonce]
<1>1. ReplayTransfer(state, tx) = Credit(debited, tx.to, tx.value)
  BY TransferFields DEF ReplayTransfer, LedgerStates
<1>2. rest \in 0 .. Word - 1 /\ nonce \in Nat
  <2>1. state[tx.from] \in [balance : 0 .. Word - 1, nonce : Nat]
    BY TransferFields DEF LedgerStates
  <2>2. state[tx.from].balance \in 0 .. Word - 1 /\ state[tx.from].nonce \in Nat
    BY <2>1
  <2>3. Cost(tx) \in 0 .. Word - 1 /\ Word \in Nat \ {0}
    BY TransferFields, WordPositive
  <2> QED BY <2>2, <2>3
<1> HIDE DEF rest, nonce
<1>3. debited \in LedgerStates
  BY <1>2, DebitTyped
<1> HIDE DEF debited
<1> QED BY <1>1, <1>3, TransferFields, CreditTyped

\* A sequence of values whose first one is in a set that every step keeps.
LEMMA StaysIn ==
    ASSUME NEW N \in Nat, NEW S, NEW g, g[0] \in S,
           \A i \in 1 .. N : g[i-1] \in S => g[i] \in S
    PROVE  \A i \in 0 .. N : g[i] \in S
<1> DEFINE T == {i \in 0 .. N : g[i] \in S}
<1>1. 0 \in T /\ \A i \in 1 .. N : i - 1 \in T => i \in T
  OBVIOUS
<1>2. \A i \in 0 .. N : i \in T
  <2> HIDE DEF T
  <2> QED BY <1>1, UpTo
<1> QED BY <1>2

\* The fees of a block are added up one by one, as a word.
LEMMA FeeTotalRun ==
    ASSUME NEW txs \in Seq(Transfers)
    PROVE  \E s \in [0 .. Len(txs) -> Nat] :
              /\ s[0] = 0 /\ FeeTotal(txs) = s[Len(txs)]
              /\ \A i \in 1 .. Len(txs) : s[i] = Plus(s[i-1], txs[i].fee)
<1> DEFINE N == Len(txs)
           S == Nat
           F == [p \in S \X (1 .. N) |-> Plus(p[1], txs[p[2]].fee)]
           IsRun(g) == g = [i \in 0 .. N |->
                              IF i = 0 THEN 0 ELSE Plus(g[i-1], txs[i].fee)]
<1>1. N \in Nat /\ \A i \in 1 .. N : txs[i].fee \in Nat
  BY TransferFields
<1>2. \A a \in S, i \in 1 .. N : Plus(a, txs[i].fee) \in S
  BY <1>1, PlusNat
<1>3. F \in Steps(S, N) /\ 0 \in S
  BY <1>2 DEF Steps
<1>4. Recursive(S, N, 0, F)
  <2> HIDE DEF S, F, N
  <2> QED BY <1>1, <1>3, RecursionExists
<1>5. PICK f \in [0 .. N -> S] : f[0] = 0 /\ \A i \in 1 .. N : f[i] = F[<<f[i-1], i>>]
  BY <1>4 DEF Recursive
<1>6. \E g : IsRun(g)
  <2>1. ASSUME NEW i \in 1 .. N PROVE f[i] = Plus(f[i-1], txs[i].fee)
    <3>1. <<f[i-1], i>> \in S \X (1 .. N)
      BY <1>1
    <3>2. F[<<f[i-1], i>>] = Plus(f[i-1], txs[i].fee)
      BY <3>1
    <3> QED BY <1>5, <3>2
  <2>2. IsRun(f)
    BY <1>1, <1>5, <2>1
  <2> QED BY <2>2
<1> DEFINE s == CHOOSE g : IsRun(g)
<1>7. FeeTotal(txs) = s[N]
  BY DEF FeeTotal
<1>8. IsRun(s)
  <2> HIDE DEF IsRun
  <2> QED BY <1>6
<1> HIDE DEF s
<1>9. s[0] = 0 /\ \A i \in 1 .. N : s[i] = Plus(s[i-1], txs[i].fee)
  BY <1>1, <1>8
<1>10. \A i \in 0 .. N : s[i] \in S
  <2>1. s[0] \in S /\ \A i \in 1 .. N : s[i-1] \in S => s[i] \in S
    BY <1>2, <1>3, <1>9
  <2> HIDE DEF S, IsRun, N
  <2> QED BY <1>1, <2>1, StaysIn
<1>11. s \in [0 .. N -> S]
  BY <1>8, <1>10
<1> HIDE DEF IsRun
<1> QED BY <1>7, <1>9, <1>11

LEMMA FeeTotalTyped ==
    ASSUME NEW txs \in Seq(Transfers)
    PROVE  FeeTotal(txs) \in Nat
<1>1. Len(txs) \in 0 .. Len(txs)
  OBVIOUS
<1> QED BY <1>1, FeeTotalRun

\* So are the sizes of its transfers, as numbers.
LEMMA TransferBytesRun ==
    ASSUME NEW txs \in Seq(Transfers)
    PROVE  \E s \in [0 .. Len(txs) -> Nat] :
              /\ s[0] = 0 /\ TransferBytes(txs) = s[Len(txs)]
              /\ \A i \in 1 .. Len(txs) : s[i] = s[i-1] + txs[i].size
<1> DEFINE N == Len(txs)
           S == Nat
           F == [p \in S \X (1 .. N) |-> p[1] + txs[p[2]].size]
           IsRun(g) == g = [i \in 0 .. N |->
                              IF i = 0 THEN 0 ELSE g[i-1] + txs[i].size]
<1>1. N \in Nat /\ \A i \in 1 .. N : txs[i].size \in Nat
  BY TransferFields
<1>2. \A a \in S, i \in 1 .. N : a + txs[i].size \in S
  BY <1>1
<1>3. F \in Steps(S, N) /\ 0 \in S
  BY <1>2 DEF Steps
<1>4. Recursive(S, N, 0, F)
  <2> HIDE DEF S, F, N
  <2> QED BY <1>1, <1>3, RecursionExists
<1>5. PICK f \in [0 .. N -> S] : f[0] = 0 /\ \A i \in 1 .. N : f[i] = F[<<f[i-1], i>>]
  BY <1>4 DEF Recursive
<1>6. \E g : IsRun(g)
  <2>1. ASSUME NEW i \in 1 .. N PROVE f[i] = f[i-1] + txs[i].size
    <3>1. <<f[i-1], i>> \in S \X (1 .. N)
      BY <1>1
    <3>2. F[<<f[i-1], i>>] = f[i-1] + txs[i].size
      BY <3>1
    <3> QED BY <1>5, <3>2
  <2>2. IsRun(f)
    BY <1>1, <1>5, <2>1
  <2> QED BY <2>2
<1> DEFINE s == CHOOSE g : IsRun(g)
<1>7. TransferBytes(txs) = s[N]
  BY DEF TransferBytes
<1>8. IsRun(s)
  <2> HIDE DEF IsRun
  <2> QED BY <1>6
<1> HIDE DEF s
<1>9. s[0] = 0 /\ \A i \in 1 .. N : s[i] = s[i-1] + txs[i].size
  BY <1>1, <1>8
<1>10. \A i \in 0 .. N : s[i] \in S
  <2>1. s[0] \in S /\ \A i \in 1 .. N : s[i-1] \in S => s[i] \in S
    BY <1>2, <1>3, <1>9
  <2> HIDE DEF S, IsRun, N
  <2> QED BY <1>1, <2>1, StaysIn
<1>11. s \in [0 .. N -> S]
  BY <1>8, <1>10
<1> HIDE DEF IsRun
<1> QED BY <1>7, <1>9, <1>11

\* Replaying transfers, blocks and chains keeps the types of the account state:
\* no balance leaves the range of a word (ledger.go:175-209).
LEMMA ReplayTransfersRun ==
    ASSUME NEW state \in LedgerStates, NEW txs \in Seq(Transfers)
    PROVE  \E s \in [0 .. Len(txs) -> LedgerStates] :
              /\ s[0] = state /\ ReplayTransfers(state, txs) = s[Len(txs)]
              /\ \A i \in 1 .. Len(txs) : s[i] = ReplayTransfer(s[i-1], txs[i])
<1> DEFINE N == Len(txs)
           S == LedgerStates
           F == [p \in S \X (1 .. N) |-> ReplayTransfer(p[1], txs[p[2]])]
           IsRun(g) == g = [i \in 0 .. N |->
                              IF i = 0 THEN state ELSE ReplayTransfer(g[i-1], txs[i])]
<1>1. N \in Nat /\ \A i \in 1 .. N : txs[i] \in Transfers
  OBVIOUS
<1>2. \A a \in S, i \in 1 .. N : ReplayTransfer(a, txs[i]) \in S
  BY <1>1, ReplayTransferTyped
<1>3. F \in Steps(S, N) /\ state \in S
  BY <1>2 DEF Steps
<1>4. Recursive(S, N, state, F)
  <2> HIDE DEF S, F, N
  <2> QED BY <1>1, <1>3, RecursionExists
<1>5. PICK f \in [0 .. N -> S] : f[0] = state /\ \A i \in 1 .. N : f[i] = F[<<f[i-1], i>>]
  BY <1>4 DEF Recursive
<1>6. \E g : IsRun(g)
  <2>1. ASSUME NEW i \in 1 .. N PROVE f[i] = ReplayTransfer(f[i-1], txs[i])
    <3>1. <<f[i-1], i>> \in S \X (1 .. N)
      BY <1>1
    <3>2. F[<<f[i-1], i>>] = ReplayTransfer(f[i-1], txs[i])
      BY <3>1
    <3> QED BY <1>5, <3>2
  <2>2. IsRun(f)
    BY <1>1, <1>5, <2>1
  <2> QED BY <2>2
<1> DEFINE s == CHOOSE g : IsRun(g)
<1>7. ReplayTransfers(state, txs) = s[N]
  BY DEF ReplayTransfers
<1>8. IsRun(s)
  <2> HIDE DEF IsRun
  <2> QED BY <1>6
<1> HIDE DEF s
<1>9. s[0] = state /\ \A i \in 1 .. N : s[i] = ReplayTransfer(s[i-1], txs[i])
  BY <1>1, <1>8
<1>10. \A i \in 0 .. N : s[i] \in S
  <2>1. s[0] \in S /\ \A i \in 1 .. N : s[i-1] \in S => s[i] \in S
    BY <1>2, <1>3, <1>9
  <2> HIDE DEF S, IsRun, N
  <2> QED BY <1>1, <2>1, StaysIn
<1>11. s \in [0 .. N -> S]
  BY <1>8, <1>10
<1> HIDE DEF IsRun
<1> QED BY <1>7, <1>9, <1>11

LEMMA ReplayTransfersTyped ==
    ASSUME NEW state \in LedgerStates, NEW txs \in Seq(Transfers)
    PROVE  ReplayTransfers(state, txs) \in LedgerStates
<1>1. Len(txs) \in 0 .. Len(txs)
  OBVIOUS
<1> QED BY <1>1, ReplayTransfersRun

LEMMA RebuildStateTyped ==
    ASSUME NEW state \in LedgerStates, NEW b \in Block
    PROVE  RebuildState(state, b) \in LedgerStates
<1> DEFINE spent == ReplayTransfers(state, b.txs)
           amount == Plus(b.reward, FeeTotal(b.txs))
<1>1. spent \in LedgerStates
  BY BlockFields, ReplayTransfersTyped
<1>2. amount \in Nat
  <2>1. b.reward \in Nat /\ FeeTotal(b.txs) \in Nat
    BY BlockFields, FeeTotalTyped
  <2> QED BY <2>1, PlusNat
<1>3. RebuildState(state, b) = IF b.miner = SYSTEM_GENESIS THEN spent
                               ELSE Credit(spent, b.miner, amount)
  BY DEF RebuildState
<1> HIDE DEF spent, amount
<1>4. Credit(spent, b.miner, amount) \in LedgerStates
  BY <1>1, <1>2, CreditTyped
<1> QED BY <1>1, <1>3, <1>4

LEMMA NoStateTyped == NoState \in LedgerStates
  BY WordPositive DEF NoState, LedgerStates

\* The account state of a chain is that of its prefix and its tip; it is the
\* state that nothing has happened to if there is no block.
LEMMA ReplayRun ==
    ASSUME NEW c \in Seq(Block)
    PROVE  \E s \in [0 .. Len(c) -> LedgerStates] :
              /\ s[0] = NoState /\ Replay(c) = s[Len(c)]
              /\ \A i \in 1 .. Len(c) : s[i] = RebuildState(s[i-1], c[i])
<1> DEFINE N == Len(c)
           S == LedgerStates
           F == [p \in S \X (1 .. N) |-> RebuildState(p[1], c[p[2]])]
           IsRun(g) == g = [i \in 0 .. N |->
                              IF i = 0 THEN NoState ELSE RebuildState(g[i-1], c[i])]
<1>1. N \in Nat /\ \A i \in 1 .. N : c[i] \in Block
  OBVIOUS
<1>2. \A a \in S, i \in 1 .. N : RebuildState(a, c[i]) \in S
  BY <1>1, RebuildStateTyped
<1>3. F \in Steps(S, N) /\ NoState \in S
  BY <1>2, NoStateTyped DEF Steps
<1>4. Recursive(S, N, NoState, F)
  <2> HIDE DEF S, F, N
  <2> QED BY <1>1, <1>3, RecursionExists
<1>5. PICK f \in [0 .. N -> S] : f[0] = NoState /\ \A i \in 1 .. N : f[i] = F[<<f[i-1], i>>]
  BY <1>4 DEF Recursive
<1>6. \E g : IsRun(g)
  <2>1. ASSUME NEW i \in 1 .. N PROVE f[i] = RebuildState(f[i-1], c[i])
    <3>1. <<f[i-1], i>> \in S \X (1 .. N)
      BY <1>1
    <3>2. F[<<f[i-1], i>>] = RebuildState(f[i-1], c[i])
      BY <3>1
    <3> QED BY <1>5, <3>2
  <2>2. IsRun(f)
    BY <1>1, <1>5, <2>1
  <2> QED BY <2>2
<1> DEFINE s == CHOOSE g : IsRun(g)
<1>7. Replay(c) = s[N]
  BY DEF Replay
<1>8. IsRun(s)
  <2> HIDE DEF IsRun
  <2> QED BY <1>6
<1> HIDE DEF s
<1>9. s[0] = NoState /\ \A i \in 1 .. N : s[i] = RebuildState(s[i-1], c[i])
  BY <1>1, <1>8
<1>10. \A i \in 0 .. N : s[i] \in S
  <2>1. s[0] \in S /\ \A i \in 1 .. N : s[i-1] \in S => s[i] \in S
    BY <1>2, <1>3, <1>9
  <2> HIDE DEF S, IsRun, N
  <2> QED BY <1>1, <2>1, StaysIn
<1>11. s \in [0 .. N -> S]
  BY <1>8, <1>10
<1> HIDE DEF IsRun
<1> QED BY <1>7, <1>9, <1>11

LEMMA ReplayTyped ==
    ASSUME NEW c \in Seq(Block)
    PROVE  Replay(c) \in LedgerStates
<1>1. Len(c) \in 0 .. Len(c)
  OBVIOUS
<1> QED BY <1>1, ReplayRun

\* Two runs of a recursion that begin alike and proceed alike end alike.
LEMMA SameRun ==
    ASSUME NEW N \in Nat, NEW g, NEW h, g[0] = h[0],
           \A i \in 1 .. N : g[i-1] = h[i-1] => g[i] = h[i]
    PROVE  g[N] = h[N]
<1> DEFINE T == {i \in 0 .. N : g[i] = h[i]}
<1>1. 0 \in T /\ \A i \in 1 .. N : i - 1 \in T => i \in T
  OBVIOUS
<1>2. \A i \in 0 .. N : i \in T
  <2> HIDE DEF T
  <2> QED BY <1>1, UpTo
<1> QED BY <1>2

\* One more transfer, one more block.
LEMMA FeeTotalAppend ==
    ASSUME NEW txs \in Seq(Transfers), NEW tx \in Transfers
    PROVE  /\ FeeTotal(<<>>) = 0
           /\ FeeTotal(Append(txs, tx)) = Plus(FeeTotal(txs), tx.fee)
<1>1. FeeTotal(<<>>) = 0
  <2>1. <<>> \in Seq(Transfers) /\ Len(<<>>) = 0
    OBVIOUS
  <2> QED BY <2>1, FeeTotalRun
<1> DEFINE n == Len(txs)
           longer == Append(txs, tx)
<1>2. /\ n \in Nat /\ longer \in Seq(Transfers) /\ Len(longer) = n + 1 /\ longer[n+1] = tx
      /\ \A i \in 1 .. n : longer[i] = txs[i]
  OBVIOUS
<1>3. PICK g : /\ g[0] = 0 /\ FeeTotal(txs) = g[n]
               /\ \A i \in 1 .. n : g[i] = Plus(g[i-1], txs[i].fee)
  BY FeeTotalRun
<1>4. PICK h : /\ h[0] = 0 /\ FeeTotal(longer) = h[Len(longer)]
               /\ \A i \in 1 .. Len(longer) : h[i] = Plus(h[i-1], longer[i].fee)
  <2> HIDE DEF longer
  <2> QED BY <1>2, FeeTotalRun
<1> HIDE DEF longer, n
<1>5. g[n] = h[n]
  <2>1. ASSUME NEW i \in 1 .. n, g[i-1] = h[i-1] PROVE g[i] = h[i]
    <3>1. i \in 1 .. Len(longer)
      BY <1>2
    <3>2. h[i] = Plus(h[i-1], longer[i].fee) /\ longer[i] = txs[i]
      BY <1>2, <1>4, <3>1
    <3> QED BY <1>3, <2>1, <3>2
  <2> QED BY <1>2, <1>3, <1>4, <2>1, SameRun
<1>6. h[n+1] = Plus(h[n], tx.fee)
  <2>1. n + 1 \in 1 .. Len(longer) /\ (n + 1) - 1 = n
    BY <1>2
  <2>2. h[n+1] = Plus(h[(n + 1) - 1], longer[n+1].fee)
    BY <1>4, <2>1
  <2> QED BY <1>2, <2>1, <2>2
<1>7. FeeTotal(longer) = Plus(FeeTotal(txs), tx.fee)
  BY <1>2, <1>3, <1>4, <1>5, <1>6
<1> QED BY <1>1, <1>7 DEF longer

LEMMA TransferBytesAppend ==
    ASSUME NEW txs \in Seq(Transfers), NEW tx \in Transfers
    PROVE  /\ TransferBytes(<<>>) = 0
           /\ TransferBytes(Append(txs, tx)) = TransferBytes(txs) + tx.size
<1>1. TransferBytes(<<>>) = 0
  <2>1. <<>> \in Seq(Transfers) /\ Len(<<>>) = 0
    OBVIOUS
  <2> QED BY <2>1, TransferBytesRun
<1> DEFINE n == Len(txs)
           longer == Append(txs, tx)
<1>2. /\ n \in Nat /\ longer \in Seq(Transfers) /\ Len(longer) = n + 1 /\ longer[n+1] = tx
      /\ \A i \in 1 .. n : longer[i] = txs[i]
  OBVIOUS
<1>3. PICK g : /\ g[0] = 0 /\ TransferBytes(txs) = g[n]
               /\ \A i \in 1 .. n : g[i] = g[i-1] + txs[i].size
  BY TransferBytesRun
<1>4. PICK h : /\ h[0] = 0 /\ TransferBytes(longer) = h[Len(longer)]
               /\ \A i \in 1 .. Len(longer) : h[i] = h[i-1] + longer[i].size
  <2> HIDE DEF longer
  <2> QED BY <1>2, TransferBytesRun
<1> HIDE DEF longer, n
<1>5. g[n] = h[n]
  <2>1. ASSUME NEW i \in 1 .. n, g[i-1] = h[i-1] PROVE g[i] = h[i]
    <3>1. i \in 1 .. Len(longer)
      BY <1>2
    <3>2. h[i] = h[i-1] + longer[i].size /\ longer[i] = txs[i]
      BY <1>2, <1>4, <3>1
    <3> QED BY <1>3, <2>1, <3>2
  <2> QED BY <1>2, <1>3, <1>4, <2>1, SameRun
<1>6. h[n+1] = h[n] + tx.size
  <2>1. n + 1 \in 1 .. Len(longer) /\ (n + 1) - 1 = n
    BY <1>2
  <2>2. h[n+1] = h[(n + 1) - 1] + longer[n+1].size
    BY <1>4, <2>1
  <2> QED BY <1>2, <2>1, <2>2
<1>7. TransferBytes(longer) = TransferBytes(txs) + tx.size
  BY <1>2, <1>3, <1>4, <1>5, <1>6
<1> QED BY <1>1, <1>7 DEF longer

LEMMA ReplayTransfersAppend ==
    ASSUME NEW state \in LedgerStates, NEW txs \in Seq(Transfers), NEW tx \in Transfers
    PROVE  /\ ReplayTransfers(state, <<>>) = state
           /\ ReplayTransfers(state, Append(txs, tx)) = ReplayTransfer(ReplayTransfers(state, txs), tx)
<1>1. ReplayTransfers(state, <<>>) = state
  <2>1. <<>> \in Seq(Transfers) /\ Len(<<>>) = 0
    OBVIOUS
  <2> QED BY <2>1, ReplayTransfersRun
<1> DEFINE n == Len(txs)
           longer == Append(txs, tx)
<1>2. /\ n \in Nat /\ longer \in Seq(Transfers) /\ Len(longer) = n + 1 /\ longer[n+1] = tx
      /\ \A i \in 1 .. n : longer[i] = txs[i]
  OBVIOUS
<1>3. PICK g : /\ g[0] = state /\ ReplayTransfers(state, txs) = g[n]
               /\ \A i \in 1 .. n : g[i] = ReplayTransfer(g[i-1], txs[i])
  BY ReplayTransfersRun
<1>4. PICK h : /\ h[0] = state /\ ReplayTransfers(state, longer) = h[Len(longer)]
               /\ \A i \in 1 .. Len(longer) : h[i] = ReplayTransfer(h[i-1], longer[i])
  <2> HIDE DEF longer
  <2> QED BY <1>2, ReplayTransfersRun
<1> HIDE DEF longer, n
<1>5. g[n] = h[n]
  <2>1. ASSUME NEW i \in 1 .. n, g[i-1] = h[i-1] PROVE g[i] = h[i]
    <3>1. i \in 1 .. Len(longer)
      BY <1>2
    <3>2. h[i] = ReplayTransfer(h[i-1], longer[i]) /\ longer[i] = txs[i]
      BY <1>2, <1>4, <3>1
    <3> QED BY <1>3, <2>1, <3>2
  <2> QED BY <1>2, <1>3, <1>4, <2>1, SameRun
<1>6. h[n+1] = ReplayTransfer(h[n], tx)
  <2>1. n + 1 \in 1 .. Len(longer) /\ (n + 1) - 1 = n
    BY <1>2
  <2>2. h[n+1] = ReplayTransfer(h[(n + 1) - 1], longer[n+1])
    BY <1>4, <2>1
  <2> QED BY <1>2, <2>1, <2>2
<1>7. ReplayTransfers(state, longer) = ReplayTransfer(ReplayTransfers(state, txs), tx)
  BY <1>2, <1>3, <1>4, <1>5, <1>6
<1> QED BY <1>1, <1>7 DEF longer

LEMMA ReplayAppend ==
    ASSUME NEW c \in Seq(Block), NEW b \in Block
    PROVE  /\ Replay(<<>>) = NoState
           /\ Replay(Append(c, b)) = RebuildState(Replay(c), b)
<1>1. Replay(<<>>) = NoState
  <2>1. <<>> \in Seq(Block) /\ Len(<<>>) = 0
    OBVIOUS
  <2> QED BY <2>1, ReplayRun
<1> DEFINE n == Len(c)
           longer == Append(c, b)
<1>2. /\ n \in Nat /\ longer \in Seq(Block) /\ Len(longer) = n + 1 /\ longer[n+1] = b
      /\ \A i \in 1 .. n : longer[i] = c[i]
  OBVIOUS
<1>3. PICK g : /\ g[0] = NoState /\ Replay(c) = g[n]
               /\ \A i \in 1 .. n : g[i] = RebuildState(g[i-1], c[i])
  BY ReplayRun
<1>4. PICK h : /\ h[0] = NoState /\ Replay(longer) = h[Len(longer)]
               /\ \A i \in 1 .. Len(longer) : h[i] = RebuildState(h[i-1], longer[i])
  <2> HIDE DEF longer
  <2> QED BY <1>2, ReplayRun
<1> HIDE DEF longer, n
<1>5. g[n] = h[n]
  <2>1. ASSUME NEW i \in 1 .. n, g[i-1] = h[i-1] PROVE g[i] = h[i]
    <3>1. i \in 1 .. Len(longer)
      BY <1>2
    <3>2. h[i] = RebuildState(h[i-1], longer[i]) /\ longer[i] = c[i]
      BY <1>2, <1>4, <3>1
    <3> QED BY <1>3, <2>1, <3>2
  <2> QED BY <1>2, <1>3, <1>4, <2>1, SameRun
<1>6. h[n+1] = RebuildState(h[n], b)
  <2>1. n + 1 \in 1 .. Len(longer) /\ (n + 1) - 1 = n
    BY <1>2
  <2>2. h[n+1] = RebuildState(h[(n + 1) - 1], longer[n+1])
    BY <1>4, <2>1
  <2> QED BY <1>2, <2>1, <2>2
<1>7. Replay(longer) = RebuildState(Replay(c), b)
  BY <1>2, <1>3, <1>4, <1>5, <1>6
<1> QED BY <1>1, <1>7 DEF longer

LEMMA TransferBytesTyped ==
    ASSUME NEW txs \in Seq(Transfers)
    PROVE  TransferBytes(txs) \in Nat
<1>1. Len(txs) \in 0 .. Len(txs)
  OBVIOUS
<1> QED BY <1>1, TransferBytesRun

-----------------------------------------------------------------------------
(* Balances: what becomes of them does not depend on the nonces            *)

SameBalances(s, u) == \A a \in Accounts : s[a].balance = u[a].balance

LEMMA BalancesAgree ==
    ASSUME NEW s, NEW u
    PROVE  SameBalances(s, u) <=> Balances(s) = Balances(u)
<1>1. ASSUME SameBalances(s, u) PROVE Balances(s) = Balances(u)
  BY <1>1 DEF SameBalances, Balances
<1>2. ASSUME Balances(s) = Balances(u), NEW a \in Accounts PROVE s[a].balance = u[a].balance
  <2>1. Balances(s)[a] = s[a].balance /\ Balances(u)[a] = u[a].balance
    BY DEF Balances
  <2> QED BY <1>2, <2>1
<1> QED BY <1>1, <1>2 DEF SameBalances

LEMMA CreditBalance ==
    ASSUME NEW s \in LedgerStates, NEW name, NEW amount, NEW a \in Accounts
    PROVE  Credit(s, name, amount)[a].balance
             = IF a = name THEN Plus(s[a].balance, amount) ELSE s[a].balance
<1>1. s[a] \in [balance : 0 .. Word - 1, nonce : Nat]
  BY DEF LedgerStates
<1>2. Credit(s, name, amount)[a] = IF a = name
        THEN [s[a] EXCEPT !.balance = Plus(s[a].balance, amount)] ELSE s[a]
  BY DEF Credit, LedgerStates
<1>3. [s[a] EXCEPT !.balance = Plus(s[a].balance, amount)].balance = Plus(s[a].balance, amount)
  BY <1>1
<1> QED BY <1>2, <1>3

\* What a transfer leaves on an account.
LEMMA ReplayTransferBalance ==
    ASSUME NEW s \in LedgerStates, NEW tx \in Transfers, NEW a \in Accounts
    PROVE  LET paid  == IF s[tx.from].balance >= Cost(tx)
                        THEN s[tx.from].balance - Cost(tx) ELSE 0
               spent == IF a = tx.from THEN paid ELSE s[a].balance
           IN  ReplayTransfer(s, tx)[a].balance
                 = IF a = tx.to THEN Plus(spent, tx.value) ELSE spent
<1> DEFINE rest == IF s[tx.from].balance >= Cost(tx)
                   THEN s[tx.from].balance - Cost(tx) ELSE 0
           nonce == s[tx.from].nonce + 1
           debited == [s EXCEPT ![tx.from].balance = rest, ![tx.from].nonce = nonce]
<1>1. ReplayTransfer(s, tx) = Credit(debited, tx.to, tx.value)
  BY TransferFields DEF ReplayTransfer, LedgerStates
<1>2. rest \in 0 .. Word - 1 /\ nonce \in Nat
  <2>1. s[tx.from] \in [balance : 0 .. Word - 1, nonce : Nat]
    BY TransferFields DEF LedgerStates
  <2>2. s[tx.from].balance \in 0 .. Word - 1 /\ s[tx.from].nonce \in Nat
    BY <2>1
  <2>3. Cost(tx) \in 0 .. Word - 1 /\ Word \in Nat \ {0}
    BY TransferFields, WordPositive
  <2> QED BY <2>2, <2>3
<1>3. rest = IF s[tx.from].balance >= Cost(tx) THEN s[tx.from].balance - Cost(tx) ELSE 0
  OBVIOUS
<1> HIDE DEF rest, nonce
<1>4. debited \in LedgerStates
  BY <1>2, DebitTyped
<1>5. debited[a].balance = IF a = tx.from THEN rest ELSE s[a].balance
  <2>1. s[a] \in [balance : 0 .. Word - 1, nonce : Nat]
    BY DEF LedgerStates
  <2>2. CASE a = tx.from
    <3>1. debited[a] = [[s[a] EXCEPT !.balance = rest] EXCEPT !.nonce = nonce]
      BY <2>2 DEF LedgerStates
    <3>2. [[s[a] EXCEPT !.balance = rest] EXCEPT !.nonce = nonce].balance = rest
      BY <2>1
    <3> QED BY <2>2, <3>1, <3>2
  <2>3. CASE a # tx.from
    <3>1. debited[a] = s[a]
      BY <2>3 DEF LedgerStates
    <3> QED BY <2>3, <3>1
  <2> QED BY <2>2, <2>3
<1> HIDE DEF debited
<1>6. Credit(debited, tx.to, tx.value)[a].balance
        = IF a = tx.to THEN Plus(debited[a].balance, tx.value) ELSE debited[a].balance
  BY <1>4, CreditBalance
<1> QED BY <1>1, <1>3, <1>5, <1>6

LEMMA ReplayTransferSame ==
    ASSUME NEW s \in LedgerStates, NEW u \in LedgerStates, SameBalances(s, u),
           NEW tx \in Transfers
    PROVE  SameBalances(ReplayTransfer(s, tx), ReplayTransfer(u, tx))
<1>1. ASSUME NEW a \in Accounts
      PROVE  ReplayTransfer(s, tx)[a].balance = ReplayTransfer(u, tx)[a].balance
  <2>1. s[a].balance = u[a].balance /\ s[tx.from].balance = u[tx.from].balance
    BY TransferFields DEF SameBalances
  <2> QED BY <2>1, ReplayTransferBalance
<1> QED BY <1>1 DEF SameBalances

LEMMA CreditSame ==
    ASSUME NEW s \in LedgerStates, NEW u \in LedgerStates, SameBalances(s, u),
           NEW name, NEW amount
    PROVE  SameBalances(Credit(s, name, amount), Credit(u, name, amount))
<1>1. ASSUME NEW a \in Accounts
      PROVE  Credit(s, name, amount)[a].balance = Credit(u, name, amount)[a].balance
  <2>1. s[a].balance = u[a].balance
    BY DEF SameBalances
  <2> QED BY <2>1, CreditBalance
<1> QED BY <1>1 DEF SameBalances

LEMMA ReplayTransfersSame ==
    ASSUME NEW s \in LedgerStates, NEW u \in LedgerStates, SameBalances(s, u),
           NEW txs \in Seq(Transfers)
    PROVE  SameBalances(ReplayTransfers(s, txs), ReplayTransfers(u, txs))
<1> DEFINE n == Len(txs)
<1>1. n \in Nat /\ \A i \in 1 .. n : txs[i] \in Transfers
  OBVIOUS
<1>2. PICK g \in [0 .. n -> LedgerStates] :
            /\ g[0] = s /\ ReplayTransfers(s, txs) = g[n]
            /\ \A i \in 1 .. n : g[i] = ReplayTransfer(g[i-1], txs[i])
  BY ReplayTransfersRun
<1>3. PICK h \in [0 .. n -> LedgerStates] :
            /\ h[0] = u /\ ReplayTransfers(u, txs) = h[n]
            /\ \A i \in 1 .. n : h[i] = ReplayTransfer(h[i-1], txs[i])
  BY ReplayTransfersRun
<1> HIDE DEF n
<1> DEFINE T == {i \in 0 .. n : SameBalances(g[i], h[i])}
<1>4. 0 \in T
  BY <1>1, <1>2, <1>3
<1>5. ASSUME NEW i \in 1 .. n, i - 1 \in T PROVE i \in T
  <2>1. i - 1 \in 0 .. n /\ i \in 0 .. n /\ SameBalances(g[i-1], h[i-1])
    BY <1>1, <1>5
  <2>2. SameBalances(ReplayTransfer(g[i-1], txs[i]), ReplayTransfer(h[i-1], txs[i]))
    BY <1>1, <2>1, ReplayTransferSame
  <2>3. SameBalances(g[i], h[i])
    BY <1>2, <1>3, <2>2
  <2> QED BY <2>1, <2>3
<1>6. n \in T
  <2> HIDE DEF T
  <2>1. \A i \in 0 .. n : i \in T
    BY <1>1, <1>4, <1>5, UpTo
  <2> QED BY <1>1, <2>1
<1> QED BY <1>2, <1>3, <1>6

LEMMA RebuildStateSame ==
    ASSUME NEW s \in LedgerStates, NEW u \in LedgerStates, SameBalances(s, u),
           NEW b \in Block
    PROVE  SameBalances(RebuildState(s, b), RebuildState(u, b))
<1> DEFINE p == ReplayTransfers(s, b.txs)
           q == ReplayTransfers(u, b.txs)
           amount == Plus(b.reward, FeeTotal(b.txs))
<1>1. p \in LedgerStates /\ q \in LedgerStates /\ SameBalances(p, q)
  BY BlockFields, ReplayTransfersTyped, ReplayTransfersSame
<1>2. /\ RebuildState(s, b) = IF b.miner = SYSTEM_GENESIS THEN p ELSE Credit(p, b.miner, amount)
      /\ RebuildState(u, b) = IF b.miner = SYSTEM_GENESIS THEN q ELSE Credit(q, b.miner, amount)
  BY DEF RebuildState
<1> HIDE DEF p, q, amount
<1>3. SameBalances(Credit(p, b.miner, amount), Credit(q, b.miner, amount))
  BY <1>1, CreditSame
<1> QED BY <1>1, <1>2, <1>3

-----------------------------------------------------------------------------
(* The mutex                                                               *)

InLock == {"selecting", "saved", "unsaved"}

\* The mutex and the progress of the calls, with the types that their updates
\* need.
LockInv ==
    /\ Mu \in Threads \cup {Free}
    /\ pc \in [Threads -> PcStates]
    /\ LockDiscipline

\* A call that takes the lock enters a step that holds it.
LEMMA LockTaken ==
    ASSUME LockInv, NEW t \in Threads, Mu = Free, Mu' = t,
           NEW step \in InLock, pc' = [pc EXCEPT ![t] = step]
    PROVE  LockInv'
<1>1. step \in PcStates
  BY DEF InLock, PcStates
<1>2. \A u \in Threads : Mu = u <=> pc[u] \in InLock
  BY DEF LockInv, LockDiscipline, InLock
<1>3. \A u \in Threads : Mu # u
  BY ThreadAssumption DEF Free
<1>4. \A u \in Threads : pc'[u] = IF u = t THEN step ELSE pc[u]
  BY DEF LockInv
<1>5. \A u \in Threads : Mu' = u <=> pc'[u] \in InLock
  BY <1>2, <1>3, <1>4
<1>6. pc' \in [Threads -> PcStates] /\ Mu' \in Threads \cup {Free}
  BY <1>1 DEF LockInv
<1> QED BY <1>5, <1>6 DEF LockInv, LockDiscipline, InLock

\* A call that releases the lock leaves the steps that hold it.
LEMMA LockReleased ==
    ASSUME LockInv, NEW t \in Threads, pc[t] \in InLock, Mu' = Free,
           NEW step \in PcStates \ InLock, pc' = [pc EXCEPT ![t] = step]
    PROVE  LockInv'
<1>1. \A u \in Threads : Mu = u <=> pc[u] \in InLock
  BY DEF LockInv, LockDiscipline, InLock
<1>2. Mu = t /\ \A u \in Threads : Mu' # u
  BY <1>1, ThreadAssumption DEF Free
<1>3. \A u \in Threads : pc'[u] = IF u = t THEN step ELSE pc[u]
  BY DEF LockInv
<1>4. \A u \in Threads : Mu' = u <=> pc'[u] \in InLock
  BY <1>1, <1>2, <1>3
<1>5. pc' \in [Threads -> PcStates] /\ Mu' \in Threads \cup {Free}
  BY DEF LockInv
<1> QED BY <1>4, <1>5 DEF LockInv, LockDiscipline, InLock

\* A call that moves between two steps outside the lock disturbs nobody.
LEMMA LockUntouched ==
    ASSUME LockInv, NEW t \in Threads, pc[t] \notin InLock, Mu' = Mu,
           NEW step \in PcStates \ InLock, pc' = [pc EXCEPT ![t] = step]
    PROVE  LockInv'
<1>1. \A u \in Threads : Mu = u <=> pc[u] \in InLock
  BY DEF LockInv, LockDiscipline, InLock
<1>2. \A u \in Threads : pc'[u] = IF u = t THEN step ELSE pc[u]
  BY DEF LockInv
<1>3. \A u \in Threads : Mu' = u <=> pc'[u] \in InLock
  BY <1>1, <1>2
<1>4. pc' \in [Threads -> PcStates] /\ Mu' \in Threads \cup {Free}
  BY DEF LockInv
<1> QED BY <1>3, <1>4 DEF LockInv, LockDiscipline, InLock

\* Nor does a step that leaves the mutex and all calls alone.
LEMMA LockStutter ==
    ASSUME LockInv, Mu' = Mu, pc' = pc
    PROVE  LockInv'
  BY DEF LockInv, LockDiscipline

\* Every step of a MineBlock call is one of these three.
LEMMA LockMineStep ==
    ASSUME LockInv, NEW t \in Threads, MineStep(t)
    PROVE  LockInv'
<1>1. CASE RejectMiner(t)
  <2>1. pc[t] = "idle" /\ Mu' = Mu /\ pc' = [pc EXCEPT ![t] = "panicked"]
    BY <1>1 DEF RejectMiner, CanMine
  <2> QED BY <2>1, LockUntouched DEF InLock, PcStates
<1>2. CASE MineBlock(t)
  <2>1. Mu = Free /\ Mu' = t /\ pc' = [pc EXCEPT ![t] = "selecting"]
    BY <1>2 DEF MineBlock, Lock
  <2> QED BY <2>1, LockTaken DEF InLock
<1>3. CASE SelectTransfer(t)
  BY <1>3, LockStutter DEF SelectTransfer
<1>4. CASE SkipTransfer(t)
  BY <1>4, LockStutter DEF SkipTransfer
<1>5. CASE FinishSelection(t)
  <2>1. pc[t] = "selecting" /\ Mu' = Free /\ pc' = [pc EXCEPT ![t] = "selected"]
    BY <1>5 DEF FinishSelection, Unlock
  <2> QED BY <2>1, LockReleased DEF InLock, PcStates
<1>6. CASE ComputeReward(t)
  <2>1. pc[t] = "selected" /\ Mu' = Mu /\ pc' = [pc EXCEPT ![t] = "priced"]
    BY <1>6 DEF ComputeReward
  <2> QED BY <2>1, LockUntouched DEF InLock, PcStates
<1>7. CASE AdjustDifficulty(t)
  <2>1. pc[t] = "priced" /\ Mu' = Mu /\ pc' = [pc EXCEPT ![t] = "retargeted"]
    BY <1>7 DEF AdjustDifficulty
  <2> QED BY <2>1, LockUntouched DEF InLock, PcStates
<1>8. CASE AssembleBlock(t)
  <2>1. pc[t] = "retargeted" /\ Mu' = Mu /\ pc' = [pc EXCEPT ![t] = "assembled"]
    BY <1>8 DEF AssembleBlock
  <2> QED BY <2>1, LockUntouched DEF InLock, PcStates
<1>9. CASE MineAndValidate(t)
  <2>1. /\ pc[t] = "assembled" /\ Mu' = Mu
        /\ \/ pc' = [pc EXCEPT ![t] = "mined"]
           \/ pc' = [pc EXCEPT ![t] = "panicked"]
    BY <1>9 DEF MineAndValidate, Finish
  <2> QED BY <2>1, LockUntouched DEF InLock, PcStates
<1>10. CASE CommitBlock(t)
  <2>1. /\ Mu = Free /\ Mu' = t
        /\ \/ pc' = [pc EXCEPT ![t] = "saved"]
           \/ pc' = [pc EXCEPT ![t] = "unsaved"]
    BY <1>10 DEF CommitBlock, Lock
  <2> QED BY <2>1, LockTaken DEF InLock
<1>11. CASE CreditMiner(t)
  <2>1. /\ pc[t] \in {"saved", "unsaved"} /\ Mu' = Free
        /\ pc' = [pc EXCEPT ![t] = "idle"]
    BY <1>11 DEF CreditMiner, Finish, Unlock
  <2> QED BY <2>1, LockReleased DEF InLock, PcStates
<1> QED BY <1>1, <1>2, <1>3, <1>4, <1>5, <1>6, <1>7, <1>8, <1>9, <1>10, <1>11 DEF MineStep

\* The other steps touch neither the mutex nor a call, except that a crash ends
\* them all and net/http ends a panicked one.
LEMMA LockNext == LockInv /\ [Next]_vars => LockInv'
<1> SUFFICES ASSUME LockInv, [Next]_vars PROVE LockInv'
  OBVIOUS
<1>1. ASSUME NEW m \in MinerChoices, NEW d \in InitialDifficulties, InitializeLedger(m, d)
      PROVE  LockInv'
  BY <1>1, LockStutter DEF InitializeLedger, locals
<1>2. CASE SpawnGenesis
  BY <1>2, LockStutter DEF SpawnGenesis, locals
<1>3. CASE IndexGenesis
  BY <1>3, LockStutter DEF IndexGenesis, locals
<1>4. CASE Crash
  <2>1. Mu' = Free /\ pc' = [t \in Threads |-> "idle"]
    BY <1>4 DEF Crash, ProcessEnds, PerThread
  <2> QED BY <2>1, ThreadAssumption DEF LockInv, LockDiscipline, Free, PcStates
<1>5. ASSUME NEW t \in Threads, MineStep(t) PROVE LockInv'
  BY <1>5, LockMineStep
<1>6. ASSUME NEW t \in Threads, RecoverPanic(t) PROVE LockInv'
  <2>1. pc[t] = "panicked" /\ Mu' = Mu /\ pc' = [pc EXCEPT ![t] = "idle"]
    BY <1>6 DEF RecoverPanic
  <2> QED BY <2>1, LockUntouched DEF InLock, PcStates
<1>7. ASSUME NEW tx \in Transfers, AddToMempool(tx) PROVE LockInv'
  BY <1>7, LockStutter DEF AddToMempool, locals
<1>8. CASE RollbackBlock
  BY <1>8, LockStutter DEF RollbackBlock, locals
<1>9. CASE FinishRollback
  BY <1>9, LockStutter DEF FinishRollback, locals
<1>10. CASE CanReorg /\ \E b \in PeerBlocks : AppendBlockDirectly(b)
  BY <1>10, LockStutter DEF AppendBlockDirectly, locals
<1>11. CASE FinishAppend
  BY <1>11, LockStutter DEF FinishAppend, locals
<1>12. CASE UNCHANGED vars
  BY <1>12, LockStutter DEF vars, locals
<1> QED BY <1>1, <1>2, <1>3, <1>4, <1>5, <1>6, <1>7, <1>8, <1>9, <1>10, <1>11, <1>12
        DEF Next

\* Whatever calls overlap, and whenever they panic or the process dies, the
\* mutex is held exactly by the call selecting transfers or committing
\* (ledger.go:327-375, 425-437).
THEOREM LedgerLockDiscipline == Spec => []LockDiscipline
<1>1. Init => LockInv
  <2>1. Init => Mu = Free /\ pc = [t \in Threads |-> "idle"]
    BY DEF Init, PerThread
  <2> QED BY <2>1, ThreadAssumption DEF LockInv, LockDiscipline, Free, PcStates
<1>2. LockInv => LockDiscipline
  BY DEF LockInv
<1> QED BY <1>1, <1>2, LockNext, PTL DEF Spec

-----------------------------------------------------------------------------
(* Types                                                                   *)

\* The blocks a restart reads end before a missing key, or at last_index.
LEMMA LoadedLengthIs ==
    ASSUME blocks \in [Heights -> Block], lastIndex \in Heights \cup {NoIndex}
    PROVE  /\ LoadedLength \in 0 .. lastIndex + 1
           /\ \A i \in 0 .. LoadedLength - 1 : i \in Heights /\ blocks[i] # NoBlock
           /\ LoadedLength = lastIndex + 1 \/ blocks[LoadedLength] = NoBlock
<1> DEFINE N == lastIndex + 1
           S == {n \in 0 .. N : n = N \/ blocks[n] = NoBlock}
           Ends(n) == /\ n \in 0 .. N
                      /\ \A i \in 0 .. n - 1 : blocks[i] # NoBlock
                      /\ n = N \/ blocks[n] = NoBlock
<1>1. N \in Nat /\ MaxHeight \in Nat /\ \A i \in 0 .. N - 1 : i \in Heights
  BY BoundAssumption DEF Heights, NoIndex
<1>2. N \in S /\ S \in SUBSET Nat
  BY <1>1
<1>3. PICK n \in S : \A m \in S : n <= m
  <2> HIDE DEF S
  <2> QED BY <1>2, LeastNat
<1>4. Ends(n)
  <2>1. ASSUME NEW i \in 0 .. n - 1 PROVE blocks[i] # NoBlock
    <3>1. i \in 0 .. N /\ ~ (n <= i)
      BY <1>1
    <3> QED BY <1>3, <3>1
  <2> QED BY <2>1
<1>5. LoadedLength = CHOOSE l : Ends(l)
  BY DEF LoadedLength
<1>6. Ends(LoadedLength)
  <2> HIDE DEF Ends
  <2> QED BY <1>4, <1>5
<1> QED BY <1>1, <1>6

LEMMA LoadedChainIs ==
    ASSUME blocks \in [Heights -> Block], lastIndex \in Heights \cup {NoIndex}
    PROVE  /\ LoadedChain \in Seq(Block)
           /\ Len(LoadedChain) = LoadedLength
           /\ \A i \in 1 .. LoadedLength :
                 i - 1 \in Heights /\ LoadedChain[i] = blocks[i-1] /\ blocks[i-1] # NoBlock
<1> DEFINE n == LoadedLength
<1>1. n \in Nat /\ \A i \in 0 .. n - 1 : i \in Heights /\ blocks[i] # NoBlock
  <2>1. lastIndex + 1 \in Nat
    BY BoundAssumption DEF Heights, NoIndex
  <2> QED BY <2>1, LoadedLengthIs
<1>2. LoadedChain = [i \in 1 .. n |-> blocks[i-1]]
  BY DEF LoadedChain
<1> HIDE DEF n
<1>3. \A i \in 1 .. n : i - 1 \in Heights /\ blocks[i-1] # NoBlock /\ blocks[i-1] \in Block
  BY <1>1
<1>4. LoadedChain \in Seq(Block) /\ Len(LoadedChain) = n
  BY <1>1, <1>2, <1>3
<1> QED BY <1>2, <1>3, <1>4 DEF n

\* The type invariant by groups of variables.
MemoryTyped ==
    /\ status \in {"down", "spawning", "indexing", "up"}
    /\ Chain \in Seq(Block)
    /\ State \in LedgerStates
    /\ Mempool \in Seq(Transfers)
    /\ MinerAddress \in Miners
    /\ TargetDifficulty \in Nat
    /\ Mu \in Threads \cup {Free}
    /\ reorg \in [step : {"none", "deleted", "saved", "unsaved"}, block : Block]

CallsTyped ==
    /\ pc \in [Threads -> PcStates]
    /\ parent \in [Threads -> Block]
    /\ newBlock \in [Threads -> Block]
    /\ feeTotal \in [Threads -> Nat]
    /\ currentSupply \in [Threads -> Nat]
    /\ cursor \in [Threads -> Nat]
    /\ blockBytes \in [Threads -> Nat]

DiskTyped == blocks \in [Heights -> Block] /\ lastIndex \in Heights \cup {NoIndex}

\* What the types need: a running process has a chain and one that is about to
\* spawn a genesis block a difficulty for it, every block but the first has a
\* height of its own range, ...
MemorySound ==
    /\ status \in {"indexing", "up"} => Chain # <<>>
    /\ status = "spawning" => TargetDifficulty \in InitialDifficulties
    /\ status # "up" => reorg = NoReorg
    /\ \A i \in 2 .. Len(Chain) : Chain[i].index \in 1 .. MaxHeight
    /\ reorg.step # "none" => reorg.block.index \in 1 .. MaxHeight

\* ... a call starts below the highest block and counts its entries of the
\* mempool from one, ...
CallSound(t) ==
    /\ status # "up" => pc[t] = "idle"
    /\ pc[t] \notin {"idle", "panicked"} => parent[t].index < MaxHeight
    /\ pc[t] = "selecting" => cursor[t] >= 1
    /\ pc[t] \in {"assembled", "mined", "saved", "unsaved"}
         => newBlock[t].index \in 1 .. MaxHeight
CallsSound == \A t \in Threads : CallSound(t)

\* ... and a key of the database above block_0 holds a block of its height.
DiskSound ==
    \A n \in 1 .. MaxHeight : blocks[n] # NoBlock => blocks[n].index = n

TypeInv == /\ MemoryTyped /\ CallsTyped /\ DiskTyped
           /\ MemorySound /\ CallsSound /\ DiskSound

LEMMA TypeInvTypes == TypeInv => TypeOK
  BY DEF TypeInv, MemoryTyped, CallsTyped, DiskTyped, TypeOK, LedgerStates

LEMMA NoBlockTyped == NoBlock \in Block /\ NoBlock.index = 0
  BY DEF NoBlock, Block, Miners, Accounts, Policies

LEMMA NoReorgTyped ==
    /\ NoReorg \in [step : {"none", "deleted", "saved", "unsaved"}, block : Block]
    /\ NoReorg.step = "none"
  BY NoBlockTyped DEF NoReorg

\* Memory as a process finds it at its start.
LEMMA FreshMemory ==
    ASSUME status' = "down", Chain' = <<>>, State' = NoState, Mempool' = <<>>,
           MinerAddress' = SYSTEM_MINER, TargetDifficulty' = 0,
           Mu' = Free, reorg' = NoReorg,
           pc' = PerThread("idle"), parent' = PerThread(NoBlock),
           newBlock' = PerThread(NoBlock), feeTotal' = PerThread(0),
           currentSupply' = PerThread(0), cursor' = PerThread(0),
           blockBytes' = PerThread(0)
    PROVE  MemoryTyped' /\ MemorySound' /\ CallsTyped' /\ CallsSound'
<1>1. MemoryTyped'
  BY NoStateTyped, NoReorgTyped DEF MemoryTyped, Miners
<1>2. MemorySound'
  BY NoReorgTyped DEF MemorySound
<1>3. CallsTyped'
  BY NoBlockTyped DEF CallsTyped, PerThread, PcStates
<1>4. CallsSound'
  BY DEF CallsSound, CallSound, PerThread
<1> QED BY <1>1, <1>2, <1>3, <1>4

LEMMA InitTyped == Init => TypeInv
<1> SUFFICES ASSUME Init PROVE TypeInv
  OBVIOUS
<1>1. MemoryTyped
  BY NoStateTyped, NoReorgTyped DEF Init, MemoryTyped, Miners
<1>2. MemorySound
  BY NoReorgTyped DEF Init, MemorySound
<1>3. CallsTyped
  BY NoBlockTyped DEF Init, CallsTyped, PerThread, PcStates
<1>4. CallsSound
  BY DEF Init, CallsSound, CallSound, PerThread
<1>5. DiskTyped
  BY NoBlockTyped, GenesisAssumption, BoundAssumption DEF Init, DiskTyped, Heights, NoIndex
<1>6. DiskSound
  BY BoundAssumption DEF Init, DiskSound, Heights
<1> QED BY <1>1, <1>2, <1>3, <1>4, <1>5, <1>6 DEF TypeInv

LEMMA TypeInitialize ==
    ASSUME TypeInv, NEW m \in Miners, NEW d \in InitialDifficulties,
           InitializeLedger(m, d)
    PROVE  TypeInv'
<1>1. /\ status = "down" /\ MinerAddress' = m /\ TargetDifficulty' = d
      /\ Mempool' = Mempool /\ Mu' = Mu /\ reorg' = reorg
      /\ UNCHANGED locals
  BY DEF InitializeLedger
<1>2. MinerAddress' \in Miners /\ TargetDifficulty' \in Nat /\ reorg = NoReorg
  BY <1>1, GenesisAssumption DEF TypeInv, MemorySound
<1>3. /\ Chain' \in Seq(Block) /\ State' \in LedgerStates
      /\ status' \in {"spawning", "up"} /\ (status' = "up" => Chain' = LoadedChain /\ Chain' # <<>>)
      /\ Chain' # LoadedChain => Chain' = Chain
  <2>1. LoadedChain \in Seq(Block)
    BY LoadedChainIs DEF TypeInv, DiskTyped
  <2>2. Replay(LoadedChain) \in LedgerStates
    BY <2>1, ReplayTyped
  <2> QED BY <2>1, <2>2 DEF InitializeLedger, TypeInv, MemoryTyped
<1>4. MemoryTyped'
  BY <1>1, <1>2, <1>3 DEF TypeInv, MemoryTyped
<1>5. \A i \in 2 .. Len(LoadedChain) : LoadedChain[i].index \in 1 .. MaxHeight
  <2> SUFFICES ASSUME NEW i \in 2 .. Len(LoadedChain)
               PROVE  LoadedChain[i].index \in 1 .. MaxHeight
    OBVIOUS
  <2>1. i - 1 \in Heights /\ LoadedChain[i] = blocks[i-1] /\ blocks[i-1] # NoBlock
    BY LoadedChainIs DEF TypeInv, DiskTyped
  <2>2. i - 1 \in 1 .. MaxHeight
    BY <2>1, BoundAssumption DEF Heights
  <2> QED BY <2>1, <2>2 DEF TypeInv, DiskSound
<1>6. MemorySound'
  BY <1>1, <1>2, <1>3, <1>5 DEF TypeInv, MemorySound
<1>7. CallsTyped' /\ CallsSound'
  BY <1>1 DEF TypeInv, CallsTyped, CallsSound, CallSound, locals
<1>8. DiskTyped' /\ DiskSound'
  <2>1. \/ UNCHANGED <<blocks, lastIndex>>
        \/ blocks' = [n \in Heights |-> NoBlock] /\ lastIndex' = NoIndex
    BY DEF InitializeLedger, disk
  <2>2. CASE UNCHANGED <<blocks, lastIndex>>
    BY <2>2 DEF TypeInv, DiskTyped, DiskSound
  <2>3. CASE blocks' = [n \in Heights |-> NoBlock] /\ lastIndex' = NoIndex
    BY <2>3, NoBlockTyped, BoundAssumption DEF DiskTyped, DiskSound, Heights
  <2> QED BY <2>1, <2>2, <2>3
<1> QED BY <1>4, <1>6, <1>7, <1>8 DEF TypeInv

LEMMA TypeSpawn ==
    ASSUME TypeInv, SpawnGenesis
    PROVE  TypeInv'
<1>1. PICK h \in GenesisHashes[TargetDifficulty] :
        LET genesis == [NoBlock EXCEPT !.hash = h, !.work = TargetDifficulty,
                          !.time = GenesisTime, !.diff = TargetDifficulty,
                          !.reward = CalculateBlockReward(0)]
        IN  /\ Chain' = <<genesis>>
            /\ \/ PutBlock(genesis) /\ status' = "indexing"
               \/ DiskFaults /\ UNCHANGED blocks /\ status' = "up"
  BY DEF SpawnGenesis
<1> DEFINE genesis == [NoBlock EXCEPT !.hash = h, !.work = TargetDifficulty,
                         !.time = GenesisTime, !.diff = TargetDifficulty,
                         !.reward = CalculateBlockReward(0)]
<1>2. genesis \in Block /\ genesis.index = 0
  <2>1. TargetDifficulty \in InitialDifficulties /\ status = "spawning"
    BY DEF TypeInv, MemorySound, SpawnGenesis
  <2>2. h \in Hash /\ TargetDifficulty \in Nat /\ GenesisTime \in Nat
    BY <2>1, GenesisAssumption
  <2>3. CalculateBlockReward(0) \in Nat
    BY RewardRange, RewardAssumption, SupplyAssumption
  <2>4. NoBlock \in Block /\ NoBlock.index = 0
    BY NoBlockTyped
  <2> QED BY <2>2, <2>3, <2>4 DEF Block
<1>3. /\ Chain' = <<genesis>> /\ status' \in {"indexing", "up"}
      /\ blocks' = [blocks EXCEPT ![0] = genesis] \/ blocks' = blocks
      /\ UNCHANGED <<State, Mempool, MinerAddress, TargetDifficulty, Mu, reorg, lastIndex>>
      /\ UNCHANGED locals /\ status # "up"
  BY <1>1, <1>2 DEF SpawnGenesis, PutBlock
<1> HIDE DEF genesis
<1>4. MemoryTyped'
  BY <1>2, <1>3 DEF TypeInv, MemoryTyped
<1>5. MemorySound'
  <2>1. reorg = NoReorg
    BY <1>3 DEF TypeInv, MemorySound
  <2> QED BY <1>2, <1>3, <2>1, NoReorgTyped DEF MemorySound
<1>6. CallsTyped' /\ CallsSound'
  BY <1>3 DEF TypeInv, CallsTyped, CallsSound, CallSound, locals
<1>7. DiskTyped' /\ DiskSound'
  <2>1. blocks' \in [Heights -> Block] /\ \A n \in 1 .. MaxHeight : blocks'[n] = blocks[n]
    BY <1>2, <1>3, BoundAssumption DEF TypeInv, DiskTyped, Heights
  <2> QED BY <1>3, <2>1 DEF TypeInv, DiskTyped, DiskSound
<1> QED BY <1>4, <1>5, <1>6, <1>7 DEF TypeInv

LEMMA TypeIndexGenesis ==
    ASSUME TypeInv, IndexGenesis
    PROVE  TypeInv'
<1>1. /\ status = "indexing" /\ status' = "up"
      /\ UNCHANGED <<Chain, State, Mempool, MinerAddress, TargetDifficulty, Mu, reorg>>
      /\ UNCHANGED locals /\ UNCHANGED blocks
      /\ lastIndex' = 0 \/ lastIndex' = lastIndex
  BY DEF IndexGenesis, PutLastIndex, memory
<1>2. MemoryTyped' /\ MemorySound'
  BY <1>1 DEF TypeInv, MemoryTyped, MemorySound
<1>3. CallsTyped' /\ CallsSound'
  BY <1>1 DEF TypeInv, CallsTyped, CallsSound, CallSound, locals
<1>4. DiskTyped' /\ DiskSound'
  BY <1>1, BoundAssumption DEF TypeInv, DiskTyped, DiskSound, Heights
<1> QED BY <1>2, <1>3, <1>4 DEF TypeInv

LEMMA TypeEnds ==
    ASSUME TypeInv, ProcessEnds
    PROVE  TypeInv'
<1>1. MemoryTyped' /\ MemorySound' /\ CallsTyped' /\ CallsSound'
  BY FreshMemory DEF ProcessEnds
<1>2. DiskTyped' /\ DiskSound'
  BY DEF ProcessEnds, disk, TypeInv, DiskTyped, DiskSound
<1> QED BY <1>1, <1>2 DEF TypeInv

LEMMA TypeCrash ==
    ASSUME TypeInv, Crash
    PROVE  TypeInv'
BY TypeEnds DEF Crash

\* A step of one call concerns that call only.
LEMMA TypeOneCall ==
    ASSUME TypeInv, NEW t \in Threads, status = "up", status' = "up", CallsTyped',
           \A u \in Threads \ {t} :
               /\ pc'[u] = pc[u] /\ parent'[u] = parent[u]
               /\ newBlock'[u] = newBlock[u] /\ cursor'[u] = cursor[u],
           CallSound(t)'
    PROVE  CallsSound'
<1> SUFFICES ASSUME NEW u \in Threads PROVE CallSound(u)'
  BY DEF CallsSound
<1>1. CASE u = t
  BY <1>1
<1>2. CASE u # t
  <2>1. CallSound(u)
    BY DEF TypeInv, CallsSound
  <2>2. /\ pc'[u] = pc[u] /\ parent'[u] = parent[u]
        /\ newBlock'[u] = newBlock[u] /\ cursor'[u] = cursor[u]
    BY <1>2
  <2> QED BY <2>1, <2>2 DEF CallSound
<1> QED BY <1>1, <1>2

\* A step that ends a call.
LEMMA TypeCallEnds ==
    ASSUME TypeInv, NEW t \in Threads, NEW step \in {"idle", "panicked"},
           status = "up", status' = "up",
           \/ /\ pc' = [pc EXCEPT ![t] = step]
              /\ UNCHANGED <<parent, newBlock, feeTotal, currentSupply, cursor, blockBytes>>
           \/ Finish(t, step)
    PROVE  CallsTyped' /\ CallsSound'
<1>1. pc' = [pc EXCEPT ![t] = step]
  BY DEF Finish
<1>2. CallsTyped'
  <2>1. pc' \in [Threads -> PcStates]
    BY <1>1 DEF TypeInv, CallsTyped, PcStates
  <2> QED BY <2>1, NoBlockTyped DEF TypeInv, CallsTyped, Finish
<1>3. \A u \in Threads \ {t} :
          /\ pc'[u] = pc[u] /\ parent'[u] = parent[u]
          /\ newBlock'[u] = newBlock[u] /\ cursor'[u] = cursor[u]
  BY <1>1 DEF TypeInv, CallsTyped, Finish
<1>4. CallSound(t)'
  BY <1>1 DEF TypeInv, CallsTyped, CallSound
<1> QED BY <1>2, <1>3, <1>4, TypeOneCall

\* A call that is under way belongs to a running process.
LEMMA CallUp ==
    ASSUME TypeInv, NEW t \in Threads, pc[t] # "idle"
    PROVE  status = "up" /\ Chain # <<>> /\ Tip(Chain) \in Block
<1>1. status = "up" /\ Chain # <<>>
  BY DEF TypeInv, CallsSound, CallSound, MemorySound
<1>2. Len(Chain) \in 1 .. Len(Chain)
  BY <1>1 DEF TypeInv, MemoryTyped
<1> QED BY <1>1, <1>2 DEF TypeInv, MemoryTyped, Tip

LEMMA TypeReject ==
    ASSUME TypeInv, NEW t \in Threads, RejectMiner(t) \/ RecoverPanic(t)
    PROVE  TypeInv'
<1>1. /\ status = "up" /\ status' = "up"
      /\ pc' = [pc EXCEPT ![t] = "panicked"] \/ pc' = [pc EXCEPT ![t] = "idle"]
      /\ UNCHANGED <<parent, newBlock, feeTotal, currentSupply, cursor, blockBytes>>
      /\ UNCHANGED <<memory, Mu, reorg, disk>>
  BY CallUp DEF RejectMiner, RecoverPanic, CanMine
<1>2. CallsTyped' /\ CallsSound'
  BY <1>1, TypeCallEnds
<1>3. MemoryTyped' /\ MemorySound'
  BY <1>1 DEF TypeInv, MemoryTyped, MemorySound, memory
<1>4. DiskTyped' /\ DiskSound'
  BY <1>1 DEF TypeInv, DiskTyped, DiskSound, disk
<1> QED BY <1>2, <1>3, <1>4 DEF TypeInv

LEMMA TypeMineBlock ==
    ASSUME TypeInv, NEW t \in Threads, MineBlock(t)
    PROVE  TypeInv'
<1>1. /\ status = "up" /\ status' = "up" /\ Mu' = t
      /\ pc' = [pc EXCEPT ![t] = "selecting"]
      /\ parent' = [parent EXCEPT ![t] = Tip(Chain)]
      /\ cursor' = [cursor EXCEPT ![t] = 1]
      /\ blockBytes' = [blockBytes EXCEPT ![t] = HeaderReserve]
      /\ UNCHANGED <<newBlock, feeTotal, currentSupply>>
      /\ UNCHANGED <<memory, reorg, disk>>
      /\ Tip(Chain).index < MaxHeight
  BY DEF MineBlock, CanMine, Lock
<1>2. Tip(Chain) \in Block
  <2>1. Chain # <<>>
    BY <1>1 DEF TypeInv, MemorySound
  <2>2. Len(Chain) \in 1 .. Len(Chain)
    BY <2>1 DEF TypeInv, MemoryTyped
  <2> QED BY <2>2 DEF TypeInv, MemoryTyped, Tip
<1>3. CallsTyped'
  BY <1>1, <1>2, BoundAssumption DEF TypeInv, CallsTyped, PcStates
<1>4. CallsSound'
  <2>1. \A u \in Threads \ {t} :
            /\ pc'[u] = pc[u] /\ parent'[u] = parent[u]
            /\ newBlock'[u] = newBlock[u] /\ cursor'[u] = cursor[u]
    BY <1>1 DEF TypeInv, CallsTyped
  <2>2. CallSound(t)'
    BY <1>1 DEF TypeInv, CallsTyped, CallSound
  <2> QED BY <1>1, <1>3, <2>1, <2>2, TypeOneCall
<1>5. MemoryTyped' /\ MemorySound'
  BY <1>1 DEF TypeInv, MemoryTyped, MemorySound, memory
<1>6. DiskTyped' /\ DiskSound'
  BY <1>1 DEF TypeInv, DiskTyped, DiskSound, disk
<1> QED BY <1>3, <1>4, <1>5, <1>6 DEF TypeInv

LEMMA TypeSelect ==
    ASSUME TypeInv, NEW t \in Threads, SelectTransfer(t)
    PROVE  TypeInv'
<1> DEFINE tx == Candidate(t)
           rest == State[tx.from].balance - Cost(tx)
           nonce == State[tx.from].nonce + 1
           debited == [State EXCEPT ![tx.from].balance = rest, ![tx.from].nonce = nonce]
<1>1. /\ pc[t] = "selecting" /\ pc' = pc /\ status' = status
      /\ cursor' = [cursor EXCEPT ![t] = @ + 1]
      /\ feeTotal' = [feeTotal EXCEPT ![t] = Plus(@, tx.fee)]
      /\ blockBytes' = [blockBytes EXCEPT ![t] = @ + tx.size]
      /\ newBlock' = [newBlock EXCEPT ![t].txs = Append(@, tx)]
      /\ UNCHANGED <<Chain, Mempool, MinerAddress, TargetDifficulty, Mu, reorg, parent,
                     currentSupply, disk>>
  BY DEF SelectTransfer, AtTransfer
<1>2. status = "up" /\ cursor[t] \in 1 .. Len(Mempool)
  <2>1. cursor[t] \in Nat /\ cursor[t] >= 1 /\ cursor[t] <= Len(Mempool)
    BY <1>1 DEF SelectTransfer, AtTransfer, TypeInv, CallsTyped, CallsSound, CallSound
  <2> QED BY <1>1, <2>1, CallUp DEF TypeInv, MemoryTyped
<1>3. tx \in Transfers
  BY <1>2 DEF Candidate, TypeInv, MemoryTyped
<1>4. State' = Credit(debited, tx.to, tx.value)
  BY <1>3, TransferFields DEF SelectTransfer, TypeInv, MemoryTyped, LedgerStates
<1>5. rest \in 0 .. Word - 1 /\ nonce \in Nat
  <2>1. State[tx.from] \in [balance : 0 .. Word - 1, nonce : Nat]
    BY <1>3, TransferFields DEF TypeInv, MemoryTyped, LedgerStates
  <2>2. State[tx.from].balance \in 0 .. Word - 1 /\ State[tx.from].nonce \in Nat
    BY <2>1
  <2>3. Cost(tx) \in 0 .. Word - 1 /\ Word \in Nat \ {0}
    BY <1>3, TransferFields, WordPositive
  <2>4. State[tx.from].balance >= Cost(tx)
    BY DEF SelectTransfer, Affordable
  <2> HIDE DEF tx
  <2> QED BY <2>2, <2>3, <2>4
<1> HIDE DEF tx, rest, nonce
<1>6. State' \in LedgerStates
  <2>1. debited \in LedgerStates
    BY <1>5, DebitTyped DEF TypeInv, MemoryTyped
  <2> HIDE DEF debited
  <2> QED BY <1>3, <1>4, <2>1, TransferFields, CreditTyped
<1>7. CallsTyped'
  <2>1. newBlock' \in [Threads -> Block]
    <3>1. newBlock[t] \in Block /\ newBlock[t].txs \in Seq(Transfers)
      BY BlockFields DEF TypeInv, CallsTyped
    <3>2. Append(newBlock[t].txs, tx) \in Seq(Transfers)
      BY <1>3, <3>1
    <3>3. [newBlock[t] EXCEPT !.txs = Append(@, tx)] \in Block
      BY <3>1, <3>2 DEF Block
    <3> QED BY <1>1, <3>3 DEF TypeInv, CallsTyped
  <2>2. feeTotal' \in [Threads -> Nat] /\ blockBytes' \in [Threads -> Nat]
    <3>1. tx.fee \in Nat /\ tx.size \in Nat
      BY <1>3, TransferFields
    <3>2. feeTotal[t] \in Nat /\ blockBytes[t] \in Nat
      BY DEF TypeInv, CallsTyped
    <3>3. Plus(feeTotal[t], tx.fee) \in Nat
      BY <3>1, <3>2, PlusNat
    <3> QED BY <1>1, <3>1, <3>2, <3>3 DEF TypeInv, CallsTyped
  <2> QED BY <1>1, <2>1, <2>2 DEF TypeInv, CallsTyped
<1>8. CallsSound'
  <2>1. \A u \in Threads \ {t} :
            /\ pc'[u] = pc[u] /\ parent'[u] = parent[u]
            /\ newBlock'[u] = newBlock[u] /\ cursor'[u] = cursor[u]
    BY <1>1 DEF TypeInv, CallsTyped
  <2>2. CallSound(t)'
    <3>1. cursor'[t] >= 1
      BY <1>1, <1>2 DEF TypeInv, CallsTyped
    <3>2. parent'[t].index < MaxHeight
      BY <1>1 DEF TypeInv, CallsSound, CallSound
    <3> QED BY <1>1, <1>2, <3>1, <3>2 DEF CallSound
  <2> QED BY <1>1, <1>2, <1>7, <2>1, <2>2, TypeOneCall
<1>9. MemoryTyped' /\ MemorySound'
  BY <1>1, <1>6 DEF TypeInv, MemoryTyped, MemorySound
<1>10. DiskTyped' /\ DiskSound'
  BY <1>1 DEF TypeInv, DiskTyped, DiskSound, disk
<1> QED BY <1>7, <1>8, <1>9, <1>10 DEF TypeInv

LEMMA TypeSkip ==
    ASSUME TypeInv, NEW t \in Threads, SkipTransfer(t)
    PROVE  TypeInv'
<1>1. /\ pc[t] = "selecting" /\ pc' = pc /\ status' = status
      /\ cursor' = [cursor EXCEPT ![t] = @ + 1]
      /\ UNCHANGED <<memory, Mu, reorg, parent, newBlock, feeTotal, currentSupply,
                     blockBytes, disk>>
  BY DEF SkipTransfer, AtTransfer
<1>2. status = "up" /\ cursor[t] \in Nat /\ cursor[t] >= 1
  BY <1>1, CallUp DEF TypeInv, CallsTyped, CallsSound, CallSound
<1>3. CallsTyped'
  BY <1>1, <1>2 DEF TypeInv, CallsTyped
<1>4. CallsSound'
  <2>1. \A u \in Threads \ {t} :
            /\ pc'[u] = pc[u] /\ parent'[u] = parent[u]
            /\ newBlock'[u] = newBlock[u] /\ cursor'[u] = cursor[u]
    BY <1>1 DEF TypeInv, CallsTyped
  <2>2. CallSound(t)'
    <3>1. cursor'[t] >= 1
      BY <1>1, <1>2 DEF TypeInv, CallsTyped
    <3>2. parent'[t].index < MaxHeight
      BY <1>1 DEF TypeInv, CallsSound, CallSound
    <3> QED BY <1>1, <1>2, <3>1, <3>2 DEF CallSound
  <2> QED BY <1>1, <1>2, <1>3, <2>1, <2>2, TypeOneCall
<1>5. MemoryTyped' /\ MemorySound'
  BY <1>1 DEF TypeInv, MemoryTyped, MemorySound, memory
<1>6. DiskTyped' /\ DiskSound'
  BY <1>1 DEF TypeInv, DiskTyped, DiskSound, disk
<1> QED BY <1>3, <1>4, <1>5, <1>6 DEF TypeInv

LEMMA TypeFinishSelection ==
    ASSUME TypeInv, NEW t \in Threads, FinishSelection(t)
    PROVE  TypeInv'
<1>1. /\ pc[t] = "selecting" /\ pc' = [pc EXCEPT ![t] = "selected"] /\ status' = status
      /\ cursor' = [cursor EXCEPT ![t] = 0]
      /\ blockBytes' = [blockBytes EXCEPT ![t] = 0]
      /\ Mempool' = SubSeq(Mempool, Len(newBlock[t].txs) + 1, Len(Mempool))
      /\ Mu' = Free
      /\ UNCHANGED <<Chain, State, MinerAddress, TargetDifficulty, reorg, parent,
                     newBlock, feeTotal, currentSupply, disk>>
  BY DEF FinishSelection, Unlock
<1>2. status = "up"
  BY <1>1, CallUp
<1>3. CallsTyped'
  BY <1>1 DEF TypeInv, CallsTyped, PcStates
<1>4. CallsSound'
  <2>1. \A u \in Threads \ {t} :
            /\ pc'[u] = pc[u] /\ parent'[u] = parent[u]
            /\ newBlock'[u] = newBlock[u] /\ cursor'[u] = cursor[u]
    BY <1>1 DEF TypeInv, CallsTyped
  <2>2. CallSound(t)'
    <3>1. parent'[t].index < MaxHeight
      BY <1>1 DEF TypeInv, CallsSound, CallSound
    <3>2. pc'[t] = "selected"
      BY <1>1 DEF TypeInv, CallsTyped
    <3> QED BY <1>1, <1>2, <3>1, <3>2 DEF CallSound
  <2> QED BY <1>1, <1>2, <1>3, <2>1, <2>2, TypeOneCall
<1>5. Mempool' \in Seq(Transfers)
  <2>1. Len(newBlock[t].txs) \in Nat
    BY BlockFields DEF TypeInv, CallsTyped
  <2> DEFINE n == Len(newBlock[t].txs)
  <2> HIDE DEF n
  <2>2. Mempool \in Seq(Transfers) /\ n \in Nat /\ Mempool' = SubSeq(Mempool, n + 1, Len(Mempool))
    BY <1>1, <2>1 DEF n, TypeInv, MemoryTyped
  <2> QED BY <2>2
<1>6. MemoryTyped' /\ MemorySound'
  BY <1>1, <1>5 DEF TypeInv, MemoryTyped, MemorySound
<1>7. DiskTyped' /\ DiskSound'
  BY <1>1 DEF TypeInv, DiskTyped, DiskSound, disk
<1> QED BY <1>3, <1>4, <1>6, <1>7 DEF TypeInv

LEMMA TypeReward ==
    ASSUME TypeInv, NEW t \in Threads, ComputeReward(t)
    PROVE  TypeInv'
<1> DEFINE supply == GetTotalCirculatingSupply(Chain)
           reward == AllowedReward(parent[t].index + 1, supply)
<1>1. /\ pc[t] = "selected" /\ pc' = [pc EXCEPT ![t] = "priced"] /\ status' = status
      /\ currentSupply' = [currentSupply EXCEPT ![t] = supply]
      /\ newBlock' = [newBlock EXCEPT ![t].reward = reward]
      /\ UNCHANGED <<memory, Mu, reorg, parent, feeTotal, cursor, blockBytes, disk>>
  BY DEF ComputeReward
<1>2. status = "up"
  BY <1>1, CallUp
<1>3. supply \in Nat
  BY SupplyNat DEF TypeInv, MemoryTyped
<1>4. reward \in Nat
  <2>1. parent[t].index + 1 \in Nat
    BY BlockFields DEF TypeInv, CallsTyped
  <2> HIDE DEF supply
  <2> QED BY <1>3, <2>1, AllowedFits
<1> HIDE DEF supply, reward
<1>5. CallsTyped'
  <2>1. newBlock' \in [Threads -> Block]
    <3>1. [newBlock[t] EXCEPT !.reward = reward] \in Block
      BY <1>4 DEF TypeInv, CallsTyped, Block
    <3> QED BY <1>1, <3>1 DEF TypeInv, CallsTyped
  <2> QED BY <1>1, <1>3, <2>1 DEF TypeInv, CallsTyped, PcStates
<1>6. CallsSound'
  <2>1. \A u \in Threads \ {t} :
            /\ pc'[u] = pc[u] /\ parent'[u] = parent[u]
            /\ newBlock'[u] = newBlock[u] /\ cursor'[u] = cursor[u]
    BY <1>1 DEF TypeInv, CallsTyped
  <2>2. CallSound(t)'
    <3>1. parent'[t].index < MaxHeight
      BY <1>1 DEF TypeInv, CallsSound, CallSound
    <3>2. pc'[t] = "priced"
      BY <1>1 DEF TypeInv, CallsTyped
    <3> QED BY <1>1, <1>2, <3>1, <3>2 DEF CallSound
  <2> QED BY <1>1, <1>2, <1>5, <2>1, <2>2, TypeOneCall
<1>7. MemoryTyped' /\ MemorySound'
  BY <1>1 DEF TypeInv, MemoryTyped, MemorySound, memory
<1>8. DiskTyped' /\ DiskSound'
  BY <1>1 DEF TypeInv, DiskTyped, DiskSound, disk
<1> QED BY <1>5, <1>6, <1>7, <1>8 DEF TypeInv

LEMMA TypeAdjust ==
    ASSUME TypeInv, NEW t \in Threads, AdjustDifficulty(t)
    PROVE  TypeInv'
<1>1. PICK now \in Clock :
        LET time == BlockTime(now, parent[t].time)
        IN  /\ newBlock' = [newBlock EXCEPT ![t].time = time]
            /\ TargetDifficulty' =
                 CalculateNextDifficulty(parent[t].time, time, parent[t].diff)
  BY DEF AdjustDifficulty
<1> DEFINE time == BlockTime(now, parent[t].time)
<1>2. /\ pc[t] = "priced" /\ pc' = [pc EXCEPT ![t] = "retargeted"] /\ status' = status
      /\ newBlock' = [newBlock EXCEPT ![t].time = time]
      /\ TargetDifficulty' = CalculateNextDifficulty(parent[t].time, time, parent[t].diff)
      /\ UNCHANGED <<Chain, State, Mempool, MinerAddress, Mu, reorg, parent, feeTotal,
                     currentSupply, cursor, blockBytes, disk>>
  BY <1>1 DEF AdjustDifficulty
<1>3. status = "up"
  BY <1>2, CallUp
<1>4. time \in Nat /\ TargetDifficulty' \in Nat
  <2>1. parent[t].time \in Nat /\ parent[t].diff \in Nat
    BY BlockFields DEF TypeInv, CallsTyped
  <2>2. time \in Nat
    BY <2>1, ClockAssumption DEF BlockTime
  <2> HIDE DEF time
  <2> QED BY <1>2, <2>1, <2>2, DifficultyRange
<1> HIDE DEF time
<1>5. CallsTyped'
  <2>1. newBlock' \in [Threads -> Block]
    <3>1. [newBlock[t] EXCEPT !.time = time] \in Block
      BY <1>4 DEF TypeInv, CallsTyped, Block
    <3> QED BY <1>2, <3>1 DEF TypeInv, CallsTyped
  <2> QED BY <1>2, <2>1 DEF TypeInv, CallsTyped, PcStates
<1>6. CallsSound'
  <2>1. \A u \in Threads \ {t} :
            /\ pc'[u] = pc[u] /\ parent'[u] = parent[u]
            /\ newBlock'[u] = newBlock[u] /\ cursor'[u] = cursor[u]
    BY <1>2 DEF TypeInv, CallsTyped
  <2>2. CallSound(t)'
    <3>1. parent'[t].index < MaxHeight
      BY <1>2 DEF TypeInv, CallsSound, CallSound
    <3>2. pc'[t] = "retargeted"
      BY <1>2 DEF TypeInv, CallsTyped
    <3> QED BY <1>2, <1>3, <3>1, <3>2 DEF CallSound
  <2> QED BY <1>2, <1>3, <1>5, <2>1, <2>2, TypeOneCall
<1>7. MemoryTyped' /\ MemorySound'
  BY <1>2, <1>3, <1>4 DEF TypeInv, MemoryTyped, MemorySound
<1>8. DiskTyped' /\ DiskSound'
  BY <1>2 DEF TypeInv, DiskTyped, DiskSound, disk
<1> QED BY <1>5, <1>6, <1>7, <1>8 DEF TypeInv

LEMMA TypeAssemble ==
    ASSUME TypeInv, NEW t \in Threads, AssembleBlock(t)
    PROVE  TypeInv'
<1> DEFINE index == parent[t].index + 1
           b == [newBlock[t] EXCEPT !.index = index, !.prev = parent[t].hash,
                                    !.miner = MinerAddress, !.diff = TargetDifficulty]
<1>1. /\ pc[t] = "retargeted" /\ pc' = [pc EXCEPT ![t] = "assembled"] /\ status' = status
      /\ newBlock' = [newBlock EXCEPT ![t] = b]
      /\ UNCHANGED <<memory, Mu, reorg, parent, feeTotal, currentSupply, cursor,
                     blockBytes, disk>>
  BY DEF AssembleBlock, TypeInv, CallsTyped
<1>2. status = "up" /\ parent[t].index < MaxHeight /\ parent[t] \in Block
  BY <1>1, CallUp DEF TypeInv, CallsTyped, CallsSound, CallSound
<1>3. index \in 1 .. MaxHeight
  BY <1>2, BlockFields, BoundAssumption
<1>4. b \in Block /\ b.index = index
  <2> HIDE DEF index
  <2>1. parent[t].hash \in Hash \cup {NoHash} /\ MinerAddress \in Miners
        /\ TargetDifficulty \in Nat /\ newBlock[t] \in Block /\ index \in Nat
    BY <1>2, <1>3, BlockFields DEF TypeInv, MemoryTyped, CallsTyped
  <2> QED BY <2>1 DEF Block
<1> HIDE DEF b, index
<1>5. CallsTyped'
  BY <1>1, <1>4 DEF TypeInv, CallsTyped, PcStates
<1>6. CallsSound'
  <2>1. \A u \in Threads \ {t} :
            /\ pc'[u] = pc[u] /\ parent'[u] = parent[u]
            /\ newBlock'[u] = newBlock[u] /\ cursor'[u] = cursor[u]
    BY <1>1 DEF TypeInv, CallsTyped
  <2>2. CallSound(t)'
    <3>1. parent'[t].index < MaxHeight
      BY <1>1, <1>2
    <3>2. pc'[t] = "assembled" /\ newBlock'[t].index \in 1 .. MaxHeight
      BY <1>1, <1>3, <1>4 DEF TypeInv, CallsTyped
    <3> QED BY <1>1, <1>2, <3>1, <3>2 DEF CallSound
  <2> QED BY <1>1, <1>2, <1>5, <2>1, <2>2, TypeOneCall
<1>7. MemoryTyped' /\ MemorySound'
  BY <1>1 DEF TypeInv, MemoryTyped, MemorySound, memory
<1>8. DiskTyped' /\ DiskSound'
  BY <1>1 DEF TypeInv, DiskTyped, DiskSound, disk
<1> QED BY <1>5, <1>6, <1>7, <1>8 DEF TypeInv

LEMMA TypeMine ==
    ASSUME TypeInv, NEW t \in Threads, MineAndValidate(t)
    PROVE  TypeInv'
<1>1. /\ pc[t] = "assembled" /\ status' = status
      /\ UNCHANGED <<memory, Mu, reorg, disk>>
  BY DEF MineAndValidate
<1>2. status = "up"
  BY <1>1, CallUp
<1>3. CallsTyped' /\ CallsSound'
  <2>1. PICK h \in Hash, work \in {TargetDifficulty, newBlock[t].diff} :
          LET b == [newBlock[t] EXCEPT !.hash = h, !.work = work]
          IN  IF ValidateBlockConsensus(b, parent[t], currentSupply[t])
              THEN /\ newBlock' = [newBlock EXCEPT ![t] = b]
                   /\ pc' = [pc EXCEPT ![t] = "mined"]
                   /\ UNCHANGED <<parent, feeTotal, currentSupply, cursor, blockBytes>>
              ELSE Finish(t, "panicked")
    BY DEF MineAndValidate
  <2> DEFINE b == [newBlock[t] EXCEPT !.hash = h, !.work = work]
  <2>2. CASE Finish(t, "panicked")
    BY <1>1, <1>2, <2>2, TypeCallEnds
  <2>3. CASE /\ newBlock' = [newBlock EXCEPT ![t] = b]
             /\ pc' = [pc EXCEPT ![t] = "mined"]
             /\ UNCHANGED <<parent, feeTotal, currentSupply, cursor, blockBytes>>
    <3>1. b \in Block /\ b.index = newBlock[t].index
      <4>1. newBlock[t] \in Block /\ TargetDifficulty \in Nat /\ newBlock[t].diff \in Nat
        BY BlockFields DEF TypeInv, MemoryTyped, CallsTyped
      <4> QED BY <4>1 DEF Block
    <3> HIDE DEF b
    <3>2. CallsTyped'
      BY <2>3, <3>1 DEF TypeInv, CallsTyped, PcStates
    <3>3. \A u \in Threads \ {t} :
              /\ pc'[u] = pc[u] /\ parent'[u] = parent[u]
              /\ newBlock'[u] = newBlock[u] /\ cursor'[u] = cursor[u]
      BY <2>3 DEF TypeInv, CallsTyped
    <3>4. CallSound(t)'
      <4>1. pc'[t] = "mined" /\ parent'[t] = parent[t] /\ newBlock'[t] = b
        BY <2>3 DEF TypeInv, CallsTyped
      <4>2. CallSound(t)
        BY DEF TypeInv, CallsSound
      <4> QED BY <1>1, <1>2, <3>1, <4>1, <4>2 DEF CallSound
    <3> QED BY <1>1, <1>2, <3>2, <3>3, <3>4, TypeOneCall
  <2> QED BY <2>1, <2>2, <2>3
<1>4. MemoryTyped' /\ MemorySound'
  BY <1>1 DEF TypeInv, MemoryTyped, MemorySound, memory
<1>5. DiskTyped' /\ DiskSound'
  BY <1>1 DEF TypeInv, DiskTyped, DiskSound, disk
<1> QED BY <1>3, <1>4, <1>5 DEF TypeInv

\* A block is written under the key of its height.
LEMMA TypePut ==
    ASSUME TypeInv, NEW b \in Block, b.index \in 1 .. MaxHeight,
           PutBlock(b) \/ UNCHANGED blocks, UNCHANGED lastIndex
    PROVE  DiskTyped' /\ DiskSound'
<1>1. b.index \in Heights
  BY DEF Heights
<1>2. blocks' = [blocks EXCEPT ![b.index] = b] \/ blocks' = blocks
  BY DEF PutBlock
<1>3. blocks' \in [Heights -> Block]
  BY <1>2 DEF TypeInv, DiskTyped
<1>4. ASSUME NEW n \in 1 .. MaxHeight, blocks'[n] # NoBlock PROVE blocks'[n].index = n
  <2>1. n \in Heights
    BY BoundAssumption DEF Heights
  <2>2. blocks'[n] = blocks[n] \/ (blocks'[n] = b /\ b.index = n)
    BY <1>2, <2>1 DEF TypeInv, DiskTyped
  <2> QED BY <1>4, <2>2 DEF TypeInv, DiskSound
<1> QED BY <1>3, <1>4 DEF TypeInv, DiskTyped, DiskSound

\* A block is appended to the chain.
LEMMA TypeAppend ==
    ASSUME TypeInv, NEW b \in Block, b.index \in 1 .. MaxHeight, Chain # <<>>,
           AppendBlock(b)
    PROVE  /\ Chain' \in Seq(Block) /\ Chain' # <<>>
           /\ \A i \in 2 .. Len(Chain') : Chain'[i].index \in 1 .. MaxHeight
<1>1. Chain \in Seq(Block) /\ Chain' = Append(Chain, b)
  BY DEF AppendBlock, TypeInv, MemoryTyped
<1>2. Chain' \in Seq(Block) /\ Len(Chain') = Len(Chain) + 1
      /\ \A i \in 1 .. Len(Chain) : Chain'[i] = Chain[i]
      /\ Chain'[Len(Chain) + 1] = b
  BY <1>1
<1>3. \A i \in 2 .. Len(Chain') : i \in 2 .. Len(Chain) \/ i = Len(Chain) + 1
  BY <1>1, <1>2
<1>4. Chain' # <<>>
  BY <1>1, <1>2
<1> QED BY <1>2, <1>3, <1>4 DEF TypeInv, MemorySound

LEMMA TypeCommit ==
    ASSUME TypeInv, NEW t \in Threads, CommitBlock(t)
    PROVE  TypeInv'
<1> DEFINE b == newBlock[t]
<1>1. /\ pc[t] = "mined" /\ status' = status /\ Mu' = t
      /\ AppendBlock(b)
      /\ PutBlock(b) \/ UNCHANGED blocks
      /\ pc' = [pc EXCEPT ![t] = "saved"] \/ pc' = [pc EXCEPT ![t] = "unsaved"]
      /\ UNCHANGED <<State, Mempool, MinerAddress, TargetDifficulty, reorg, parent,
                     newBlock, feeTotal, currentSupply, cursor, blockBytes, lastIndex>>
  BY DEF CommitBlock, Lock
<1>2. status = "up" /\ Chain # <<>> /\ b \in Block /\ b.index \in 1 .. MaxHeight
  BY <1>1, CallUp DEF TypeInv, CallsTyped, CallsSound, CallSound
<1>3. CallsTyped'
  BY <1>1 DEF TypeInv, CallsTyped, PcStates
<1>4. CallsSound'
  <2>1. \A u \in Threads \ {t} :
            /\ pc'[u] = pc[u] /\ parent'[u] = parent[u]
            /\ newBlock'[u] = newBlock[u] /\ cursor'[u] = cursor[u]
    BY <1>1 DEF TypeInv, CallsTyped
  <2>2. CallSound(t)'
    <3>1. parent'[t].index < MaxHeight
      BY <1>1 DEF TypeInv, CallsSound, CallSound
    <3>2. pc'[t] \in {"saved", "unsaved"} /\ newBlock'[t].index \in 1 .. MaxHeight
      BY <1>1, <1>2 DEF TypeInv, CallsTyped
    <3> QED BY <1>1, <1>2, <3>1, <3>2 DEF CallSound
  <2> QED BY <1>1, <1>2, <1>3, <2>1, <2>2, TypeOneCall
<1> HIDE DEF b
<1>5. MemoryTyped' /\ MemorySound'
  <2>1. /\ Chain' \in Seq(Block) /\ Chain' # <<>>
        /\ \A i \in 2 .. Len(Chain') : Chain'[i].index \in 1 .. MaxHeight
    BY <1>1, <1>2, TypeAppend
  <2> QED BY <1>1, <2>1 DEF TypeInv, MemoryTyped, MemorySound
<1>6. DiskTyped' /\ DiskSound'
  BY <1>1, <1>2, TypePut
<1> QED BY <1>3, <1>4, <1>5, <1>6 DEF TypeInv

LEMMA TypeCredit ==
    ASSUME TypeInv, NEW t \in Threads, CreditMiner(t)
    PROVE  TypeInv'
<1>1. /\ pc[t] \in {"saved", "unsaved"} /\ status' = status /\ Mu' = Free
      /\ State' = Credit(State, MinerAddress, TotalMinerReward(t))
      /\ Finish(t, "idle")
      /\ lastIndex' = newBlock[t].index \/ lastIndex' = lastIndex
      /\ UNCHANGED <<Chain, Mempool, MinerAddress, TargetDifficulty, reorg, blocks>>
  BY DEF CreditMiner, Unlock, PutLastIndex
<1>2. status = "up" /\ newBlock[t].index \in 1 .. MaxHeight
  BY <1>1, CallUp DEF TypeInv, CallsSound, CallSound
<1>3. CallsTyped' /\ CallsSound'
  BY <1>1, <1>2, TypeCallEnds
<1>4. State' \in LedgerStates
  <2>1. newBlock[t].reward \in Nat /\ feeTotal[t] \in Nat
    BY BlockFields DEF TypeInv, CallsTyped
  <2>2. TotalMinerReward(t) \in Nat
    BY <2>1, PlusNat DEF TotalMinerReward
  <2> QED BY <1>1, <2>2, CreditTyped DEF TypeInv, MemoryTyped
<1>5. MemoryTyped' /\ MemorySound'
  BY <1>1, <1>4 DEF TypeInv, MemoryTyped, MemorySound
<1>6. DiskTyped' /\ DiskSound'
  BY <1>1, <1>2 DEF TypeInv, DiskTyped, DiskSound, Heights
<1> QED BY <1>3, <1>5, <1>6 DEF TypeInv

LEMMA TypeMineStep ==
    ASSUME TypeInv, NEW t \in Threads, MineStep(t)
    PROVE  TypeInv'
  BY TypeReject, TypeMineBlock, TypeSelect, TypeSkip, TypeFinishSelection, TypeReward,
     TypeAdjust, TypeAssemble, TypeMine, TypeCommit, TypeCredit DEF MineStep

\* Sorting the mempool by fee permutes it.
LEMMA FeeOrdersTyped ==
    ASSUME NEW txs \in Seq(Transfers), NEW s \in FeeOrders(txs)
    PROVE  s \in Seq(Transfers)
<1>1. s \in {[i \in DOMAIN txs |-> txs[p[i]]] : p \in Bijection(DOMAIN txs, DOMAIN txs)}
  BY DEF FeeOrders
<1>2. \E p \in Bijection(DOMAIN txs, DOMAIN txs) : s = [i \in DOMAIN txs |-> txs[p[i]]]
  BY <1>1
<1>3. PICK p \in Bijection(DOMAIN txs, DOMAIN txs) : s = [i \in DOMAIN txs |-> txs[p[i]]]
  BY <1>2
<1>4. p \in [DOMAIN txs -> DOMAIN txs]
  BY DEF Bijection, Injection, Surjection, IsInjective
<1> QED BY <1>3, <1>4

LEMMA TypeAddToMempool ==
    ASSUME TypeInv, NEW tx \in Transfers, AddToMempool(tx)
    PROVE  TypeInv'
<1>1. /\ status = "up" /\ status' = status
      /\ State' = [State EXCEPT ![tx.from].nonce = tx.nonce]
      /\ Mempool' \in FeeOrders(Append(Mempool, tx))
      /\ UNCHANGED <<Chain, MinerAddress, TargetDifficulty, Mu, reorg>>
      /\ UNCHANGED locals /\ UNCHANGED disk
  BY DEF AddToMempool
<1>2. Mempool' \in Seq(Transfers)
  <2>1. Append(Mempool, tx) \in Seq(Transfers)
    BY DEF TypeInv, MemoryTyped
  <2> QED BY <1>1, <2>1, FeeOrdersTyped
<1>3. State' \in LedgerStates
  <2>1. tx.from \in Accounts /\ tx.nonce \in Nat
    BY TransferFields
  <2>2. State[tx.from] \in [balance : 0 .. Word - 1, nonce : Nat]
    BY <2>1 DEF TypeInv, MemoryTyped, LedgerStates
  <2>3. [State[tx.from] EXCEPT !.nonce = tx.nonce] \in [balance : 0 .. Word - 1, nonce : Nat]
    BY <2>1, <2>2
  <2> QED BY <1>1, <2>3 DEF TypeInv, MemoryTyped, LedgerStates
<1>4. MemoryTyped' /\ MemorySound'
  BY <1>1, <1>2, <1>3 DEF TypeInv, MemoryTyped, MemorySound
<1>5. CallsTyped' /\ CallsSound'
  BY <1>1 DEF TypeInv, CallsTyped, CallsSound, CallSound, locals
<1>6. DiskTyped' /\ DiskSound'
  BY <1>1 DEF TypeInv, DiskTyped, DiskSound, disk
<1> QED BY <1>4, <1>5, <1>6 DEF TypeInv

LEMMA TypeRollback ==
    ASSUME TypeInv, RollbackBlock
    PROVE  TypeInv'
<1> DEFINE tip == Tip(Chain)
<1>1. /\ status = "up" /\ status' = status /\ Len(Chain) > 1
      /\ Mempool' = Reverse(tip.txs) \o Mempool
      /\ Chain' = SubSeq(Chain, 1, Len(Chain) - 1)
      /\ \/ blocks' = [blocks EXCEPT ![tip.index] = NoBlock]
            /\ reorg' = [step |-> "deleted", block |-> tip]
         \/ blocks' = blocks /\ reorg' = reorg
      /\ UNCHANGED <<State, MinerAddress, TargetDifficulty, Mu, lastIndex>>
      /\ UNCHANGED locals
  BY DEF RollbackBlock, CanReorg
<1>2. /\ tip \in Block /\ tip.index \in 1 .. MaxHeight /\ tip.txs \in Seq(Transfers)
      /\ Chain' \in Seq(Block) /\ Len(Chain') = Len(Chain) - 1 /\ Chain' # <<>>
      /\ \A i \in 1 .. Len(Chain') : Chain'[i] = Chain[i]
  <2>1. Chain \in Seq(Block) /\ Len(Chain) \in 2 .. Len(Chain)
    BY <1>1 DEF TypeInv, MemoryTyped
  <2>2. tip \in Block /\ tip.index \in 1 .. MaxHeight
    BY <2>1 DEF Tip, TypeInv, MemorySound
  <2>3. tip.txs \in Seq(Transfers)
    BY <2>2, BlockFields
  <2>4. Chain' \in Seq(Block) /\ Len(Chain') = Len(Chain) - 1
        /\ \A i \in 1 .. Len(Chain') : Chain'[i] = Chain[i]
    BY <1>1, <2>1
  <2>5. Chain' # <<>>
    BY <2>1, <2>4
  <2> QED BY <2>2, <2>3, <2>4, <2>5
<1> HIDE DEF tip
<1>3. Mempool' \in Seq(Transfers)
  <2>1. Reverse(tip.txs) \in Seq(Transfers)
    <3> DEFINE txs == tip.txs
    <3>1. txs \in Seq(Transfers)
      BY <1>2
    <3> HIDE DEF txs
    <3>2. Reverse(txs) \in Seq(Transfers)
      BY <3>1 DEF Reverse
    <3> QED BY <3>2 DEF txs
  <2> QED BY <1>1, <2>1 DEF TypeInv, MemoryTyped
<1>4. MemoryTyped'
  BY <1>1, <1>2, <1>3 DEF TypeInv, MemoryTyped
<1>5. MemorySound'
  <2>1. \A i \in 2 .. Len(Chain') : Chain'[i].index \in 1 .. MaxHeight
    <3>1. Chain \in Seq(Block)
      BY DEF TypeInv, MemoryTyped
    <3>2. \A i \in 2 .. Len(Chain') : i \in 2 .. Len(Chain) /\ Chain'[i] = Chain[i]
      BY <1>2, <3>1
    <3> QED BY <3>2 DEF TypeInv, MemorySound
  <2> QED BY <1>1, <1>2, <2>1 DEF TypeInv, MemorySound
<1>6. CallsTyped' /\ CallsSound'
  BY <1>1 DEF TypeInv, CallsTyped, CallsSound, CallSound, locals
<1>7. DiskTyped' /\ DiskSound'
  <2>1. blocks' \in [Heights -> Block]
    BY <1>1, NoBlockTyped DEF TypeInv, DiskTyped
  <2>2. ASSUME NEW n \in 1 .. MaxHeight, blocks'[n] # NoBlock PROVE blocks'[n].index = n
    <3>1. n \in Heights
      BY BoundAssumption DEF Heights
    <3>2. blocks'[n] = blocks[n]
      BY <1>1, <2>2, <3>1 DEF TypeInv, DiskTyped
    <3> QED BY <2>2, <3>2 DEF TypeInv, DiskSound
  <2> QED BY <1>1, <2>1, <2>2 DEF TypeInv, DiskTyped, DiskSound
<1> QED BY <1>4, <1>5, <1>6, <1>7 DEF TypeInv

LEMMA TypeFinishRollback ==
    ASSUME TypeInv, FinishRollback
    PROVE  TypeInv'
<1>1. /\ reorg.step = "deleted" /\ reorg' = NoReorg /\ status' = status
      /\ \/ lastIndex' = reorg.block.index - 1 /\ State' = Replay(Chain)
         \/ lastIndex' = lastIndex /\ State' = State
      /\ UNCHANGED <<Chain, Mempool, MinerAddress, TargetDifficulty, Mu, blocks>>
      /\ UNCHANGED locals
  BY DEF FinishRollback, PutLastIndex
<1>2. reorg.block.index \in 1 .. MaxHeight
  BY <1>1 DEF TypeInv, MemorySound
<1>3. State' \in LedgerStates
  BY <1>1, ReplayTyped DEF TypeInv, MemoryTyped
<1>4. MemoryTyped' /\ MemorySound'
  BY <1>1, <1>3, NoReorgTyped DEF TypeInv, MemoryTyped, MemorySound
<1>5. CallsTyped' /\ CallsSound'
  BY <1>1 DEF TypeInv, CallsTyped, CallsSound, CallSound, locals
<1>6. DiskTyped' /\ DiskSound'
  BY <1>1, <1>2, BoundAssumption DEF TypeInv, DiskTyped, DiskSound, Heights
<1> QED BY <1>4, <1>5, <1>6 DEF TypeInv

\* What a peer offers is a block.
LEMMA PeerBlockTyped ==
    ASSUME TypeInv, Chain # <<>>, NEW b \in PeerBlocks
    PROVE  b \in Block /\ b.index <= MaxHeight
<1> DEFINE tip == Tip(Chain)
           allowed == AllowedReward(tip.index + 1, GetTotalCirculatingSupply(Chain))
           scheduled == CalculateBlockReward(tip.index + 1)
<1>1. b \in [hash : Hash, work : {0, tip.diff}, index : {tip.index, tip.index + 1},
             time : {tip.time, tip.time + 1}, prev : {tip.hash, NoHash},
             txs : PeerTransfers, miner : MinerChoices, diff : {tip.diff},
             reward : {allowed, scheduled}, policy : Policies]
      /\ b.index <= MaxHeight
  BY DEF PeerBlocks
<1>2. tip \in Block
  <2>1. Chain \in Seq(Block) /\ Len(Chain) \in 1 .. Len(Chain)
    BY DEF TypeInv, MemoryTyped
  <2> QED BY <2>1 DEF Tip
<1>3. /\ tip.diff \in Nat /\ tip.index \in Nat /\ tip.index + 1 \in Nat /\ tip.time \in Nat
      /\ tip.hash \in Hash \cup {NoHash}
  <2> HIDE DEF tip
  <2> QED BY <1>2, BlockFields
<1>4. allowed \in Nat
  <2>1. GetTotalCirculatingSupply(Chain) \in Nat
    BY SupplyNat DEF TypeInv, MemoryTyped
  <2> QED BY <1>3, <2>1, AllowedFits
<1>5. scheduled \in Nat
  <2>1. scheduled \in 0 .. BlockReward
    BY <1>3, RewardRange
  <2> HIDE DEF scheduled
  <2> QED BY <2>1, RewardAssumption, SupplyAssumption
<1> HIDE DEF tip, allowed, scheduled
<1> QED BY <1>1, <1>3, <1>4, <1>5, PeerAssumption, MinerAssumption DEF Block

LEMMA TypeAppendDirectly ==
    ASSUME TypeInv, CanReorg, NEW b \in PeerBlocks, AppendBlockDirectly(b)
    PROVE  TypeInv'
<1>1. /\ status = "up" /\ status' = status
      /\ ValidateBlockConsensus(b, Tip(Chain), GetTotalCirculatingSupply(Chain))
      /\ AppendBlock(b)
      /\ PutBlock(b) \/ UNCHANGED blocks
      /\ \/ reorg' = [step |-> "saved", block |-> b]
         \/ reorg' = [step |-> "unsaved", block |-> b]
      /\ UNCHANGED <<State, Mempool, MinerAddress, TargetDifficulty, Mu, lastIndex>>
      /\ UNCHANGED locals
  BY DEF AppendBlockDirectly, CanReorg
<1>2. Chain # <<>> /\ Tip(Chain) \in Block
  <2>1. Chain # <<>>
    BY <1>1 DEF TypeInv, MemorySound
  <2>2. Chain \in Seq(Block) /\ Len(Chain) \in 1 .. Len(Chain)
    BY <2>1 DEF TypeInv, MemoryTyped
  <2> QED BY <2>1, <2>2 DEF Tip
<1>3. b \in Block /\ b.index \in 1 .. MaxHeight
  <2>1. b \in Block /\ b.index <= MaxHeight
    BY <1>2, PeerBlockTyped
  <2>2. b.index = Tip(Chain).index + 1
    BY <1>1 DEF ValidateBlockConsensus
  <2>3. Tip(Chain).index \in Nat
    BY <1>2, BlockFields
  <2> QED BY <2>1, <2>2, <2>3, BoundAssumption
<1>4. MemoryTyped' /\ MemorySound'
  <2>1. /\ Chain' \in Seq(Block) /\ Chain' # <<>>
        /\ \A i \in 2 .. Len(Chain') : Chain'[i].index \in 1 .. MaxHeight
    BY <1>1, <1>2, <1>3, TypeAppend
  <2> QED BY <1>1, <1>3, <2>1 DEF TypeInv, MemoryTyped, MemorySound
<1>5. CallsTyped' /\ CallsSound'
  BY <1>1 DEF TypeInv, CallsTyped, CallsSound, CallSound, locals
<1>6. DiskTyped' /\ DiskSound'
  BY <1>1, <1>3, TypePut
<1> QED BY <1>4, <1>5, <1>6 DEF TypeInv

LEMMA TypeFinishAppend ==
    ASSUME TypeInv, FinishAppend
    PROVE  TypeInv'
<1>1. /\ reorg.step # "none" /\ reorg' = NoReorg /\ status' = status
      /\ State' = RebuildState(State, reorg.block)
      /\ lastIndex' = reorg.block.index \/ lastIndex' = lastIndex
      /\ UNCHANGED <<Chain, Mempool, MinerAddress, TargetDifficulty, Mu, blocks>>
      /\ UNCHANGED locals
  BY DEF FinishAppend, PutLastIndex
<1>2. reorg.block.index \in 1 .. MaxHeight /\ reorg.block \in Block
  BY <1>1 DEF TypeInv, MemorySound, MemoryTyped
<1>3. State' \in LedgerStates
  BY <1>1, <1>2, RebuildStateTyped DEF TypeInv, MemoryTyped
<1>4. MemoryTyped' /\ MemorySound'
  BY <1>1, <1>3, NoReorgTyped DEF TypeInv, MemoryTyped, MemorySound
<1>5. CallsTyped' /\ CallsSound'
  BY <1>1 DEF TypeInv, CallsTyped, CallsSound, CallSound, locals
<1>6. DiskTyped' /\ DiskSound'
  BY <1>1, <1>2 DEF TypeInv, DiskTyped, DiskSound, Heights
<1> QED BY <1>4, <1>5, <1>6 DEF TypeInv

LEMMA TypeNext == TypeInv /\ [Next]_vars => TypeInv'
<1> SUFFICES ASSUME TypeInv, [Next]_vars PROVE TypeInv'
  OBVIOUS
<1>1. CASE UNCHANGED vars
  BY <1>1 DEF vars, memory, locals, disk, TypeInv, MemoryTyped, MemorySound, CallsTyped,
              CallsSound, CallSound, DiskTyped, DiskSound
<1>2. CASE Next
  BY <1>2, MinerAssumption, TypeInitialize, TypeSpawn, TypeIndexGenesis,
     TypeCrash, TypeMineStep, TypeReject, TypeAddToMempool, TypeRollback, TypeFinishRollback, TypeAppendDirectly, TypeFinishAppend
     DEF Next
<1> QED BY <1>1, <1>2

\* Every variable of the ledger keeps its type whatever calls, writes, faults,
\* crashes and reorgs interleave: no index leaves the slices and keys it is used
\* on, no balance a word (ledger.go:97-520, storage/db.go:40-124).
THEOREM LedgerTyped == Spec => []TypeOK
<1> QED BY InitTyped, TypeNext, TypeInvTypes, PTL DEF Spec

-----------------------------------------------------------------------------
(* Racing calls within one lifetime of the process                         *)

\* A block that follows an earlier one of the chain.
Follows(b, p) == b.prev = p.hash /\ b.index = p.index + 1 /\ b.time > p.time

\* The parent of a call under way is a block of the chain, and stays one because
\* only a reorg removes blocks, which waits for the calls to end.  What was mined
\* follows that parent.
CallTree(t) ==
    /\ pc[t] \notin {"idle", "panicked"} => \E j \in 1 .. Len(Chain) : parent[t] = Chain[j]
    /\ pc[t] = "mined" => Follows(newBlock[t], parent[t])

\* What a process that never died before may find in storage.
FreshDisk ==
    \/ blocks = [n \in Heights |-> NoBlock] /\ lastIndex = NoIndex
    \/ blocks = [n \in Heights |-> IF n = 0 THEN LegacyGenesis ELSE NoBlock]
       /\ lastIndex = 0

TreeInv ==
    /\ TypeInv
    /\ ParentPrecedes
    /\ \A t \in Threads : CallTree(t)
    /\ status \in {"down", "spawning"} => Chain = <<>>
    /\ status = "down" => FreshDisk

\* The chain keeps its blocks and may get one more that follows one of them.
LEMMA TreeGrows ==
    ASSUME TreeInv, NEW b \in Block, NEW j \in 1 .. Len(Chain), Follows(b, Chain[j]),
           Chain' = Append(Chain, b)
    PROVE  /\ ParentPrecedes'
           /\ Len(Chain') = Len(Chain) + 1
           /\ \A i \in 1 .. Len(Chain) : Chain'[i] = Chain[i]
<1>1. Chain \in Seq(Block)
  BY DEF TreeInv, TypeInv, MemoryTyped
<1>2. /\ Len(Chain') = Len(Chain) + 1 /\ Chain'[Len(Chain) + 1] = b
      /\ \A i \in 1 .. Len(Chain) : Chain'[i] = Chain[i]
  BY <1>1
<1>3. ASSUME NEW i \in 2 .. Len(Chain')
      PROVE  \E k \in 1 .. i - 1 : Follows(Chain'[i], Chain'[k])
  <2>1. CASE i = Len(Chain) + 1
    <3>1. j \in 1 .. i - 1 /\ Chain'[i] = b /\ Chain'[j] = Chain[j]
      BY <1>1, <1>2, <2>1
    <3> QED BY <3>1
  <2>2. CASE i # Len(Chain) + 1
    <3>1. i \in 2 .. Len(Chain)
      BY <1>1, <1>2, <2>2
    <3>2. PICK k \in 1 .. i - 1 : Follows(Chain[i], Chain[k])
      BY <3>1 DEF TreeInv, ParentPrecedes, Follows
    <3>3. Chain'[i] = Chain[i] /\ Chain'[k] = Chain[k]
      BY <1>1, <1>2, <3>1
    <3> QED BY <3>2, <3>3
  <2> QED BY <2>1, <2>2
<1> QED BY <1>2, <1>3 DEF ParentPrecedes, Follows

\* The calls that do not move keep their place in the tree when the chain does
\* not lose a block.
LEMMA TreeCallKept ==
    ASSUME TreeInv, NEW t \in Threads,
           Len(Chain') >= Len(Chain), \A i \in 1 .. Len(Chain) : Chain'[i] = Chain[i],
           pc'[t] = pc[t], parent'[t] = parent[t],
           pc[t] = "mined" => newBlock'[t] = newBlock[t],
           Len(Chain') \in Nat
    PROVE  CallTree(t)'
<1>1. CallTree(t) /\ Len(Chain) \in Nat
  BY DEF TreeInv, TypeInv, MemoryTyped
<1>2. ASSUME pc[t] \notin {"idle", "panicked"}
      PROVE  \E j \in 1 .. Len(Chain') : parent'[t] = Chain'[j]
  <2>1. PICK j \in 1 .. Len(Chain) : parent[t] = Chain[j]
    BY <1>1, <1>2 DEF CallTree
  <2>2. j \in 1 .. Len(Chain') /\ Chain'[j] = Chain[j]
    BY <1>1
  <2> QED BY <2>1, <2>2
<1> QED BY <1>1, <1>2 DEF CallTree, Follows

\* A step of one call that leaves the chain alone.
LEMMA TreeOneCall ==
    ASSUME TreeInv, TypeInv', NEW t \in Threads, status = "up", status' = "up",
           Chain' = Chain,
           \A u \in Threads \ {t} :
               pc'[u] = pc[u] /\ parent'[u] = parent[u] /\ newBlock'[u] = newBlock[u],
           CallTree(t)'
    PROVE  TreeInv'
<1>1. ASSUME NEW u \in Threads PROVE CallTree(u)'
  <2>1. CASE u = t
    BY <2>1
  <2>2. CASE u # t
    <3>1. Len(Chain) \in Nat
      BY DEF TreeInv, TypeInv, MemoryTyped
    <3>2. pc'[u] = pc[u] /\ parent'[u] = parent[u] /\ newBlock'[u] = newBlock[u]
      BY <2>2
    <3> QED BY <3>1, <3>2, TreeCallKept
  <2> QED BY <2>1, <2>2
<1>2. ParentPrecedes'
  BY DEF TreeInv, ParentPrecedes
<1> QED BY <1>1, <1>2 DEF TreeInv

\* A step that leaves the chain and all calls alone.
LEMMA TreeStutter ==
    ASSUME TreeInv, TypeInv', Chain' = Chain, pc' = pc, parent' = parent,
           newBlock' = newBlock,
           status' \in {"down", "spawning"} => status' = status,
           status' = "down" => UNCHANGED disk
    PROVE  TreeInv'
<1>1. \A t \in Threads : CallTree(t)'
  BY DEF TreeInv, CallTree, Follows
<1>2. ParentPrecedes'
  BY DEF TreeInv, ParentPrecedes
<1> QED BY <1>1, <1>2 DEF TreeInv, FreshDisk, disk

LEMMA TreeMineStep ==
    ASSUME TreeInv, TypeInv', NEW t \in Threads, MineStep(t)
    PROVE  TreeInv'
<1> USE DEF locals, memory
<1>1. CASE RejectMiner(t)
  <2>1. /\ status = "up" /\ status' = "up" /\ Chain' = Chain
        /\ pc' = [pc EXCEPT ![t] = "panicked"] /\ parent' = parent /\ newBlock' = newBlock
    BY <1>1 DEF RejectMiner, CanMine
  <2>2. pc'[t] = "panicked" /\ \A u \in Threads \ {t} : pc'[u] = pc[u]
    BY <2>1 DEF TreeInv, TypeInv, CallsTyped
  <2> QED BY <2>1, <2>2, TreeOneCall DEF CallTree
<1>2. CASE MineBlock(t)
  <2>1. /\ status = "up" /\ status' = "up" /\ Chain' = Chain
        /\ pc' = [pc EXCEPT ![t] = "selecting"]
        /\ parent' = [parent EXCEPT ![t] = Chain[Len(Chain)]] /\ newBlock' = newBlock
    BY <1>2 DEF MineBlock, CanMine, Tip
  <2>2. /\ pc'[t] = "selecting" /\ parent'[t] = Chain[Len(Chain)]
        /\ \A u \in Threads \ {t} : pc'[u] = pc[u] /\ parent'[u] = parent[u]
    BY <2>1 DEF TreeInv, TypeInv, CallsTyped
  <2>3. Len(Chain) \in 1 .. Len(Chain)
    BY <2>1 DEF TreeInv, TypeInv, MemoryTyped, MemorySound
  <2>4. CallTree(t)'
    BY <2>1, <2>2, <2>3 DEF CallTree
  <2> QED BY <2>1, <2>2, <2>4, TreeOneCall
<1>3. CASE \/ SelectTransfer(t) \/ SkipTransfer(t) \/ FinishSelection(t)
           \/ ComputeReward(t) \/ AdjustDifficulty(t) \/ AssembleBlock(t)
  <2>1. pc[t] \notin {"idle", "panicked"}
    BY <1>3 DEF SelectTransfer, SkipTransfer, AtTransfer, FinishSelection, ComputeReward,
                AdjustDifficulty, AssembleBlock
  <2>2. status = "up"
    BY <2>1, CallUp DEF TreeInv
  <2>3. /\ status' = status /\ Chain' = Chain /\ parent' = parent
        /\ \E step \in {"selecting", "selected", "priced", "retargeted", "assembled"} :
              pc' = [pc EXCEPT ![t] = step]
    <3>1. pc[t] = "selecting" => pc = [pc EXCEPT ![t] = "selecting"]
      BY DEF TreeInv, TypeInv, CallsTyped
    <3> QED BY <1>3, <3>1 DEF SelectTransfer, SkipTransfer, AtTransfer, FinishSelection,
                ComputeReward, AdjustDifficulty, AssembleBlock
  <2>4. \A u \in Threads \ {t} : pc'[u] = pc[u] /\ newBlock'[u] = newBlock[u]
    <3>1. \A u \in Threads \ {t} : pc'[u] = pc[u]
      BY <2>3 DEF TreeInv, TypeInv, CallsTyped
    <3>2. newBlock' = newBlock \/ \E b : newBlock' = [newBlock EXCEPT ![t] = b]
      BY <1>3 DEF SelectTransfer, SkipTransfer, FinishSelection, ComputeReward,
                  AdjustDifficulty, AssembleBlock
    <3>3. \A u \in Threads \ {t} : newBlock'[u] = newBlock[u]
      BY <3>2 DEF TreeInv, TypeInv, CallsTyped
    <3> QED BY <3>1, <3>3
  <2>5. CallTree(t)'
    <3>1. pc'[t] \in {"selecting", "selected", "priced", "retargeted", "assembled"}
      BY <2>3 DEF TreeInv, TypeInv, CallsTyped
    <3>2. CallTree(t)
      BY DEF TreeInv
    <3> QED BY <2>1, <2>3, <3>1, <3>2 DEF CallTree
  <2> QED BY <2>2, <2>3, <2>4, <2>5, TreeOneCall
<1>4. CASE MineAndValidate(t)
  <2>1. /\ pc[t] = "assembled" /\ status' = status /\ Chain' = Chain
    BY <1>4 DEF MineAndValidate
  <2>2. status = "up"
    BY <2>1, CallUp DEF TreeInv
  <2>3. \/ /\ \E b : newBlock' = [newBlock EXCEPT ![t] = b] /\ Follows(b, parent[t])
           /\ pc' = [pc EXCEPT ![t] = "mined"] /\ parent' = parent
        \/ Finish(t, "panicked")
    BY <1>4 DEF MineAndValidate, ValidateBlockConsensus, Follows
  <2>4. CASE Finish(t, "panicked")
    <3>1. /\ pc'[t] = "panicked"
          /\ \A u \in Threads \ {t} :
                pc'[u] = pc[u] /\ parent'[u] = parent[u] /\ newBlock'[u] = newBlock[u]
      BY <2>4 DEF Finish, TreeInv, TypeInv, CallsTyped
    <3> QED BY <2>1, <2>2, <3>1, TreeOneCall DEF CallTree
  <2>5. CASE /\ \E b : newBlock' = [newBlock EXCEPT ![t] = b] /\ Follows(b, parent[t])
             /\ pc' = [pc EXCEPT ![t] = "mined"] /\ parent' = parent
    <3>1. PICK b : newBlock' = [newBlock EXCEPT ![t] = b] /\ Follows(b, parent[t])
      BY <2>5
    <3>2. /\ pc'[t] = "mined" /\ newBlock'[t] = b
          /\ \A u \in Threads \ {t} : pc'[u] = pc[u] /\ newBlock'[u] = newBlock[u]
      BY <2>5, <3>1 DEF TreeInv, TypeInv, CallsTyped
    <3>3. CallTree(t)'
      <4>1. CallTree(t)
        BY DEF TreeInv
      <4> QED BY <2>1, <2>5, <3>1, <3>2, <4>1 DEF CallTree, Follows
    <3> QED BY <2>1, <2>2, <2>5, <3>2, <3>3, TreeOneCall
  <2> QED BY <2>3, <2>4, <2>5
<1>5. CASE CommitBlock(t)
  <2>1. /\ pc[t] = "mined" /\ status' = status /\ Chain' = Append(Chain, newBlock[t])
        /\ parent' = parent /\ newBlock' = newBlock
        /\ pc' = [pc EXCEPT ![t] = "saved"] \/ pc' = [pc EXCEPT ![t] = "unsaved"]
    BY <1>5 DEF CommitBlock, AppendBlock
  <2>2. status = "up" /\ newBlock[t] \in Block
    BY <2>1, CallUp DEF TreeInv, TypeInv, CallsTyped
  <2>3. PICK j \in 1 .. Len(Chain) : parent[t] = Chain[j] /\ Follows(newBlock[t], Chain[j])
    BY <2>1 DEF TreeInv, CallTree
  <2>4. /\ ParentPrecedes' /\ Len(Chain') = Len(Chain) + 1
        /\ \A i \in 1 .. Len(Chain) : Chain'[i] = Chain[i]
    BY <2>1, <2>2, <2>3, TreeGrows
  <2>5. Len(Chain) \in Nat
    BY DEF TreeInv, TypeInv, MemoryTyped
  <2>6. ASSUME NEW u \in Threads PROVE CallTree(u)'
    <3>1. CASE u = t
      <4>1. pc'[t] # "mined"
        BY <2>1 DEF TreeInv, TypeInv, CallsTyped
      <4>2. j \in 1 .. Len(Chain') /\ Chain'[j] = Chain[j]
        BY <2>4, <2>5
      <4>3. parent'[t] = Chain'[j]
        BY <2>1, <2>3, <4>2
      <4> QED BY <3>1, <4>1, <4>2, <4>3 DEF CallTree
    <3>2. CASE u # t
      <4>1. pc'[u] = pc[u]
        BY <2>1, <3>2 DEF TreeInv, TypeInv, CallsTyped
      <4> QED BY <2>1, <2>4, <2>5, <4>1, TreeCallKept
    <3> QED BY <3>1, <3>2
  <2> QED BY <2>1, <2>2, <2>4, <2>6 DEF TreeInv
<1>6. CASE CreditMiner(t)
  <2>1. pc[t] \in {"saved", "unsaved"} /\ status' = status /\ Chain' = Chain /\ Finish(t, "idle")
    BY <1>6 DEF CreditMiner
  <2>2. status = "up"
    BY <2>1, CallUp DEF TreeInv
  <2>3. /\ pc'[t] = "idle"
        /\ \A u \in Threads \ {t} :
              pc'[u] = pc[u] /\ parent'[u] = parent[u] /\ newBlock'[u] = newBlock[u]
    BY <2>1 DEF Finish, TreeInv, TypeInv, CallsTyped
  <2> QED BY <2>1, <2>2, <2>3, TreeOneCall DEF CallTree
<1> QED BY <1>1, <1>2, <1>3, <1>4, <1>5, <1>6 DEF MineStep

\* What a fresh database makes a restart load is not a chain of this release.
LEMMA FreshDiskLoads ==
    ASSUME TypeInv, FreshDisk
    PROVE  LoadedChain = <<>> \/ LoadedChain[1].policy # "current"
<1>1. /\ LoadedChain \in Seq(Block) /\ Len(LoadedChain) = LoadedLength
      /\ \A i \in 1 .. LoadedLength : LoadedChain[i] = blocks[i-1] /\ blocks[i-1] # NoBlock
  BY LoadedChainIs DEF TypeInv, DiskTyped
<1>2. LoadedLength \in 0 .. lastIndex + 1
  BY LoadedLengthIs DEF TypeInv, DiskTyped
<1>3. CASE LoadedLength = 0
  BY <1>1, <1>3
<1>4. CASE LoadedLength >= 1
  <2>1. LoadedChain[1] = blocks[0] /\ 0 \in Heights /\ lastIndex = 0
    BY <1>1, <1>2, <1>4, BoundAssumption DEF FreshDisk, NoIndex, Heights
  <2>2. blocks[0] = LegacyGenesis
    BY <2>1 DEF FreshDisk, NoIndex
  <2> QED BY <2>1, <2>2, GenesisAssumption
<1>5. LoadedLength \in Nat
  BY <1>1
<1> QED BY <1>3, <1>4, <1>5

LEMMA TreeInitial == Init => TreeInv
<1> SUFFICES ASSUME Init PROVE TreeInv
  OBVIOUS
<1>1. TypeInv
  BY InitTyped
<1>2. \A t \in Threads : pc[t] = "idle"
  BY DEF Init, PerThread
<1> QED BY <1>1, <1>2 DEF Init, TreeInv, ParentPrecedes, CallTree, FreshDisk

LEMMA TreeNext ==
    ASSUME MayCrash = FALSE, TreeInv, TypeInv', Next
    PROVE  TreeInv'
<1>1. ASSUME NEW m \in MinerChoices, NEW d \in InitialDifficulties, InitializeLedger(m, d)
      PROVE  TreeInv'
  <2>1. status = "down" /\ UNCHANGED locals
    BY <1>1 DEF InitializeLedger
  <2>2. LoadedChain = <<>> \/ LoadedChain[1].policy # "current"
    BY <2>1, FreshDiskLoads DEF TreeInv
  <2>3. status' = "spawning" /\ Chain' = Chain
    BY <1>1, <2>2 DEF InitializeLedger
  <2> QED BY <2>1, <2>3 DEF TreeInv, ParentPrecedes, CallTree, Follows, locals
<1>2. CASE SpawnGenesis
  <2>1. /\ status = "spawning" /\ status' \in {"indexing", "up"} /\ UNCHANGED locals
        /\ \E b : Chain' = <<b>>
    BY <1>2 DEF SpawnGenesis
  <2>2. ParentPrecedes'
    BY <2>1 DEF ParentPrecedes
  <2>3. \A t \in Threads : CallTree(t)'
    BY <2>1 DEF TreeInv, TypeInv, CallsSound, CallSound, CallTree, locals
  <2> QED BY <2>1, <2>2, <2>3 DEF TreeInv
<1>3. CASE IndexGenesis
  BY <1>3, TreeStutter DEF IndexGenesis, memory, locals
<1>4. ASSUME NEW t \in Threads, MineStep(t) PROVE TreeInv'
  BY <1>4, TreeMineStep
<1>5. ASSUME NEW t \in Threads, RecoverPanic(t) PROVE TreeInv'
  <2>1. /\ pc[t] = "panicked" /\ status' = status /\ Chain' = Chain
        /\ pc' = [pc EXCEPT ![t] = "idle"] /\ parent' = parent /\ newBlock' = newBlock
    BY <1>5 DEF RecoverPanic, memory
  <2>2. status = "up"
    BY <2>1, CallUp DEF TreeInv
  <2>3. pc'[t] = "idle" /\ \A u \in Threads \ {t} : pc'[u] = pc[u]
    BY <2>1 DEF TreeInv, TypeInv, CallsTyped
  <2> QED BY <2>1, <2>2, <2>3, TreeOneCall DEF CallTree
<1>6. ASSUME NEW tx \in Transfers, AddToMempool(tx) PROVE TreeInv'
  BY <1>6, TreeStutter DEF AddToMempool, locals
<1>7. CASE RollbackBlock
  <2>1. /\ status = "up" /\ status' = "up" /\ Len(Chain) > 1 /\ UNCHANGED locals
        /\ Chain' = SubSeq(Chain, 1, Len(Chain) - 1)
        /\ \A t \in Threads : pc[t] = "idle"
    BY <1>7 DEF RollbackBlock, CanReorg, Idle
  <2>2. /\ Chain \in Seq(Block) /\ Len(Chain') = Len(Chain) - 1
        /\ \A i \in 1 .. Len(Chain') : Chain'[i] = Chain[i]
    BY <2>1 DEF TreeInv, TypeInv, MemoryTyped
  <2>3. ASSUME NEW i \in 2 .. Len(Chain')
        PROVE  \E k \in 1 .. i - 1 : Follows(Chain'[i], Chain'[k])
    <3>1. i \in 2 .. Len(Chain)
      BY <2>2
    <3>2. PICK k \in 1 .. i - 1 : Follows(Chain[i], Chain[k])
      BY <3>1 DEF TreeInv, ParentPrecedes, Follows
    <3>3. Chain'[i] = Chain[i] /\ Chain'[k] = Chain[k]
      BY <2>2
    <3> QED BY <3>2, <3>3
  <2>4. ParentPrecedes'
    BY <2>3 DEF ParentPrecedes, Follows
  <2>5. \A t \in Threads : CallTree(t)'
    BY <2>1 DEF CallTree, locals
  <2> QED BY <2>1, <2>4, <2>5 DEF TreeInv
<1>8. CASE FinishRollback
  BY <1>8, TreeStutter DEF FinishRollback, locals, TreeInv, TypeInv, MemorySound, NoReorg
<1>9. ASSUME CanReorg, NEW b \in PeerBlocks, AppendBlockDirectly(b) PROVE TreeInv'
  <2>1. /\ status = "up" /\ status' = "up" /\ UNCHANGED locals
        /\ Chain' = Append(Chain, b) /\ Follows(b, Tip(Chain))
        /\ \A t \in Threads : pc[t] = "idle"
    BY <1>9 DEF AppendBlockDirectly, CanReorg, Idle, AppendBlock, ValidateBlockConsensus,
                Follows
  <2>2. Chain # <<>> /\ Len(Chain) \in 1 .. Len(Chain)
    BY <2>1 DEF TreeInv, TypeInv, MemorySound, MemoryTyped
  <2>3. b \in Block
    BY <2>2, PeerBlockTyped DEF TreeInv
  <2>4. ParentPrecedes'
    BY <2>1, <2>2, <2>3, TreeGrows DEF Tip
  <2>5. \A t \in Threads : CallTree(t)'
    BY <2>1 DEF CallTree, locals
  <2> QED BY <2>1, <2>4, <2>5 DEF TreeInv
<1>10. CASE FinishAppend
  BY <1>10, TreeStutter DEF FinishAppend, locals, TreeInv, TypeInv, MemorySound, NoReorg
<1>11. ~Crash
  BY DEF Crash
<1> QED BY <1>1, <1>2, <1>3, <1>4, <1>5, <1>6, <1>7, <1>8, <1>9, <1>10, <1>11 DEF Next

\* Within one lifetime of the process, however many MineBlock calls race with
\* each other, panic or follow a reorg, and whichever writes fail, the chain in
\* memory lists a tree of blocks, every one after its parent (ledger.go:328,
\* 401, 426).
THEOREM LedgerParentPrecedes ==
    ASSUME MayCrash = FALSE
    PROVE  Spec => []ParentPrecedes
<1>1. Init => TreeInv
  BY TreeInitial
<1>2. TreeInv /\ [Next]_vars => TreeInv'
  <2> SUFFICES ASSUME TreeInv, [Next]_vars PROVE TreeInv'
    OBVIOUS
  <2>1. TypeInv'
    BY TypeNext DEF TreeInv
  <2>2. CASE Next
    BY <2>1, <2>2, TreeNext
  <2>3. CASE UNCHANGED vars
    BY <2>1, <2>3, TreeStutter DEF vars, memory, locals, disk
  <2> QED BY <2>2, <2>3
<1>3. TreeInv => ParentPrecedes
  BY DEF TreeInv
<1> QED BY <1>1, <1>2, <1>3, PTL DEF Spec
-----------------------------------------------------------------------------
(* Serial calls: the chain in memory and the chain in storage              *)

\* A genesis block of this release.
GenesisBlock(b) ==
    /\ b.index = 0 /\ b.prev = NoHash /\ b.time = GenesisTime
    /\ b.reward = CalculateBlockReward(0)
    /\ \E d \in InitialDifficulties : b.hash \in GenesisHashes[d]

\* A block's time is a reading of the clock, or a little after an earlier one.
TimeFits(time, height) ==
    \E base \in {GenesisTime} \cup Clock : base <= time /\ time <= base + height

GoodBlock(b, height) ==
    /\ b.policy = "current" /\ b.index = height /\ b.hash \in Hash
    /\ TimeFits(b.time, height)

\* A chain this release may have built.
GoodChain(c) ==
    /\ c \in Seq(Block)
    /\ Len(c) <= MaxHeight + 1
    /\ \A i \in 1 .. Len(c) : GoodBlock(c[i], i - 1) /\ SupplyAt(c)[i] <= MaxSupply
    /\ c # <<>> => GenesisBlock(c[1])
    /\ Linked(c) /\ Scheduled(c)

\* The supply of a chain's prefix is what it was before the chain grew.
LEMMA SupplyAgrees ==
    ASSUME NEW c \in Seq(Block), NEW d \in Seq(Block), NEW n \in Nat,
           n <= Len(c), n <= Len(d), \A i \in 1 .. n : c[i] = d[i]
    PROVE  \A i \in 0 .. n : SupplyAt(c)[i] = SupplyAt(d)[i]
<1> DEFINE s == SupplyAt(c)
           u == SupplyAt(d)
           S == {i \in 0 .. n : s[i] = u[i]}
<1>1. /\ s[0] = u[0]
      /\ \A i \in 1 .. n : s[i] = s[i-1] + c[i].reward /\ u[i] = u[i-1] + d[i].reward
  <2>1. \A i \in 1 .. n : i \in 1 .. Len(c) /\ i \in 1 .. Len(d)
    OBVIOUS
  <2> QED BY <2>1, SupplyIs
<1> HIDE DEF s, u
<1>2. 0 \in S /\ \A i \in 1 .. n : i - 1 \in S => i \in S
  <2>1. 0 \in S
    BY <1>1
  <2>2. ASSUME NEW i \in 1 .. n, i - 1 \in S PROVE i \in S
    <3>1. i \in 0 .. n /\ s[i-1] = u[i-1] /\ c[i] = d[i]
      BY <2>2
    <3>2. s[i] = s[i-1] + c[i].reward /\ u[i] = u[i-1] + d[i].reward
      BY <1>1
    <3>3. s[i] = u[i]
      BY <3>1, <3>2
    <3> QED BY <3>1, <3>3
  <2> QED BY <2>1, <2>2
<1>3. \A i \in 0 .. n : i \in S
  <2> HIDE DEF S
  <2> QED BY <1>2, UpTo
<1> QED BY <1>3 DEF s, u

\* A genesis block alone is a chain.
LEMMA GoodFirst ==
    ASSUME NEW b \in Block, GoodBlock(b, 0), GenesisBlock(b)
    PROVE  GoodChain(<<b>>)
<1> DEFINE c == <<b>>
<1>1. c \in Seq(Block) /\ Len(c) = 1 /\ c[1] = b
  OBVIOUS
<1>2. SupplyAt(c)[1] <= MaxSupply
  <2>1. SupplyAt(c)[1] = b.reward
    <3>1. SupplyAt(c)[0] = 0 /\ SupplyAt(c)[1] = SupplyAt(c)[1-1] + c[1].reward
      <4>1. /\ SupplyAt(c)[0] = 0
            /\ \A i \in 1 .. Len(c) : SupplyAt(c)[i] = SupplyAt(c)[i-1] + c[i].reward
        <5> HIDE DEF c
        <5> QED BY <1>1, SupplyIs
      <4>2. 1 \in 1 .. Len(c)
        BY <1>1
      <4> QED BY <4>1, <4>2
    <3>2. b.reward \in Nat
      BY BlockFields
    <3> QED BY <1>1, <3>1, <3>2
  <2>2. b.reward \in 0 .. BlockReward
    BY RewardRange DEF GenesisBlock
  <2> QED BY <2>1, <2>2, RewardAssumption, SupplyAssumption
<1>3. Linked(c) /\ Scheduled(c)
  BY <1>1 DEF Linked, Scheduled
<1>4. Len(c) <= MaxHeight + 1
  BY <1>1, BoundAssumption
<1> HIDE DEF c
<1>5. \A i \in 1 .. Len(c) : GoodBlock(c[i], i - 1) /\ SupplyAt(c)[i] <= MaxSupply
  BY <1>1, <1>2
<1>6. GoodChain(c)
  BY <1>1, <1>3, <1>4, <1>5 DEF GoodChain
<1> QED BY <1>6 DEF c

\* The tip of a chain.
LEMMA GoodTip ==
    ASSUME NEW c, GoodChain(c), c # <<>>
    PROVE  /\ Len(c) \in 1 .. MaxHeight + 1 /\ Tip(c) = c[Len(c)] /\ Tip(c) \in Block
           /\ Tip(c).index = Len(c) - 1 /\ Tip(c).hash \in Hash
           /\ TimeFits(Tip(c).time, Len(c) - 1)
           /\ GetTotalCirculatingSupply(c) = SupplyAt(c)[Len(c)]
           /\ GetTotalCirculatingSupply(c) \in Nat
           /\ GetTotalCirculatingSupply(c) <= MaxSupply
<1>1. c \in Seq(Block) /\ Len(c) \in 1 .. Len(c) /\ Len(c) <= MaxHeight + 1
  BY DEF GoodChain
<1>2. GoodBlock(c[Len(c)], Len(c) - 1) /\ SupplyAt(c)[Len(c)] <= MaxSupply
  BY <1>1 DEF GoodChain
<1>3. GetTotalCirculatingSupply(c) \in Nat
  BY <1>1, SupplyNat
<1> QED BY <1>1, <1>2, <1>3, BoundAssumption DEF Tip, GoodBlock, GetTotalCirculatingSupply

\* A chain that gets a block which passes validation against its tip and its
\* own supply stays a chain (validator.go:24-35, 91-104).
LEMMA GoodAppend ==
    ASSUME NEW c, GoodChain(c), c # <<>>, Len(c) <= MaxHeight,
           NEW b \in Block, b.hash \in Hash, TimeFits(b.time, Len(c)),
           ValidateBlockConsensus(b, Tip(c), GetTotalCirculatingSupply(c))
    PROVE  GoodChain(Append(c, b))
<1> DEFINE d == Append(c, b)
           n == Len(c)
<1>1. /\ c \in Seq(Block) /\ n \in Nat \ {0} /\ n <= MaxHeight
      /\ d \in Seq(Block) /\ Len(d) = n + 1 /\ d[n + 1] = b
      /\ \A i \in 1 .. n : d[i] = c[i]
  BY DEF GoodChain
<1>2. /\ Tip(c) = c[n] /\ c[n].index = n - 1
      /\ GetTotalCirculatingSupply(c) = SupplyAt(c)[n]
      /\ SupplyAt(c)[n] \in Nat /\ SupplyAt(c)[n] <= MaxSupply
  BY GoodTip
<1>3. /\ b.index = n /\ b.time > c[n].time /\ b.prev = c[n].hash /\ b.policy = "current"
      /\ b.reward = AllowedReward(n, SupplyAt(c)[n])
  BY <1>1, <1>2 DEF ValidateBlockConsensus
<1> HIDE DEF d
<1>4. /\ \A i \in 0 .. n : SupplyAt(d)[i] = SupplyAt(c)[i]
      /\ SupplyAt(d)[n + 1] = SupplyAt(d)[n] + b.reward
  <2>1. n <= Len(c) /\ n <= Len(d) /\ n + 1 \in 1 .. Len(d)
    BY <1>1
  <2>2. \A i \in 0 .. n : SupplyAt(d)[i] = SupplyAt(c)[i]
    BY <1>1, <2>1, SupplyAgrees
  <2>3. SupplyAt(d)[n + 1] = SupplyAt(d)[n + 1 - 1] + d[n + 1].reward
    <3>1. \A i \in 1 .. Len(d) : SupplyAt(d)[i] = SupplyAt(d)[i-1] + d[i].reward
      BY <1>1, SupplyIs
    <3> QED BY <2>1, <3>1
  <2>4. n + 1 - 1 = n
    BY <1>1
  <2> QED BY <1>1, <2>2, <2>3, <2>4
<1>5. SupplyAt(d)[n + 1] <= MaxSupply
  <2>1. SupplyAt(c)[n] + AllowedReward(n, SupplyAt(c)[n]) <= MaxSupply
    BY <1>1, <1>2, AllowedFits
  <2>2. n \in 0 .. n
    BY <1>1
  <2> QED BY <1>3, <1>4, <2>1, <2>2
<1>6. \A i \in 1 .. Len(d) : GoodBlock(d[i], i - 1) /\ SupplyAt(d)[i] <= MaxSupply
  <2> SUFFICES ASSUME NEW i \in 1 .. n + 1
               PROVE  GoodBlock(d[i], i - 1) /\ SupplyAt(d)[i] <= MaxSupply
    BY <1>1
  <2>1. CASE i = n + 1
    <3>1. i - 1 = n
      BY <1>1, <2>1
    <3> QED BY <1>1, <1>3, <1>5, <2>1, <3>1 DEF GoodBlock
  <2>2. CASE i \in 1 .. n
    <3>1. i \in 0 .. n
      BY <2>2
    <3> QED BY <1>1, <1>4, <2>2, <3>1 DEF GoodChain
  <2> QED BY <1>1, <2>1, <2>2
<1>7. ASSUME NEW i \in 2 .. Len(d)
      PROVE  /\ d[i].prev = d[i-1].hash /\ d[i].index = d[i-1].index + 1
             /\ d[i].time > d[i-1].time
             /\ d[i].reward = AllowedReward(i - 1, SupplyAt(d)[i-1])
  <2>1. CASE i = n + 1
    <3>1. i - 1 = n /\ n \in 0 .. n /\ d[n] = c[n]
      BY <1>1, <2>1
    <3>2. c[n].index + 1 = n
      BY <1>1, <1>2
    <3> QED BY <1>1, <1>3, <1>4, <2>1, <3>1, <3>2
  <2>2. CASE i \in 2 .. n
    <3>1. /\ c[i].prev = c[i-1].hash /\ c[i].index = c[i-1].index + 1
          /\ c[i].time > c[i-1].time
          /\ c[i].reward = AllowedReward(i - 1, SupplyAt(c)[i-1])
      BY <2>2 DEF GoodChain, Linked, Scheduled
    <3>2. i \in 1 .. n /\ i - 1 \in 1 .. n /\ i - 1 \in 0 .. n
      BY <1>1, <2>2
    <3>3. d[i] = c[i] /\ d[i-1] = c[i-1] /\ SupplyAt(d)[i-1] = SupplyAt(c)[i-1]
      BY <1>1, <1>4, <3>2
    <3> QED BY <3>1, <3>3
  <2> QED BY <1>1, <2>1, <2>2
<1>8. Linked(d) /\ Scheduled(d)
  BY <1>7 DEF Linked, Scheduled
<1>9. d # <<>> /\ GenesisBlock(d[1])
  <2>1. 1 \in 1 .. n /\ GenesisBlock(c[1])
    BY <1>1 DEF GoodChain
  <2> QED BY <1>1, <2>1
<1>10. GoodChain(d)
  BY <1>1, <1>6, <1>8, <1>9, BoundAssumption DEF GoodChain
<1> QED BY <1>10 DEF d

\* A chain without its tip.
WithoutTip(c) == SubSeq(c, 1, Len(c) - 1)

LEMMA WithoutTipIs ==
    ASSUME NEW c \in Seq(Block), c # <<>>
    PROVE  /\ WithoutTip(c) \in Seq(Block) /\ Len(WithoutTip(c)) = Len(c) - 1
           /\ Len(c) \in Nat \ {0}
           /\ \A i \in 1 .. Len(c) - 1 : WithoutTip(c)[i] = c[i]
           /\ c = Append(WithoutTip(c), Tip(c))
<1>1. Len(c) \in Nat \ {0} /\ Len(c) \in 1 .. Len(c)
  OBVIOUS
<1>2. /\ WithoutTip(c) \in Seq(Block) /\ Len(WithoutTip(c)) = Len(c) - 1
      /\ \A i \in 1 .. Len(c) - 1 : WithoutTip(c)[i] = c[i]
  <2> DEFINE n == Len(c) - 1
  <2>1. n \in Nat /\ n <= Len(c)
    BY <1>1
  <2> HIDE DEF n
  <2>2. SubSeq(c, 1, n) = [i \in 1 .. n |-> c[i]]
    BY <2>1
  <2>3. \A i \in 1 .. n : c[i] \in Block
    BY <2>1
  <2>4. SubSeq(c, 1, n) \in Seq(Block) /\ Len(SubSeq(c, 1, n)) = n
    BY <2>1, <2>2, <2>3
  <2> QED BY <2>2, <2>4 DEF WithoutTip, n
<1> DEFINE f == WithoutTip(c)
           d == Append(f, Tip(c))
<1>3. Tip(c) \in Block /\ Tip(c) = c[Len(c)]
  BY <1>1 DEF Tip
<1> HIDE DEF f
<1>4. d \in Seq(Block) /\ Len(d) = Len(c) /\ \A i \in 1 .. Len(c) : d[i] = c[i]
  <2>1. f \in Seq(Block) /\ Len(f) = Len(c) - 1 /\ \A i \in 1 .. Len(c) - 1 : f[i] = c[i]
    BY <1>2 DEF f
  <2> QED BY <1>1, <1>3, <2>1
<1> HIDE DEF d
<1>5. c = d
  BY <1>4
<1> QED BY <1>1, <1>2, <1>5 DEF d, f

LEMMA GoodWithoutTip ==
    ASSUME NEW c, GoodChain(c), c # <<>>
    PROVE  GoodChain(WithoutTip(c))
<1> DEFINE d == WithoutTip(c)
           n == Len(c) - 1
<1>1. /\ c \in Seq(Block) /\ d \in Seq(Block) /\ Len(d) = n /\ n \in Nat
      /\ n <= Len(c) /\ n + 1 = Len(c)
      /\ \A i \in 1 .. n : d[i] = c[i]
  BY WithoutTipIs DEF GoodChain
<1> HIDE DEF d, n
<1>2. \A i \in 0 .. n : SupplyAt(d)[i] = SupplyAt(c)[i]
  BY <1>1, SupplyAgrees DEF GoodChain
<1>3. \A i \in 1 .. Len(d) : GoodBlock(d[i], i - 1) /\ SupplyAt(d)[i] <= MaxSupply
  <2> SUFFICES ASSUME NEW i \in 1 .. n
               PROVE  GoodBlock(d[i], i - 1) /\ SupplyAt(d)[i] <= MaxSupply
    BY <1>1
  <2>1. i \in 1 .. Len(c) /\ i \in 0 .. n /\ d[i] = c[i]
    BY <1>1
  <2> QED BY <1>2, <2>1 DEF GoodChain
<1>4. Linked(d) /\ Scheduled(d)
  <2>1. ASSUME NEW i \in 2 .. Len(d)
        PROVE  /\ i \in 2 .. Len(c) /\ d[i] = c[i] /\ d[i-1] = c[i-1]
               /\ SupplyAt(d)[i-1] = SupplyAt(c)[i-1]
    <3>1. i \in 2 .. Len(c) /\ i \in 1 .. n /\ i - 1 \in 1 .. n /\ i - 1 \in 0 .. n
      BY <1>1
    <3> QED BY <1>1, <1>2, <3>1
  <2> QED BY <2>1 DEF GoodChain, Linked, Scheduled
<1>5. d # <<>> => GenesisBlock(d[1])
  BY <1>1 DEF GoodChain
<1>6. Len(d) <= MaxHeight + 1
  BY <1>1, BoundAssumption DEF GoodChain
<1>7. GoodChain(d)
  BY <1>1, <1>3, <1>4, <1>5, <1>6 DEF GoodChain
<1> QED BY <1>7 DEF d

LEMMA GoodEmpty == GoodChain(<<>>)
  BY BoundAssumption DEF GoodChain, Linked, Scheduled

\* The keys "bl" and the index "last" hold a chain's blocks, and no more of them.
Keys(bl, last, c) ==
    /\ Len(c) <= MaxHeight + 1
    /\ \A i \in 1 .. Len(c) : bl[i-1] = c[i]
    /\ \A n \in Heights : Len(c) <= n /\ n <= last => bl[n] = NoBlock

\* A restart loads the whole chain; or the index is one behind, and it loads
\* the chain without its tip.
Holds(bl, last, c) == Keys(bl, last, c) /\ last >= Len(c) - 1
Lags(bl, last, c)  == Keys(bl, last, c) /\ c # <<>> /\ last = Len(c) - 2

\* What may be in storage: a chain of this release, or an old one's genesis.
StoredChain(c) == GoodChain(c) \/ c = <<LegacyGenesis>>

LEMMA StoredBlocks ==
    ASSUME NEW c, StoredChain(c)
    PROVE  c \in Seq(Block) /\ \A i \in 1 .. Len(c) : c[i] # NoBlock
<1>1. CASE GoodChain(c)
  <2>1. c \in Seq(Block) /\ \A i \in 1 .. Len(c) : c[i].hash \in Hash
    BY <1>1 DEF GoodChain, GoodBlock
  <2> QED BY <2>1, HashAssumption DEF NoBlock
<1>2. CASE c = <<LegacyGenesis>>
  <2>1. LegacyGenesis \in Block /\ LegacyGenesis # NoBlock
    BY GenesisAssumption DEF NoBlock
  <2> QED BY <1>2, <2>1
<1> QED BY <1>1, <1>2 DEF StoredChain

\* A restart loads what storage holds.
LEMMA LengthHeld ==
    ASSUME NEW bl, NEW last \in Heights \cup {NoIndex}, NEW c, StoredChain(c),
           Holds(bl, last, c)
    PROVE  Len(c) = CHOOSE n \in 0 .. last + 1 : /\ \A i \in 0 .. n - 1 : bl[i] # NoBlock
                                                 /\ n = last + 1 \/ bl[n] = NoBlock
<1> DEFINE Ends(n) == /\ n \in 0 .. last + 1
                      /\ \A i \in 0 .. n - 1 : bl[i] # NoBlock
                      /\ n = last + 1 \/ bl[n] = NoBlock
           m == Len(c)
<1>1. /\ m \in Nat /\ last \in Int /\ last + 1 \in Nat /\ m <= last + 1
      /\ last + 1 <= MaxHeight + 1 /\ MaxHeight \in Nat
      /\ \A i \in 1 .. m : bl[i-1] = c[i] /\ c[i] # NoBlock
      /\ \A n \in 0 .. MaxHeight : m <= n /\ n <= last => bl[n] = NoBlock
  BY StoredBlocks, BoundAssumption DEF Holds, Keys, Heights, NoIndex
<1>2. \A i \in 0 .. m - 1 : bl[i] # NoBlock
  <2> SUFFICES ASSUME NEW i \in 0 .. m - 1 PROVE bl[i] # NoBlock
    OBVIOUS
  <2>1. i + 1 \in 1 .. m /\ i + 1 - 1 = i
    BY <1>1
  <2> QED BY <1>1, <2>1
<1> HIDE DEF m
<1>3. Ends(m)
  <2>1. m # last + 1 => m \in 0 .. MaxHeight /\ m <= last
    BY <1>1
  <2> QED BY <1>1, <1>2, <2>1
<1>4. ASSUME NEW n, Ends(n) PROVE n = m
  <2>1. CASE n < m
    <3>1. n \in 0 .. m - 1 /\ n # last + 1
      BY <1>1, <1>4, <2>1
    <3> QED BY <1>2, <1>4, <3>1
  <2>2. CASE n > m
    <3>1. m \in 0 .. n - 1 /\ m \in 0 .. MaxHeight /\ m <= last
      BY <1>1, <1>4, <2>2
    <3> QED BY <1>1, <1>4, <3>1
  <2> QED BY <1>1, <1>4, <2>1, <2>2
<1>5. m = CHOOSE n : Ends(n)
  <2> HIDE DEF Ends
  <2> QED BY <1>3, <1>4
<1> QED BY <1>5 DEF m

LEMMA HeldLoads ==
    ASSUME NEW c, StoredChain(c)
    PROVE  /\ DiskTyped /\ Holds(blocks, lastIndex, c) => LoadedChain = c
           /\ DiskTyped' /\ Holds(blocks', lastIndex', c) => LoadedChain' = c
<1>1. c \in Seq(Block)
  BY StoredBlocks
<1>2. ASSUME DiskTyped, Holds(blocks, lastIndex, c) PROVE LoadedChain = c
  <2>1. LoadedLength = Len(c)
    BY <1>2, LengthHeld DEF DiskTyped, LoadedLength
  <2>2. LoadedChain = [i \in 1 .. Len(c) |-> blocks[i-1]]
    BY <2>1 DEF LoadedChain
  <2>3. \A i \in 1 .. Len(c) : blocks[i-1] = c[i]
    BY <1>2 DEF Holds, Keys
  <2> QED BY <1>1, <2>2, <2>3
<1>3. ASSUME DiskTyped', Holds(blocks', lastIndex', c) PROVE LoadedChain' = c
  <2>1. LoadedLength' = Len(c)
    BY <1>3, LengthHeld DEF DiskTyped, LoadedLength
  <2>2. LoadedChain' = [i \in 1 .. Len(c) |-> blocks'[i-1]]
    BY <2>1 DEF LoadedChain
  <2>3. \A i \in 1 .. Len(c) : blocks'[i-1] = c[i]
    BY <1>3 DEF Holds, Keys
  <2> QED BY <1>1, <2>2, <2>3
<1> QED BY <1>2, <1>3

\* Storage that lags holds the chain without its tip.
LEMMA LagsHolds ==
    ASSUME NEW bl, NEW last, NEW c \in Seq(Block), Lags(bl, last, c)
    PROVE  Holds(bl, last, WithoutTip(c))
<1> DEFINE d == WithoutTip(c)
<1>1. /\ Len(d) = Len(c) - 1 /\ Len(c) \in Nat \ {0} /\ last = Len(c) - 2
      /\ \A i \in 1 .. Len(c) - 1 : d[i] = c[i]
  BY WithoutTipIs DEF Lags
<1> HIDE DEF d
<1>2. \A i \in 1 .. Len(d) : bl[i-1] = d[i]
  BY <1>1 DEF Lags, Keys
<1>3. \A n \in Heights : ~ (Len(d) <= n /\ n <= last)
  BY <1>1, BoundAssumption DEF Heights
<1>4. Len(d) <= MaxHeight + 1 /\ last >= Len(d) - 1
  BY <1>1, BoundAssumption DEF Lags, Keys
<1>5. Holds(bl, last, d)
  BY <1>2, <1>3, <1>4 DEF Holds, Keys
<1> QED BY <1>5 DEF d

\* The first write of SaveBlock: the block's key (storage/db.go:42-56).
LEMMA PutHolds ==
    ASSUME NEW bl \in [Heights -> Block], NEW last \in Heights \cup {NoIndex},
           NEW c \in Seq(Block), Len(c) <= MaxHeight, Holds(bl, last, c), NEW b \in Block
    PROVE  \/ Holds([bl EXCEPT ![Len(c)] = b], last, Append(c, b))
           \/ Lags([bl EXCEPT ![Len(c)] = b], last, Append(c, b))
<1> DEFINE n == Len(c)
           d == Append(c, b)
           new == [bl EXCEPT ![n] = b]
<1>1. /\ n \in Nat /\ n <= MaxHeight /\ MaxHeight \in Nat /\ last >= n - 1
      /\ last \in Int /\ n \in Heights
      /\ \A i \in 1 .. n : bl[i-1] = c[i]
      /\ \A k \in Heights : n <= k /\ k <= last => bl[k] = NoBlock
  BY BoundAssumption DEF Holds, Keys, Heights, NoIndex
<1>2. d # <<>> /\ Len(d) = n + 1 /\ d[n + 1] = b /\ \A i \in 1 .. n : d[i] = c[i]
  <2>1. Len(d) = n + 1 /\ d[n + 1] = b
    OBVIOUS
  <2>2. ASSUME NEW i \in 1 .. n PROVE d[i] = c[i]
    OBVIOUS
  <2>3. d # <<>>
    OBVIOUS
  <2> QED BY <2>1, <2>2, <2>3
<1>3. new[n] = b /\ \A k \in Heights \ {n} : new[k] = bl[k]
  BY <1>1
<1> HIDE DEF n, d, new
<1>4. \A i \in 1 .. n : i - 1 \in Heights \ {n} /\ i - 1 # n
  BY <1>1 DEF Heights
<1>5. \A i \in 1 .. Len(d) : new[i-1] = d[i]
  <2> SUFFICES ASSUME NEW i \in 1 .. n + 1 PROVE new[i-1] = d[i]
    BY <1>2
  <2>1. CASE i = n + 1
    <3>1. i - 1 = n
      BY <1>1, <2>1
    <3> QED BY <1>2, <1>3, <2>1, <3>1
  <2>2. CASE i \in 1 .. n
    BY <1>1, <1>2, <1>3, <1>4, <2>2
  <2> QED BY <1>1, <2>1, <2>2
<1>6. \A k \in Heights : Len(d) <= k /\ k <= last => new[k] = NoBlock
  <2> SUFFICES ASSUME NEW k \in Heights, n + 1 <= k, k <= last PROVE new[k] = NoBlock
    BY <1>2
  <2>1. k \in Heights \ {n} /\ n <= k
    BY <1>1 DEF Heights
  <2> QED BY <1>1, <1>3, <2>1
<1>7. Keys(new, last, d)
  BY <1>1, <1>2, <1>5, <1>6 DEF Keys
<1>8. last >= Len(d) - 1 \/ last = Len(d) - 2
  BY <1>1, <1>2
<1>9. Holds(new, last, d) \/ Lags(new, last, d)
  BY <1>2, <1>7, <1>8 DEF Holds, Lags
<1> QED BY <1>9 DEF new, d, n

\* The second write of SaveBlock and of DeleteBlock: the index of the tip.
LEMMA IndexHolds ==
    ASSUME NEW bl, NEW last, NEW c \in Seq(Block), Keys(bl, last, c)
    PROVE  Holds(bl, Len(c) - 1, c)
<1>1. Len(c) \in Nat
  OBVIOUS
<1>2. \A n \in Heights : ~ (Len(c) <= n /\ n <= Len(c) - 1)
  BY <1>1, BoundAssumption DEF Heights
<1> QED BY <1>1, <1>2 DEF Holds, Keys

\* The first write of DeleteBlock: the tip's key goes (storage/db.go:90-95).
LEMMA DeleteHolds ==
    ASSUME NEW bl \in [Heights -> Block], NEW last \in Heights \cup {NoIndex},
           NEW c \in Seq(Block), c # <<>>, Holds(bl, last, c)
    PROVE  Holds([bl EXCEPT ![Len(c) - 1] = NoBlock], last, WithoutTip(c))
<1> DEFINE d == WithoutTip(c)
           n == Len(c) - 1
           new == [bl EXCEPT ![n] = NoBlock]
<1>1. /\ Len(d) = n /\ n \in Nat /\ Len(c) = n + 1
      /\ \A i \in 1 .. n : d[i] = c[i]
  BY WithoutTipIs
<1>2. /\ n <= MaxHeight /\ MaxHeight \in Nat /\ last >= n /\ n \in Heights
      /\ last \in Int
      /\ \A i \in 1 .. n + 1 : bl[i-1] = c[i]
      /\ \A k \in Heights : n + 1 <= k /\ k <= last => bl[k] = NoBlock
  BY <1>1, BoundAssumption DEF Holds, Keys, Heights, NoIndex
<1>3. new[n] = NoBlock /\ \A k \in Heights \ {n} : new[k] = bl[k]
  BY <1>2
<1> HIDE DEF n, d, new
<1>4. \A i \in 1 .. Len(d) : new[i-1] = d[i]
  <2> SUFFICES ASSUME NEW i \in 1 .. n PROVE new[i-1] = d[i]
    BY <1>1
  <2>1. i - 1 \in Heights \ {n} /\ i \in 1 .. n + 1
    BY <1>1, <1>2 DEF Heights
  <2> QED BY <1>1, <1>2, <1>3, <2>1
<1>5. \A k \in Heights : Len(d) <= k /\ k <= last => new[k] = NoBlock
  <2> SUFFICES ASSUME NEW k \in Heights, n <= k, k <= last PROVE new[k] = NoBlock
    BY <1>1
  <2>1. CASE k = n
    BY <1>3, <2>1
  <2>2. CASE k # n
    <3>1. n + 1 <= k
      BY <1>1, <2>2 DEF Heights
    <3> QED BY <1>2, <1>3, <2>2, <3>1
  <2> QED BY <2>1, <2>2
<1>6. Len(d) <= MaxHeight + 1 /\ last >= Len(d) - 1
  BY <1>1, <1>2
<1>7. Holds(new, last, d)
  BY <1>4, <1>5, <1>6 DEF Holds, Keys
<1> QED BY <1>7 DEF new, d, n

\* MineBlock is called by one goroutine at a time.
OneCaller == \A t, u \in Threads : t = u

\* Between the two writes of SaveBlock.
Writing == \/ status = "indexing"
           \/ \E t \in Threads : pc[t] = "saved"
           \/ reorg.step = "saved"

\* A process that is down left a chain in storage, whatever it was doing; one
\* that runs has its own there, except for the tip it is writing.
StorageInv ==
    \/ status = "down" /\ \E c \in Seq(Block) : StoredChain(c) /\ Holds(blocks, lastIndex, c)
    \/ status # "down" /\ Holds(blocks, lastIndex, Chain)
    \/ Writing /\ Lags(blocks, lastIndex, Chain)

ChainInv ==
    /\ status \in {"down", "spawning"} => Chain = <<>>
    /\ status = "indexing" => Len(Chain) = 1
    /\ GoodChain(Chain)

\* A call under way builds on the tip, with the supply of the whole chain.
SerialCall(t) ==
    /\ pc[t] # "unsaved"
    /\ pc[t] \in {"selecting", "selected", "priced", "retargeted", "assembled", "mined"}
         => parent[t] = Tip(Chain)
    /\ pc[t] \in {"priced", "retargeted", "assembled", "mined"}
         => currentSupply[t] = GetTotalCirculatingSupply(Chain)
    /\ pc[t] \in {"retargeted", "assembled", "mined"}
         => newBlock[t].time = parent[t].time + 1 \/ newBlock[t].time \in Clock
    /\ pc[t] = "mined"
         => newBlock[t].hash \in Hash
            /\ ValidateBlockConsensus(newBlock[t], parent[t], currentSupply[t])
    /\ pc[t] = "saved" => newBlock[t] = Tip(Chain)
    /\ reorg # NoReorg => pc[t] = "idle"

SerialReorg ==
    /\ reorg.step # "unsaved"
    /\ reorg.step = "saved" => reorg.block = Tip(Chain)
    /\ reorg.step = "deleted" => reorg.block.index = Len(Chain) /\ Chain # <<>>

SerialInv ==
    /\ StorageInv /\ ChainInv /\ SerialReorg
    /\ \A t \in Threads : SerialCall(t)

\* What one step may do to the chain a restart would load.
StoredStep(c, d) ==
    \/ d = c
    \/ c = <<>> /\ GoodChain(d) /\ Len(d) = 1
    \/ c # <<>> /\ GoodChain(c) /\ GoodChain(d) /\ \E b \in Block : d = Append(c, b)
    \/ GoodChain(c) /\ Len(c) > 1 /\ d = WithoutTip(c)
    \/ c = <<LegacyGenesis>> /\ d = <<>>

StorageStep == StorageInv' /\ ChainInv' /\ StoredStep(LoadedChain, LoadedChain')

\* A restart of a running process would load the chain, or all but the tip.
LEMMA RunningLoads ==
    ASSUME DiskTyped, StorageInv, ChainInv, status # "down"
    PROVE  /\ Keys(blocks, lastIndex, Chain) /\ Chain \in Seq(Block)
           /\ ~Writing => Holds(blocks, lastIndex, Chain)
           /\ \/ LoadedChain = Chain
              \/ Chain # <<>> /\ LoadedChain = WithoutTip(Chain) /\ GoodChain(WithoutTip(Chain))
           /\ Holds(blocks, lastIndex, Chain) => LoadedChain = Chain
           /\ Writing /\ Lags(blocks, lastIndex, Chain)
                => LoadedChain = WithoutTip(Chain) /\ GoodChain(WithoutTip(Chain))
<1>1. GoodChain(Chain) /\ StoredChain(Chain) /\ Chain \in Seq(Block)
  BY DEF ChainInv, StoredChain, GoodChain
<1>2. ASSUME Holds(blocks, lastIndex, Chain)
      PROVE  LoadedChain = Chain /\ Keys(blocks, lastIndex, Chain)
  BY <1>1, <1>2, HeldLoads DEF Holds
<1>3. ASSUME Lags(blocks, lastIndex, Chain)
      PROVE  /\ LoadedChain = WithoutTip(Chain) /\ GoodChain(WithoutTip(Chain)) /\ Chain # <<>>
             /\ Keys(blocks, lastIndex, Chain)
  <2>1. Chain # <<>> /\ Holds(blocks, lastIndex, WithoutTip(Chain))
    BY <1>1, <1>3, LagsHolds DEF Lags
  <2>2. GoodChain(WithoutTip(Chain))
    BY <1>1, <2>1, GoodWithoutTip
  <2>3. LoadedChain = WithoutTip(Chain)
    BY <2>1, <2>2, HeldLoads DEF StoredChain
  <2> QED BY <1>3, <2>1, <2>2, <2>3 DEF Lags
<1> QED BY <1>1, <1>2, <1>3 DEF StorageInv

\* A restart loads the same from the same storage.
LEMMA SameLoaded ==
    ASSUME blocks' = blocks, lastIndex' = lastIndex
    PROVE  LoadedChain' = LoadedChain
  BY DEF LoadedChain, LoadedLength

\* A step that leaves the chain and the storage alone.
LEMMA StorageQuiet ==
    ASSUME StorageInv, ChainInv, status' = status, Chain' = Chain,
           blocks' = blocks, lastIndex' = lastIndex, Writing => Writing'
    PROVE  StorageStep
<1>1. StorageInv' /\ ChainInv'
  BY DEF StorageInv, ChainInv
<1>2. LoadedChain' = LoadedChain
  BY SameLoaded
<1> QED BY <1>1, <1>2 DEF StorageStep, StoredStep

\* The chain gets a block, whose key is written.
LEMMA StoragePut ==
    ASSUME DiskTyped, DiskTyped', StorageInv, ChainInv, status # "down", ~Writing,
           NEW b \in Block, b.index = Len(Chain), GoodChain(Append(Chain, b)),
           AppendBlock(b), PutBlock(b), lastIndex' = lastIndex,
           status' \in {"indexing", "up"}, Writing',
           status' = "indexing" => Chain = <<>>
    PROVE  StorageStep
<1> DEFINE c == Chain
           d == Append(Chain, b)
<1>1. /\ Holds(blocks, lastIndex, c) /\ LoadedChain = c
      /\ GoodChain(c) /\ c \in Seq(Block)
  BY RunningLoads DEF ChainInv
<1>2. GoodChain(d) /\ Chain' = d /\ Len(d) = Len(c) + 1 /\ d # <<>>
  BY <1>1 DEF AppendBlock
<1>3. Len(c) \in Nat /\ Len(c) <= MaxHeight
  BY <1>1, <1>2, BoundAssumption DEF GoodChain
<1>4. blocks' = [blocks EXCEPT ![Len(c)] = b]
  BY DEF PutBlock
<1> HIDE DEF c, d
<1>5. Holds(blocks', lastIndex', d) \/ Lags(blocks', lastIndex', d)
  <2>1. \/ Holds([blocks EXCEPT ![Len(c)] = b], lastIndex, Append(c, b))
        \/ Lags([blocks EXCEPT ![Len(c)] = b], lastIndex, Append(c, b))
    BY <1>1, <1>3, PutHolds DEF DiskTyped
  <2> QED BY <1>4, <2>1 DEF c, d
<1>6. StorageInv' /\ ChainInv'
  <2>1. StorageInv'
    BY <1>2, <1>5 DEF StorageInv
  <2>2. status' = "indexing" => Len(d) = 1
    BY <1>2 DEF c
  <2> QED BY <1>2, <2>1, <2>2 DEF ChainInv
<1>7. LoadedChain' = d \/ LoadedChain' = c
  <2>1. CASE Holds(blocks', lastIndex', d)
    BY <1>2, <2>1, HeldLoads DEF StoredChain
  <2>2. CASE Lags(blocks', lastIndex', d)
    <3>1. d \in Seq(Block) /\ WithoutTip(d) = c
      <4>1. d \in Seq(Block)
        BY <1>1 DEF c, d
      <4>2. \A i \in 1 .. Len(c) : WithoutTip(d)[i] = c[i]
        <5>1. \A i \in 1 .. Len(d) - 1 : WithoutTip(d)[i] = d[i]
          BY <1>2, <4>1, WithoutTipIs
        <5>2. Len(d) - 1 = Len(c) /\ \A i \in 1 .. Len(c) : d[i] = c[i]
          BY <1>1, <1>2, <1>3 DEF c, d
        <5> QED BY <5>1, <5>2
      <4>3. Len(WithoutTip(d)) = Len(c) /\ WithoutTip(d) \in Seq(Block)
        BY <1>2, <1>3, <4>1, WithoutTipIs
      <4> QED BY <1>1, <4>1, <4>2, <4>3
    <3>2. Holds(blocks', lastIndex', c)
      BY <2>2, <3>1, LagsHolds
    <3> QED BY <1>1, <3>2, HeldLoads DEF StoredChain
  <2> QED BY <1>5, <2>1, <2>2
<1>8. StoredStep(c, LoadedChain')
  <2>1. CASE c = <<>>
    <3>1. Len(d) = 1
      BY <1>2, <2>1
    <3> QED BY <1>2, <1>7, <2>1, <3>1 DEF StoredStep
  <2>2. CASE c # <<>>
    BY <1>1, <1>2, <1>7, <2>2 DEF StoredStep, c, d
  <2> QED BY <2>1, <2>2
<1> QED BY <1>1, <1>6, <1>8 DEF StorageStep

\* The index of the tip is written.
LEMMA StorageIndex ==
    ASSUME DiskTyped, DiskTyped', StorageInv, ChainInv,
           status # "down", Chain # <<>>, status' = "up",
           Chain' = Chain, blocks' = blocks, lastIndex' = Len(Chain) - 1
    PROVE  StorageStep
<1> DEFINE c == Chain
<1>1. /\ GoodChain(c) /\ c \in Seq(Block) /\ Keys(blocks, lastIndex, c)
      /\ LoadedChain = c \/ (LoadedChain = WithoutTip(c) /\ GoodChain(WithoutTip(c)))
  BY RunningLoads DEF ChainInv
<1> HIDE DEF c
<1>2. Holds(blocks', lastIndex', c)
  BY <1>1, IndexHolds DEF c
<1>3. StorageInv' /\ ChainInv'
  BY <1>1, <1>2 DEF StorageInv, ChainInv, c
<1>4. LoadedChain' = c
  BY <1>1, <1>2, HeldLoads DEF StoredChain
<1>5. StoredStep(LoadedChain, c)
  <2>1. CASE LoadedChain = c
    BY <2>1 DEF StoredStep
  <2>2. CASE LoadedChain = WithoutTip(c) /\ GoodChain(WithoutTip(c))
    <3>1. /\ c = Append(WithoutTip(c), Tip(c)) /\ Len(WithoutTip(c)) = Len(c) - 1
          /\ WithoutTip(c) = <<>> => Len(c) = 1
          /\ Tip(c) \in Block
      <4>1. c # <<>> /\ Len(c) \in 1 .. Len(c)
        BY <1>1 DEF c
      <4>2. Tip(c) \in Block
        BY <1>1, <4>1 DEF Tip
      <4>3. /\ c = Append(WithoutTip(c), Tip(c)) /\ Len(WithoutTip(c)) = Len(c) - 1
            /\ Len(c) \in Nat
        BY <1>1, <4>1, WithoutTipIs
      <4> QED BY <4>2, <4>3
    <3> QED BY <1>1, <2>2, <3>1 DEF StoredStep
  <2> QED BY <1>1, <2>1, <2>2
<1> QED BY <1>3, <1>4, <1>5 DEF StorageStep

\* The tip leaves the chain and its key is deleted.
LEMMA StorageDelete ==
    ASSUME DiskTyped, DiskTyped', StorageInv, ChainInv, status = "up", status' = "up",
           ~Writing, Len(Chain) > 1, Chain' = WithoutTip(Chain),
           blocks' = [blocks EXCEPT ![Tip(Chain).index] = NoBlock], lastIndex' = lastIndex
    PROVE  StorageStep
<1> DEFINE c == Chain
<1>1. /\ Holds(blocks, lastIndex, c) /\ LoadedChain = c
      /\ GoodChain(c) /\ c \in Seq(Block) /\ c # <<>>
  BY RunningLoads DEF ChainInv
<1>2. Tip(c).index = Len(c) - 1
  BY <1>1, GoodTip
<1>3. GoodChain(WithoutTip(c))
  BY <1>1, GoodWithoutTip
<1>4. Holds(blocks', lastIndex', WithoutTip(c))
  <2>1. Holds([blocks EXCEPT ![Len(c) - 1] = NoBlock], lastIndex, WithoutTip(c))
    <3> HIDE DEF c
    <3> QED BY <1>1, DeleteHolds DEF DiskTyped
  <2> QED BY <1>2, <2>1
<1>5. StorageInv' /\ ChainInv'
  BY <1>3, <1>4 DEF StorageInv, ChainInv
<1>6. LoadedChain' = WithoutTip(c)
  <2> HIDE DEF c
  <2> QED BY <1>3, <1>4, HeldLoads DEF StoredChain
<1> QED BY <1>1, <1>5, <1>6 DEF StorageStep, StoredStep

\* The process dies and leaves the storage as it is.
LEMMA StorageCrash ==
    ASSUME DiskTyped, StorageInv, ChainInv, status # "down", status' = "down", Chain' = <<>>,
           blocks' = blocks, lastIndex' = lastIndex
    PROVE  StorageStep
<1>1. GoodChain(LoadedChain) /\ Holds(blocks, lastIndex, LoadedChain)
  <2>1. CASE Holds(blocks, lastIndex, Chain)
    BY <2>1, RunningLoads DEF ChainInv
  <2>2. CASE Writing /\ Lags(blocks, lastIndex, Chain)
    <3>1. LoadedChain = WithoutTip(Chain) /\ GoodChain(WithoutTip(Chain)) /\ Chain \in Seq(Block)
      BY <2>2, RunningLoads
    <3> QED BY <2>2, <3>1, LagsHolds
  <2> QED BY <2>1, <2>2 DEF StorageInv
<1>2. LoadedChain' = LoadedChain
  BY SameLoaded
<1>3. StorageInv' /\ ChainInv'
  <2>1. LoadedChain \in Seq(Block) /\ StoredChain(LoadedChain)
    BY <1>1 DEF GoodChain, StoredChain
  <2> QED BY <1>1, <2>1, GoodEmpty DEF StorageInv, ChainInv
<1> QED BY <1>2, <1>3 DEF StorageStep, StoredStep

SerialStep == SerialInv' /\ StoredStep(LoadedChain, LoadedChain')

\* A step of the only call that leaves the chain and the storage alone.
LEMMA SerialOneCall ==
    ASSUME SerialInv, OneCaller, NEW t \in Threads, pc[t] # "saved",
           status = "up", status' = "up", Chain' = Chain, reorg' = reorg,
           blocks' = blocks, lastIndex' = lastIndex, SerialCall(t)'
    PROVE  SerialStep
<1>1. \A u \in Threads : u = t
  BY DEF OneCaller
<1>2. Writing => Writing'
  BY <1>1 DEF Writing
<1>3. StorageStep
  BY <1>2, StorageQuiet DEF SerialInv
<1>4. SerialReorg' /\ \A u \in Threads : SerialCall(u)'
  BY <1>1 DEF SerialInv, SerialReorg
<1> QED BY <1>3, <1>4 DEF SerialStep, SerialInv, StorageStep

\* A call that is under way: no reorg is.
LEMMA SerialUnderWay ==
    ASSUME SerialInv, TypeInv, NEW t \in Threads, pc[t] # "idle"
    PROVE  /\ status = "up" /\ reorg = NoReorg /\ reorg.step = "none"
           /\ Chain # <<>> /\ GoodChain(Chain) /\ SerialCall(t)
<1>1. status = "up" /\ Chain # <<>>
  BY CallUp
<1>2. SerialCall(t) /\ GoodChain(Chain)
  BY DEF SerialInv, ChainInv
<1>3. reorg = NoReorg
  BY <1>2 DEF SerialCall
<1> QED BY <1>1, <1>2, <1>3, NoReorgTyped

\* From the lock to the assembled block.
LEMMA SerialPrepare ==
    ASSUME SerialInv, TypeInv, OneCaller, NEW t \in Threads,
           \/ RejectMiner(t) \/ MineBlock(t)
           \/ SelectTransfer(t) \/ SkipTransfer(t) \/ FinishSelection(t)
           \/ ComputeReward(t) \/ AdjustDifficulty(t) \/ AssembleBlock(t)
    PROVE  SerialStep
<1> USE DEF memory, disk
<1>0. /\ pc \in [Threads -> PcStates] /\ parent \in [Threads -> Block]
      /\ newBlock \in [Threads -> Block] /\ currentSupply \in [Threads -> Nat]
  BY DEF TypeInv, CallsTyped
<1>1. CASE RejectMiner(t)
  <2>1. /\ status = "up" /\ status' = "up" /\ pc[t] = "idle" /\ reorg = NoReorg
        /\ Chain' = Chain /\ reorg' = reorg /\ blocks' = blocks /\ lastIndex' = lastIndex
        /\ pc' = [pc EXCEPT ![t] = "panicked"]
    BY <1>1 DEF RejectMiner, CanMine
  <2>2. SerialCall(t)'
    BY <1>0, <2>1 DEF SerialCall, NoReorg
  <2> QED BY <2>1, <2>2, SerialOneCall
<1>2. CASE MineBlock(t)
  <2>1. /\ status = "up" /\ status' = "up" /\ pc[t] = "idle" /\ reorg = NoReorg
        /\ Chain' = Chain /\ reorg' = reorg /\ blocks' = blocks /\ lastIndex' = lastIndex
        /\ pc' = [pc EXCEPT ![t] = "selecting"]
        /\ parent' = [parent EXCEPT ![t] = Tip(Chain)]
    BY <1>2 DEF MineBlock, CanMine
  <2>2. pc'[t] = "selecting" /\ parent'[t] = Tip(Chain)'
    BY <1>0, <2>1 DEF Tip
  <2>3. SerialCall(t)'
    BY <2>1, <2>2 DEF SerialCall, NoReorg
  <2> QED BY <2>1, <2>3, SerialOneCall
<1>3. CASE \/ SelectTransfer(t) \/ SkipTransfer(t) \/ FinishSelection(t)
           \/ ComputeReward(t) \/ AdjustDifficulty(t) \/ AssembleBlock(t)
  <2>1. /\ pc[t] \in {"selecting", "selected", "priced", "retargeted"}
        /\ status' = status /\ Chain' = Chain /\ reorg' = reorg
        /\ blocks' = blocks /\ lastIndex' = lastIndex /\ parent' = parent
    BY <1>3 DEF SelectTransfer, SkipTransfer, AtTransfer, FinishSelection, ComputeReward,
                AdjustDifficulty, AssembleBlock
  <2>2. /\ status = "up" /\ reorg = NoReorg /\ SerialCall(t) /\ pc[t] # "saved"
    BY <2>1, SerialUnderWay
  <2>3. parent'[t] = Tip(Chain)' /\ (Tip(Chain)' = Tip(Chain))
        /\ GetTotalCirculatingSupply(Chain)' = GetTotalCirculatingSupply(Chain)
    BY <2>1, <2>2 DEF SerialCall
  <2>4. CASE SelectTransfer(t) \/ SkipTransfer(t) \/ FinishSelection(t)
    <3>1. pc'[t] \in {"selecting", "selected"}
      BY <1>0, <2>4 DEF SelectTransfer, SkipTransfer, AtTransfer, FinishSelection
    <3>2. SerialCall(t)'
      BY <2>1, <2>2, <2>3, <3>1 DEF SerialCall, NoReorg
    <3> QED BY <2>1, <2>2, <3>2, SerialOneCall
  <2>5. CASE ComputeReward(t)
    <3>1. pc'[t] = "priced" /\ currentSupply'[t] = GetTotalCirculatingSupply(Chain)
      BY <1>0, <2>5 DEF ComputeReward
    <3>2. SerialCall(t)'
      BY <2>1, <2>2, <2>3, <3>1 DEF SerialCall, NoReorg
    <3> QED BY <2>1, <2>2, <3>2, SerialOneCall
  <2>6. CASE AdjustDifficulty(t)
    <3>1. /\ pc'[t] = "retargeted" /\ currentSupply' = currentSupply /\ pc[t] = "priced"
          /\ newBlock'[t].time = parent[t].time + 1 \/ newBlock'[t].time \in Clock
      <4>1. PICK now \in Clock :
              newBlock' = [newBlock EXCEPT ![t].time = BlockTime(now, parent[t].time)]
        BY <2>6 DEF AdjustDifficulty
      <4>2. newBlock'[t].time = BlockTime(now, parent[t].time)
        BY <1>0, <4>1 DEF Block
      <4>3. BlockTime(now, parent[t].time) \in {now, parent[t].time + 1}
        BY DEF BlockTime
      <4>4. pc'[t] = "retargeted" /\ currentSupply' = currentSupply /\ pc[t] = "priced"
        BY <1>0, <2>6 DEF AdjustDifficulty
      <4> QED BY <4>2, <4>3, <4>4
    <3>2. SerialCall(t)'
      BY <2>1, <2>2, <2>3, <3>1 DEF SerialCall, NoReorg
    <3> QED BY <2>1, <2>2, <3>2, SerialOneCall
  <2>7. CASE AssembleBlock(t)
    <3>1. /\ pc'[t] = "assembled" /\ currentSupply' = currentSupply /\ pc[t] = "retargeted"
          /\ newBlock'[t].time = newBlock[t].time
      BY <1>0, <2>7 DEF AssembleBlock, Block
    <3>2. SerialCall(t)'
      BY <2>1, <2>2, <2>3, <3>1 DEF SerialCall, NoReorg
    <3> QED BY <2>1, <2>2, <3>2, SerialOneCall
  <2> QED BY <1>3, <2>4, <2>5, <2>6, <2>7
<1> QED BY <1>1, <1>2, <1>3

\* What was mined passed validation against the tip.
LEMMA SerialMine ==
    ASSUME SerialInv, TypeInv, OneCaller, NEW t \in Threads, MineAndValidate(t)
    PROVE  SerialStep
<1>1. /\ pc[t] = "assembled" /\ status' = status /\ Chain' = Chain /\ reorg' = reorg
      /\ blocks' = blocks /\ lastIndex' = lastIndex
  BY DEF MineAndValidate, memory, disk
<1>2. status = "up" /\ reorg = NoReorg /\ SerialCall(t)
  BY <1>1, SerialUnderWay
<1>3. pc'[t] = "panicked" \/
      /\ pc'[t] = "mined" /\ parent' = parent /\ currentSupply' = currentSupply
      /\ newBlock'[t].hash \in Hash /\ newBlock'[t].time = newBlock[t].time
      /\ ValidateBlockConsensus(newBlock'[t], parent[t], currentSupply[t])
  <2>1. PICK h \in Hash, work \in {TargetDifficulty, newBlock[t].diff} :
          LET b == [newBlock[t] EXCEPT !.hash = h, !.work = work]
          IN  IF ValidateBlockConsensus(b, parent[t], currentSupply[t])
              THEN /\ newBlock' = [newBlock EXCEPT ![t] = b]
                   /\ pc' = [pc EXCEPT ![t] = "mined"]
                   /\ UNCHANGED <<parent, feeTotal, currentSupply, cursor, blockBytes>>
              ELSE Finish(t, "panicked")
    BY DEF MineAndValidate
  <2> DEFINE b == [newBlock[t] EXCEPT !.hash = h, !.work = work]
  <2>2. b.hash = h /\ b.time = newBlock[t].time
    BY DEF TypeInv, CallsTyped, Block
  <2>3. CASE ValidateBlockConsensus(b, parent[t], currentSupply[t])
    <3>1. /\ newBlock' = [newBlock EXCEPT ![t] = b] /\ pc' = [pc EXCEPT ![t] = "mined"]
          /\ parent' = parent /\ currentSupply' = currentSupply
      BY <2>1, <2>3
    <3> HIDE DEF b
    <3>2. newBlock'[t] = b /\ pc'[t] = "mined"
      BY <3>1 DEF TypeInv, CallsTyped
    <3> QED BY <2>2, <2>3, <3>1, <3>2
  <2>4. CASE ~ValidateBlockConsensus(b, parent[t], currentSupply[t])
    <3>1. pc' = [pc EXCEPT ![t] = "panicked"]
      BY <2>1, <2>4 DEF Finish
    <3> QED BY <3>1 DEF TypeInv, CallsTyped
  <2> QED BY <2>3, <2>4
<1>4. SerialCall(t)'
  BY <1>1, <1>2, <1>3 DEF SerialCall, NoReorg
<1> QED BY <1>1, <1>2, <1>4, SerialOneCall

\* A block that passed validation against the tip extends the chain.
LEMMA SerialExtends ==
    ASSUME GoodChain(Chain), Chain # <<>>, NEW b \in Block, b.index <= MaxHeight,
           b.hash \in Hash, b.time = Tip(Chain).time + 1 \/ b.time \in Clock,
           ValidateBlockConsensus(b, Tip(Chain), GetTotalCirculatingSupply(Chain))
    PROVE  GoodChain(Append(Chain, b)) /\ b.index = Len(Chain)
<1>1. /\ Len(Chain) \in Nat \ {0} /\ Tip(Chain).index = Len(Chain) - 1
      /\ Tip(Chain) \in Block /\ TimeFits(Tip(Chain).time, Len(Chain) - 1)
  BY GoodTip, BoundAssumption
<1>2. b.index = Len(Chain)
  BY <1>1 DEF ValidateBlockConsensus
<1>3. TimeFits(b.time, Len(Chain))
  <2>1. CASE b.time \in Clock
    <3>1. b.time \in Nat
      BY BlockFields
    <3>2. b.time <= b.time /\ b.time <= b.time + Len(Chain)
      BY <1>1, <3>1
    <3> QED BY <2>1, <3>2 DEF TimeFits
  <2>2. CASE b.time = Tip(Chain).time + 1
    <3>1. PICK base \in {GenesisTime} \cup Clock :
            base <= Tip(Chain).time /\ Tip(Chain).time <= base + (Len(Chain) - 1)
      BY <1>1 DEF TimeFits
    <3>2. base \in Nat /\ Tip(Chain).time \in Nat
      BY <1>1, BlockFields, GenesisAssumption, ClockAssumption
    <3>3. base <= b.time /\ b.time <= base + Len(Chain)
      BY <1>1, <2>2, <3>1, <3>2
    <3> QED BY <3>3 DEF TimeFits
  <2> QED BY <2>1, <2>2
<1> QED BY <1>2, <1>3, GoodAppend

\* The block is appended to the chain and to the storage.
LEMMA SerialCommit ==
    ASSUME SerialInv, TypeInv, TypeInv', OneCaller, DiskFaults = FALSE,
           NEW t \in Threads, CommitBlock(t)
    PROVE  SerialStep
<1>1. /\ pc[t] = "mined" /\ status' = status /\ reorg' = reorg /\ newBlock' = newBlock
      /\ AppendBlock(newBlock[t]) /\ PutBlock(newBlock[t]) /\ lastIndex' = lastIndex
      /\ pc' = [pc EXCEPT ![t] = "saved"]
  BY DEF CommitBlock
<1>2. /\ status = "up" /\ reorg = NoReorg /\ reorg.step = "none"
      /\ Chain # <<>> /\ GoodChain(Chain) /\ SerialCall(t)
  BY <1>1, SerialUnderWay
<1>3. newBlock[t] \in Block /\ newBlock[t].index <= MaxHeight /\ Chain \in Seq(Block)
  <2>1. newBlock[t].index \in 1 .. MaxHeight
    BY <1>1 DEF TypeInv, CallsSound, CallSound
  <2> QED BY <2>1, BoundAssumption DEF TypeInv, CallsTyped, MemoryTyped
<1>4. GoodChain(Append(Chain, newBlock[t])) /\ newBlock[t].index = Len(Chain)
  BY <1>1, <1>2, <1>3, SerialExtends DEF SerialCall
<1>5. pc'[t] = "saved" /\ \A u \in Threads : u = t
  BY <1>1 DEF TypeInv, CallsTyped, OneCaller
<1>6. ~Writing /\ Writing'
  BY <1>1, <1>2, <1>5 DEF Writing
<1>7. StorageStep
  BY <1>1, <1>2, <1>3, <1>4, <1>6, StoragePut DEF SerialInv, TypeInv
<1>8. SerialCall(t)'
  <2>1. Tip(Chain') = newBlock[t]
    BY <1>1, <1>3 DEF AppendBlock, Tip
  <2>2. newBlock'[t] = Tip(Chain)'
    BY <1>1, <2>1
  <2> QED BY <1>1, <1>2, <1>5, <2>2 DEF SerialCall, NoReorg
<1>9. SerialReorg' /\ \A u \in Threads : SerialCall(u)'
  BY <1>1, <1>2, <1>5, <1>8 DEF SerialReorg
<1> QED BY <1>7, <1>9 DEF SerialStep, SerialInv, StorageStep

\* The index is written and the call returns.
LEMMA SerialCredit ==
    ASSUME SerialInv, TypeInv, TypeInv', OneCaller, DiskFaults = FALSE,
           NEW t \in Threads, CreditMiner(t)
    PROVE  SerialStep
<1>1. pc[t] \in {"saved", "unsaved"}
  BY DEF CreditMiner
<1>2. /\ status = "up" /\ reorg = NoReorg /\ reorg.step = "none"
      /\ Chain # <<>> /\ GoodChain(Chain) /\ SerialCall(t)
  BY <1>1, SerialUnderWay
<1>3. /\ pc[t] = "saved" /\ newBlock[t] = Tip(Chain)
      /\ lastIndex' = newBlock[t].index
      /\ status' = status /\ Chain' = Chain /\ reorg' = reorg /\ blocks' = blocks
      /\ pc' = [pc EXCEPT ![t] = "idle"]
  BY <1>1, <1>2 DEF CreditMiner, SerialCall, PutLastIndex, Finish
<1>4. lastIndex' = Len(Chain) - 1
  BY <1>2, <1>3, GoodTip
<1>5. StorageStep
  BY <1>2, <1>3, <1>4, StorageIndex DEF SerialInv, TypeInv
<1>6. pc'[t] = "idle" /\ \A u \in Threads : u = t
  BY <1>3 DEF TypeInv, CallsTyped, OneCaller
<1>7. SerialReorg' /\ \A u \in Threads : SerialCall(u)'
  BY <1>2, <1>3, <1>6 DEF SerialReorg, SerialCall
<1> QED BY <1>5, <1>7 DEF SerialStep, SerialInv, StorageStep

\* A step that leaves the calls alone while no call is under way.
LEMMA SerialIdle ==
    ASSUME \A t \in Threads : pc[t] = "idle", pc' = pc, StorageStep, SerialReorg'
    PROVE  SerialStep
  BY DEF SerialStep, SerialInv, StorageStep, SerialCall

\* A start reads the chain, or finds that a genesis block is needed.
LEMMA SerialInitialize ==
    ASSUME SerialInv, TypeInv, TypeInv', DiskFaults = FALSE,
           NEW m \in MinerChoices, NEW d \in InitialDifficulties, InitializeLedger(m, d)
    PROVE  SerialStep
<1>1. /\ status = "down" /\ reorg' = reorg /\ pc' = pc /\ reorg.step = "none"
      /\ \A t \in Threads : pc[t] = "idle"
  BY NoReorgTyped DEF InitializeLedger, locals, TypeInv, MemorySound, CallsSound, CallSound
<1>2. PICK c \in Seq(Block) : StoredChain(c) /\ Holds(blocks, lastIndex, c)
  <2>1. ~Writing
    BY <1>1 DEF Writing
  <2> QED BY <1>1, <2>1 DEF SerialInv, StorageInv
<1>3. LoadedChain = c /\ Chain = <<>>
  BY <1>1, <1>2, HeldLoads DEF TypeInv, SerialInv, ChainInv
<1>4. CASE LoadedChain = <<>>
  <2>1. status' = "spawning" /\ Chain' = Chain /\ blocks' = blocks /\ lastIndex' = lastIndex
    BY <1>4 DEF InitializeLedger, disk
  <2>2. StorageInv'
    BY <1>2, <1>3, <1>4, <2>1 DEF StorageInv
  <2>3. ChainInv' /\ LoadedChain' = LoadedChain
    BY <1>3, <2>1, GoodEmpty, SameLoaded DEF ChainInv
  <2>4. StorageStep
    BY <2>2, <2>3 DEF StorageStep, StoredStep
  <2> QED BY <1>1, <2>4, SerialIdle DEF SerialReorg
<1>5. CASE LoadedChain # <<>> /\ LoadedChain[1].policy # "current"
  <2>1. /\ status' = "spawning" /\ Chain' = <<>>
        /\ blocks' = [n \in Heights |-> NoBlock] /\ lastIndex' = NoIndex
    BY <1>3, <1>5 DEF InitializeLedger
  <2>2. LoadedChain = <<LegacyGenesis>>
    <3>1. Len(c) \in 1 .. Len(c)
      BY <1>3, <1>5
    <3>2. 1 \in 1 .. Len(c)
      BY <3>1
    <3>3. ~ GoodChain(c)
      BY <1>3, <1>5, <3>2 DEF GoodChain, GoodBlock
    <3> QED BY <1>2, <1>3, <3>3 DEF StoredChain
  <2>3. Holds(blocks', lastIndex', <<>>)
    BY <2>1, BoundAssumption DEF Holds, Keys, NoIndex, Heights
  <2>4. StorageInv' /\ ChainInv' /\ LoadedChain' = <<>>
    BY <2>1, <2>3, GoodEmpty, HeldLoads DEF StorageInv, ChainInv, StoredChain, TypeInv
  <2>5. StorageStep
    BY <2>2, <2>4 DEF StorageStep, StoredStep
  <2> QED BY <1>1, <2>5, SerialIdle DEF SerialReorg
<1>6. CASE LoadedChain # <<>> /\ LoadedChain[1].policy = "current"
  <2>1. /\ status' = "up" /\ Chain' = LoadedChain
        /\ blocks' = blocks /\ lastIndex' = lastIndex
    BY <1>6 DEF InitializeLedger, disk
  <2>2. GoodChain(c)
    BY <1>2, <1>3, <1>6, GenesisAssumption DEF StoredChain
  <2>3. StorageInv' /\ ChainInv' /\ LoadedChain' = LoadedChain
    BY <1>2, <1>3, <2>1, <2>2, SameLoaded DEF StorageInv, ChainInv
  <2>4. StorageStep
    BY <2>3 DEF StorageStep, StoredStep
  <2> QED BY <1>1, <2>4, SerialIdle DEF SerialReorg
<1> QED BY <1>4, <1>5, <1>6

\* The genesis block becomes the chain and its key is written.
LEMMA SerialSpawn ==
    ASSUME SerialInv, TypeInv, TypeInv', DiskFaults = FALSE, SpawnGenesis
    PROVE  SerialStep
<1>1. /\ status = "spawning" /\ reorg' = reorg /\ pc' = pc /\ reorg.step = "none"
      /\ \A t \in Threads : pc[t] = "idle"
      /\ TargetDifficulty \in InitialDifficulties
  BY NoReorgTyped DEF SpawnGenesis, locals, TypeInv, MemorySound, CallsSound, CallSound
<1>2. PICK h \in GenesisHashes[TargetDifficulty] :
        LET genesis == [NoBlock EXCEPT !.hash = h, !.work = TargetDifficulty,
                          !.time = GenesisTime, !.diff = TargetDifficulty,
                          !.reward = CalculateBlockReward(0)]
        IN  Chain' = <<genesis>> /\ PutBlock(genesis) /\ status' = "indexing"
  BY DEF SpawnGenesis
<1> DEFINE genesis == [NoBlock EXCEPT !.hash = h, !.work = TargetDifficulty,
                         !.time = GenesisTime, !.diff = TargetDifficulty,
                         !.reward = CalculateBlockReward(0)]
<1>3. h \in Hash /\ TargetDifficulty \in Nat /\ GenesisTime \in Nat
  BY <1>1, GenesisAssumption
<1>4. /\ genesis.index = 0 /\ genesis.hash = h /\ genesis.prev = NoHash
      /\ genesis.time = GenesisTime /\ genesis.policy = "current"
      /\ genesis.reward = CalculateBlockReward(0)
  BY DEF NoBlock
<1>5. genesis \in Block
  <2>1. CalculateBlockReward(0) \in Nat
    BY RewardRange, RewardAssumption, SupplyAssumption
  <2> QED BY <1>3, <2>1, NoBlockTyped DEF Block
<1>6. Chain' = <<genesis>> /\ PutBlock(genesis) /\ status' = "indexing" /\ lastIndex' = lastIndex
  BY <1>2 DEF SpawnGenesis
<1> HIDE DEF genesis
<1>7. GenesisBlock(genesis) /\ GoodBlock(genesis, 0)
  <2>1. TimeFits(genesis.time, 0)
    BY <1>3, <1>4 DEF TimeFits
  <2> QED BY <1>1, <1>3, <1>4, <2>1 DEF GenesisBlock, GoodBlock
<1>8. Chain = <<>> /\ Append(Chain, genesis) = <<genesis>>
  BY <1>1, <1>5 DEF SerialInv, ChainInv
<1>9. GoodChain(Append(Chain, genesis)) /\ AppendBlock(genesis) /\ genesis.index = Len(Chain)
  BY <1>4, <1>5, <1>6, <1>7, <1>8, GoodFirst DEF AppendBlock
<1>10. ~Writing /\ Writing'
  BY <1>1, <1>6 DEF Writing
<1>11. StorageStep
  BY <1>1, <1>5, <1>6, <1>8, <1>9, <1>10, StoragePut DEF SerialInv, TypeInv
<1> QED BY <1>1, <1>11, SerialIdle DEF SerialReorg

LEMMA SerialIndexGenesis ==
    ASSUME SerialInv, TypeInv, TypeInv', DiskFaults = FALSE, IndexGenesis
    PROVE  SerialStep
<1>1. /\ status = "indexing" /\ status' = "up" /\ reorg' = reorg /\ pc' = pc
      /\ Chain' = Chain /\ blocks' = blocks /\ lastIndex' = 0
      /\ reorg.step = "none" /\ \A t \in Threads : pc[t] = "idle"
  BY NoReorgTyped DEF IndexGenesis, PutLastIndex, memory, locals, TypeInv, MemorySound,
                      CallsSound, CallSound
<1>2. Len(Chain) = 1 /\ Chain # <<>>
  BY <1>1 DEF SerialInv, ChainInv
<1>3. StorageStep
  BY <1>1, <1>2, StorageIndex DEF SerialInv, TypeInv
<1> QED BY <1>1, <1>3, SerialIdle DEF SerialReorg

LEMMA SerialCrash ==
    ASSUME SerialInv, TypeInv, Crash
    PROVE  SerialStep
<1>1. /\ status # "down" /\ status' = "down" /\ Chain' = <<>>
      /\ blocks' = blocks /\ lastIndex' = lastIndex /\ reorg' = NoReorg
      /\ \A t \in Threads : pc'[t] = "idle"
  BY DEF Crash, ProcessEnds, disk, PerThread
<1>2. StorageStep
  BY <1>1, StorageCrash DEF SerialInv, TypeInv
<1>3. SerialReorg' /\ \A t \in Threads : SerialCall(t)'
  BY <1>1, NoReorgTyped DEF SerialReorg, SerialCall
<1> QED BY <1>2, <1>3 DEF SerialStep, SerialInv, StorageStep

LEMMA SerialRollback ==
    ASSUME SerialInv, TypeInv, TypeInv', DiskFaults = FALSE, RollbackBlock
    PROVE  SerialStep
<1>1. /\ status = "up" /\ status' = "up" /\ reorg.step = "none" /\ pc' = pc
      /\ \A t \in Threads : pc[t] = "idle"
      /\ Len(Chain) > 1 /\ Chain' = WithoutTip(Chain)
      /\ blocks' = [blocks EXCEPT ![Tip(Chain).index] = NoBlock] /\ lastIndex' = lastIndex
      /\ reorg' = [step |-> "deleted", block |-> Tip(Chain)]
  BY NoReorgTyped DEF RollbackBlock, CanReorg, Idle, WithoutTip, locals
<1>2. ~Writing
  BY <1>1 DEF Writing
<1>3. StorageStep
  BY <1>1, <1>2, StorageDelete DEF SerialInv, TypeInv
<1>4. SerialReorg'
  <2>1. GoodChain(Chain) /\ Chain \in Seq(Block) /\ Chain # <<>>
    BY <1>1 DEF SerialInv, ChainInv, GoodChain
  <2>2. Tip(Chain).index = Len(Chain) - 1
    BY <2>1, GoodTip
  <2>3. Len(WithoutTip(Chain)) = Len(Chain) - 1 /\ Len(Chain) \in Nat
    BY <2>1, WithoutTipIs
  <2> QED BY <1>1, <2>2, <2>3 DEF SerialReorg
<1> QED BY <1>1, <1>3, <1>4, SerialIdle

LEMMA SerialFinishRollback ==
    ASSUME SerialInv, TypeInv, TypeInv', DiskFaults = FALSE, FinishRollback
    PROVE  SerialStep
<1>1. /\ reorg.step = "deleted" /\ lastIndex' = reorg.block.index - 1
      /\ reorg' = NoReorg /\ status' = status /\ Chain' = Chain /\ pc' = pc
      /\ blocks' = blocks
  BY DEF FinishRollback, PutLastIndex, locals
<1>2. /\ status = "up" /\ reorg.block.index = Len(Chain) /\ Chain # <<>>
      /\ \A t \in Threads : pc[t] = "idle"
  BY <1>1, NoReorgTyped DEF TypeInv, MemorySound, SerialInv, SerialReorg, SerialCall
<1>3. StorageStep
  BY <1>1, <1>2, StorageIndex DEF SerialInv, TypeInv
<1> QED BY <1>1, <1>2, <1>3, SerialIdle, NoReorgTyped DEF SerialReorg

LEMMA SerialAppendDirectly ==
    ASSUME SerialInv, TypeInv, TypeInv', DiskFaults = FALSE, CanReorg,
           NEW b \in PeerBlocks, AppendBlockDirectly(b)
    PROVE  SerialStep
<1>1. /\ status = "up" /\ status' = status /\ reorg.step = "none" /\ pc' = pc
      /\ \A t \in Threads : pc[t] = "idle"
      /\ ValidateBlockConsensus(b, Tip(Chain), GetTotalCirculatingSupply(Chain))
      /\ AppendBlock(b) /\ PutBlock(b) /\ lastIndex' = lastIndex
      /\ reorg' = [step |-> "saved", block |-> b]
  BY NoReorgTyped DEF AppendBlockDirectly, CanReorg, Idle, locals
<1>2. Chain # <<>> /\ Chain \in Seq(Block) /\ GoodChain(Chain)
  BY <1>1 DEF TypeInv, MemorySound, MemoryTyped, SerialInv, ChainInv
<1>3. b \in Block /\ b.index <= MaxHeight
  BY <1>2, PeerBlockTyped
<1>4. b.hash \in Hash /\ b.time = Tip(Chain).time + 1
  <2>1. b.hash \in Hash /\ b.time \in {Tip(Chain).time, Tip(Chain).time + 1}
    BY DEF PeerBlocks
  <2>2. b.time > Tip(Chain).time
    BY <1>1 DEF ValidateBlockConsensus
  <2>3. Tip(Chain).time \in Nat
    BY <1>2, GoodTip, BlockFields
  <2> QED BY <2>1, <2>2, <2>3
<1>5. GoodChain(Append(Chain, b)) /\ b.index = Len(Chain)
  BY <1>1, <1>2, <1>3, <1>4, SerialExtends
<1>6. ~Writing /\ Writing'
  BY <1>1 DEF Writing
<1>7. StorageStep
  BY <1>1, <1>3, <1>5, <1>6, StoragePut DEF SerialInv, TypeInv
<1>8. SerialReorg'
  <2>1. Tip(Chain') = b
    BY <1>1, <1>2, <1>3 DEF AppendBlock, Tip
  <2>2. Tip(Chain)' = b
    BY <2>1
  <2> QED BY <1>1, <2>2 DEF SerialReorg
<1> QED BY <1>1, <1>7, <1>8, SerialIdle

LEMMA SerialFinishAppend ==
    ASSUME SerialInv, TypeInv, TypeInv', DiskFaults = FALSE, FinishAppend
    PROVE  SerialStep
<1>1. /\ reorg.step = "saved" /\ lastIndex' = reorg.block.index
      /\ reorg' = NoReorg /\ status' = status /\ Chain' = Chain /\ pc' = pc
      /\ blocks' = blocks
  BY DEF FinishAppend, PutLastIndex, locals, SerialInv, SerialReorg
<1>2. /\ status = "up" /\ reorg.block = Tip(Chain) /\ Chain # <<>>
      /\ \A t \in Threads : pc[t] = "idle"
  BY <1>1, NoReorgTyped DEF TypeInv, MemorySound, SerialInv, SerialReorg, SerialCall
<1>3. lastIndex' = Len(Chain) - 1
  BY <1>1, <1>2, GoodTip DEF SerialInv, ChainInv
<1>4. StorageStep
  BY <1>1, <1>2, <1>3, StorageIndex DEF SerialInv, TypeInv
<1> QED BY <1>1, <1>2, <1>4, SerialIdle, NoReorgTyped DEF SerialReorg

\* A step that is about none of this.
LEMMA SerialStutter ==
    ASSUME SerialInv, status' = status, Chain' = Chain, reorg' = reorg,
           blocks' = blocks, lastIndex' = lastIndex, pc' = pc, parent' = parent,
           newBlock' = newBlock, currentSupply' = currentSupply
    PROVE  SerialStep
<1>1. StorageStep
  BY StorageQuiet DEF SerialInv, Writing
<1>2. SerialReorg' /\ \A t \in Threads : SerialCall(t)'
  BY DEF SerialInv, SerialReorg, SerialCall
<1> QED BY <1>1, <1>2 DEF SerialStep, SerialInv, StorageStep

LEMMA SerialInitial == Init => SerialInv
<1> SUFFICES ASSUME Init PROVE SerialInv
  OBVIOUS
<1>1. ChainInv /\ SerialReorg /\ \A t \in Threads : SerialCall(t)
  BY GoodEmpty, NoReorgTyped DEF Init, ChainInv, SerialReorg, SerialCall, PerThread
<1>2. CASE blocks = [n \in Heights |-> NoBlock] /\ lastIndex = NoIndex
  <2>1. Holds(blocks, lastIndex, <<>>)
    BY <1>2, BoundAssumption DEF Holds, Keys, NoIndex, Heights
  <2>2. StoredChain(<<>>) /\ <<>> \in Seq(Block)
    BY GoodEmpty DEF StoredChain
  <2>3. StorageInv
    BY <2>1, <2>2 DEF Init, StorageInv
  <2> QED BY <1>1, <2>3 DEF SerialInv
<1>3. CASE blocks = [n \in Heights |-> IF n = 0 THEN LegacyGenesis ELSE NoBlock]
           /\ lastIndex = 0
  <2> DEFINE c == <<LegacyGenesis>>
  <2>1. c \in Seq(Block) /\ Len(c) = 1 /\ c[1] = LegacyGenesis
    BY GenesisAssumption
  <2>2. 0 \in Heights /\ blocks[0] = LegacyGenesis
    BY <1>3, BoundAssumption DEF Heights
  <2>3. StoredChain(c)
    BY DEF StoredChain
  <2> HIDE DEF c
  <2>4. Holds(blocks, lastIndex, c)
    BY <1>3, <2>1, <2>2, BoundAssumption DEF Holds, Keys, Heights
  <2> QED BY <1>1, <2>1, <2>3, <2>4 DEF Init, SerialInv, StorageInv
<1> QED BY <1>2, <1>3 DEF Init

LEMMA SerialNext ==
    ASSUME OneCaller, DiskFaults = FALSE, SerialInv, TypeInv, TypeInv', [Next]_vars
    PROVE  SerialStep
<1>1. ASSUME NEW t \in Threads, MineStep(t) PROVE SerialStep
  BY <1>1, SerialPrepare, SerialMine, SerialCommit, SerialCredit DEF MineStep
<1>2. ASSUME NEW t \in Threads, RecoverPanic(t) PROVE SerialStep
  <2>1. /\ pc[t] = "panicked" /\ pc'[t] = "idle" /\ Chain' = Chain /\ reorg' = reorg
        /\ blocks' = blocks /\ lastIndex' = lastIndex /\ status' = status
    BY <1>2 DEF RecoverPanic, memory, disk, TypeInv, CallsTyped
  <2>2. status = "up"
    BY <2>1, SerialUnderWay
  <2>3. SerialCall(t)'
    BY <2>1 DEF SerialCall
  <2> QED BY <2>1, <2>2, <2>3, SerialOneCall
<1>3. ASSUME NEW tx \in Transfers, AddToMempool(tx) PROVE SerialStep
  BY <1>3, SerialStutter DEF AddToMempool, locals, disk
<1>4. CASE UNCHANGED vars
  BY <1>4, SerialStutter DEF vars, memory, locals, disk
<1>5. CASE Next
  BY <1>1, <1>2, <1>3, <1>5, SerialInitialize, SerialSpawn, SerialIndexGenesis, SerialCrash,
     SerialRollback, SerialFinishRollback, SerialAppendDirectly, SerialFinishAppend
     DEF Next
<1> QED BY <1>4, <1>5

LEMMA SerialInvariant ==
    ASSUME OneCaller, DiskFaults = FALSE
    PROVE  Spec => [](TypeInv /\ SerialInv)
<1>1. Init => TypeInv /\ SerialInv
  BY InitTyped, SerialInitial
<1>2. TypeInv /\ SerialInv /\ [Next]_vars => (TypeInv /\ SerialInv)'
  <2> SUFFICES ASSUME TypeInv, SerialInv, [Next]_vars PROVE TypeInv' /\ SerialInv'
    OBVIOUS
  <2>1. TypeInv'
    BY TypeNext
  <2>2. SerialStep
    BY <2>1, SerialNext
  <2> QED BY <2>1, <2>2 DEF SerialStep
<1> QED BY <1>1, <1>2, PTL DEF Spec

\* What a restart would load at any moment.
LEMMA LoadsStored ==
    ASSUME TypeInv, SerialInv
    PROVE  StoredChain(LoadedChain) /\ LoadedChain \in Seq(Block)
<1>1. StoredChain(LoadedChain)
  <2>1. CASE status = "down"
    <3>1. ~Writing
      BY <2>1, NoReorgTyped DEF Writing, TypeInv, MemorySound, CallsSound, CallSound
    <3>2. PICK c \in Seq(Block) : StoredChain(c) /\ Holds(blocks, lastIndex, c)
      BY <2>1, <3>1 DEF SerialInv, StorageInv
    <3> QED BY <3>2, HeldLoads DEF TypeInv
  <2>2. CASE status # "down"
    BY <2>2, RunningLoads DEF TypeInv, SerialInv, ChainInv, StoredChain
  <2> QED BY <2>1, <2>2
<1> QED BY <1>1, StoredBlocks

\* With one MineBlock call at a time and a disk that takes its writes, the chain
\* in memory is linked and claims the exact rewards at every moment, through
\* crashes, restarts and reorgs (validator.go:24-35, 91-104; ledger.go:320-442).
THEOREM LedgerChainValid ==
    ASSUME OneCaller, DiskFaults = FALSE
    PROVE  Spec => []ChainValid
<1>1. TypeInv /\ SerialInv => ChainValid
  BY DEF SerialInv, ChainInv, GoodChain, ChainValid
<1> QED BY <1>1, SerialInvariant, PTL

\* Under the same conditions the chain never mints more than the cap
\* (consensus.go:33, ledger.go:66-93, validator.go:91-99).
THEOREM LedgerSupplyWithinCap ==
    ASSUME OneCaller, DiskFaults = FALSE
    PROVE  Spec => []SupplyWithinCap
<1>1. TypeInv /\ SerialInv => SupplyWithinCap
  <2> SUFFICES ASSUME TypeInv, SerialInv PROVE SupplyWithinCap
    OBVIOUS
  <2>1. GoodChain(Chain)
    BY DEF SerialInv, ChainInv
  <2>2. CASE Chain = <<>>
    <3>1. SupplyAt(<<>>)[0] = 0
      <4>1. <<>> \in Seq(Block)
        OBVIOUS
      <4> QED BY <4>1, SupplyIs
    <3>2. GetTotalCirculatingSupply(<<>>) = 0
      BY <3>1 DEF GetTotalCirculatingSupply
    <3> QED BY <2>2, <3>2, SupplyAssumption DEF SupplyWithinCap
  <2>3. CASE Chain # <<>>
    BY <2>1, <2>3, GoodTip DEF SupplyWithinCap
  <2> QED BY <2>2, <2>3
<1> QED BY <1>1, SerialInvariant, PTL

\* Under the same conditions storage holds the chain in memory between two
\* calls, and misses at most its tip during one (ledger.go:425-427, 465-471,
\* 512-515; storage/db.go:42-60, 90-104).
THEOREM LedgerNothingLost ==
    ASSUME OneCaller, DiskFaults = FALSE
    PROVE  Spec => []NothingLostOnRestart
<1>1. TypeInv /\ SerialInv => NothingLostOnRestart
  <2> SUFFICES ASSUME TypeInv, SerialInv, status = "up" PROVE
          /\ Idle /\ reorg = NoReorg => LoadedChain = Chain
          /\ LoadedChain = Chain \/ Append(LoadedChain, Tip(Chain)) = Chain
    BY DEF NothingLostOnRestart
  <2>1. Idle /\ reorg = NoReorg => ~Writing
    BY NoReorgTyped DEF Idle, Writing
  <2>2. Idle /\ reorg = NoReorg => LoadedChain = Chain
    BY <2>1, RunningLoads DEF TypeInv, SerialInv
  <2>3. /\ Chain \in Seq(Block)
        /\ LoadedChain = Chain \/ (Chain # <<>> /\ LoadedChain = WithoutTip(Chain))
    BY RunningLoads DEF TypeInv, SerialInv
  <2>4. LoadedChain = Chain \/ Append(LoadedChain, Tip(Chain)) = Chain
    BY <2>3, WithoutTipIs
  <2> QED BY <2>2, <2>4
<1> QED BY <1>1, SerialInvariant, PTL

\* Under the same conditions, and if the only checkpoint is the first block's
\* (consensus.go:50-54), the process can die between any two writes: what it left
\* is empty, an older release's, or a valid chain, which the next start accepts
\* if it accepts its first block, whichever that is (ledger.go:75-172).
THEOREM LedgerRestartSafe ==
    ASSUME OneCaller, DiskFaults = FALSE, DOMAIN Checkpoints \subseteq {0}
    PROVE  Spec => []RestartSafe
<1>1. TypeInv /\ SerialInv => RestartSafe
  <2> SUFFICES ASSUME TypeInv, SerialInv PROVE RestartSafe
    OBVIOUS
  <2> DEFINE c == LoadedChain
  <2>1. StoredChain(c) /\ c \in Seq(Block)
    BY LoadsStored
  <2> HIDE DEF c
  <2>2. CASE c = <<LegacyGenesis>>
    <3>1. c[1].policy = "legacy"
      BY <2>2, GenesisAssumption
    <3> QED BY <3>1 DEF RestartSafe, c
  <2>3. CASE c = <<>>
    BY <2>3 DEF RestartSafe, c
  <2>4. CASE GoodChain(c) /\ c # <<>>
    <3>1. Linked(c) /\ Scheduled(c)
      BY <2>4 DEF GoodChain
    <3>2. GetTotalCirculatingSupply(c) <= MaxSupply
      BY <2>4, GoodTip
    <3>3. ASSUME VerifyCheckpoint(0, c[1].hash), NEW i \in 1 .. Len(c)
          PROVE  VerifyCheckpoint(i - 1, c[i].hash)
      <4>1. CASE i = 1
        BY <3>3, <4>1
      <4>2. CASE i # 1
        <5>1. i - 1 \notin DOMAIN Checkpoints
          BY <4>2
        <5> QED BY <5>1 DEF VerifyCheckpoint
      <4> QED BY <4>1, <4>2
    <3>4. VerifyCheckpoint(0, c[1].hash) => ConsensusIntegrity(c)
      BY <3>2, <3>3 DEF ConsensusIntegrity
    <3> QED BY <3>1, <3>4 DEF RestartSafe, c
  <2> QED BY <2>1, <2>2, <2>3, <2>4 DEF StoredChain
<1> QED BY <1>1, SerialInvariant, PTL

-----------------------------------------------------------------------------
(* The storage implements the durable chain                                *)

\* The rules of the abstract chain are the ledger's.
LEMMA SameRules ==
    /\ \A i : D!CalculateBlockReward(i) = CalculateBlockReward(i)
    /\ \A i, s : D!AllowedReward(i, s) = AllowedReward(i, s)
<1>1. \A i : D!CalculateBlockReward(i) = CalculateBlockReward(i)
  BY DEF D!CalculateBlockReward, CalculateBlockReward
<1>2. \A i, s : D!AllowedReward(i, s) = AllowedReward(i, s)
  BY <1>1 DEF D!AllowedReward, AllowedReward
<1> QED BY <1>1, <1>2

LedgerEntry == [hash : Hash \cup {NoHash}, prev : Hash \cup {NoHash}, index : Nat,
                time : Nat, reward : Nat, total : Nat, policy : Policies]

EntryOf(c, i) ==
    [hash |-> c[i].hash, prev |-> c[i].prev, index |-> c[i].index,
     time |-> c[i].time, reward |-> c[i].reward,
     total |-> SupplyAt(c)[i], policy |-> c[i].policy]

\* The entries of a chain are a sequence of its length.
LEMMA EntriesIs ==
    ASSUME NEW c \in Seq(Block)
    PROVE  /\ Entries(c) \in Seq(LedgerEntry) /\ Len(Entries(c)) = Len(c)
           /\ \A i \in 1 .. Len(c) : Entries(c)[i] = EntryOf(c, i)
<1>1. Entries(c) = [i \in 1 .. Len(c) |-> EntryOf(c, i)]
  BY DEF Entries, EntryOf
<1>2. ASSUME NEW i \in 1 .. Len(c) PROVE EntryOf(c, i) \in LedgerEntry
  <2>1. SupplyAt(c)[i] \in Nat
    <3>1. i \in 0 .. Len(c)
      OBVIOUS
    <3> QED BY <3>1, SupplyIs
  <2>2. c[i] \in Block
    OBVIOUS
  <2> QED BY <2>1, <2>2, BlockFields DEF EntryOf, LedgerEntry
<1>3. Len(c) \in Nat
  OBVIOUS
<1> QED BY <1>1, <1>2, <1>3

\* Equal prefixes have equal entries.
LEMMA EntriesAgree ==
    ASSUME NEW c \in Seq(Block), NEW d \in Seq(Block), NEW n \in Nat,
           n <= Len(c), n <= Len(d), \A i \in 1 .. n : c[i] = d[i]
    PROVE  \A i \in 1 .. n : Entries(c)[i] = Entries(d)[i]
<1> SUFFICES ASSUME NEW i \in 1 .. n PROVE Entries(c)[i] = Entries(d)[i]
  OBVIOUS
<1>1. i \in 0 .. n /\ i \in 1 .. Len(c) /\ i \in 1 .. Len(d)
  OBVIOUS
<1>2. SupplyAt(c)[i] = SupplyAt(d)[i]
  BY <1>1, SupplyAgrees
<1>3. EntryOf(c, i) = EntryOf(d, i)
  BY <1>2 DEF EntryOf
<1> QED BY <1>1, <1>3, EntriesIs

\* A genesis block founds the abstract chain.
LEMMA FoundEntries ==
    ASSUME NEW d, GoodChain(d), Len(d) = 1
    PROVE  \E h \in Hash : Entries(d) = <<D!Genesis(h)>>
<1>1. d \in Seq(Block) /\ d # <<>> /\ 1 \in 1 .. Len(d)
  BY DEF GoodChain
<1>2. GoodBlock(d[1], 1 - 1) /\ GenesisBlock(d[1])
  BY <1>1 DEF GoodChain
<1>3. SupplyAt(d)[1] = d[1].reward
  <2>1. SupplyAt(d)[0] = 0 /\ SupplyAt(d)[1] = SupplyAt(d)[1-1] + d[1].reward
    BY <1>1, SupplyIs
  <2>2. d[1].reward \in Nat
    BY <1>1, BlockFields
  <2> QED BY <2>1, <2>2
<1>4. EntryOf(d, 1) = D!Genesis(d[1].hash) /\ d[1].hash \in Hash
  BY <1>2, <1>3, SameRules DEF EntryOf, D!Genesis, GoodBlock, GenesisBlock
<1>5. Entries(d) = <<EntryOf(d, 1)>>
  <2> DEFINE e == EntryOf(d, 1)
             s == Entries(d)
  <2>1. s \in Seq(LedgerEntry) /\ Len(s) = 1 /\ s[1] = e
    BY <1>1, EntriesIs
  <2> HIDE DEF e, s
  <2>2. s = <<e>>
    BY <2>1
  <2> QED BY <2>2 DEF e, s
<1> QED BY <1>4, <1>5

\* Heights and clock readings give the abstract chain's times.
LEMMA TimesFit ==
    ASSUME NEW time \in Nat, NEW height \in Nat, height <= MaxHeight, TimeFits(time, height)
    PROVE  time \in BlockTimes
<1>1. PICK base \in {GenesisTime} \cup Clock : base <= time /\ time <= base + height
  BY DEF TimeFits
<1>2. base \in Nat /\ MaxHeight \in Nat /\ GenesisTime \in Nat
  BY GenesisAssumption, ClockAssumption, BoundAssumption
<1>3. CASE base = GenesisTime
  <2>1. time \in 0 .. GenesisTime + MaxHeight
    BY <1>1, <1>2, <1>3
  <2> QED BY <2>1 DEF BlockTimes
<1>4. CASE base \in Clock
  <2>1. time \in base .. base + MaxHeight
    BY <1>1, <1>2
  <2> QED BY <1>4, <2>1 DEF BlockTimes
<1> QED BY <1>3, <1>4

\* A block of this release extends it by one child of its last entry.
LEMMA ExtendEntries ==
    ASSUME NEW c, NEW b \in Block, GoodChain(c), c # <<>>, GoodChain(Append(c, b))
    PROVE  \E h \in Hash, t \in {u \in BlockTimes : u > D!Last(Entries(c)).time} :
              Entries(Append(c, b)) = Append(Entries(c), D!Child(D!Last(Entries(c)), h, t))
<1> DEFINE d == Append(c, b)
           n == Len(c)
           last == D!Last(Entries(c))
           child == D!Child(last, b.hash, b.time)
<1>1. /\ c \in Seq(Block) /\ n \in Nat \ {0}
      /\ d \in Seq(Block) /\ Len(d) = n + 1 /\ d[n + 1] = b
      /\ \A i \in 1 .. n : d[i] = c[i]
  BY DEF GoodChain
<1>2. GoodChain(d)
  OBVIOUS
<1> HIDE DEF d, n
<1>3. n + 1 \in 2 .. Len(d) /\ n + 1 \in 1 .. Len(d) /\ n + 1 - 1 = n /\ n \in 0 .. n /\ n \in 1 .. n
  BY <1>1
<1>4. SupplyAt(d)[n] = SupplyAt(c)[n] /\ SupplyAt(d)[n + 1] = SupplyAt(d)[n] + b.reward
  <2>1. n <= Len(c) /\ n <= Len(d)
    BY <1>1 DEF n
  <2>2. \A i \in 0 .. n : SupplyAt(d)[i] = SupplyAt(c)[i]
    BY <1>1, <2>1, SupplyAgrees
  <2>3. \A i \in 1 .. Len(d) : SupplyAt(d)[i] = SupplyAt(d)[i-1] + d[i].reward
    BY <1>1, SupplyIs
  <2> QED BY <1>1, <1>3, <2>2, <2>3
<1>5. /\ b.prev = c[n].hash /\ b.index = c[n].index + 1 /\ b.time > c[n].time
      /\ b.reward = AllowedReward(n, SupplyAt(c)[n])
      /\ b.policy = "current" /\ b.index = n /\ b.hash \in Hash /\ b.time \in BlockTimes
  <2>1. /\ d[n+1].prev = d[n].hash /\ d[n+1].index = d[n].index + 1 /\ d[n+1].time > d[n].time
        /\ d[n+1].reward = AllowedReward(n, SupplyAt(d)[n])
    BY <1>2, <1>3 DEF GoodChain, Linked, Scheduled
  <2>2. GoodBlock(b, n) /\ n <= MaxHeight
    BY <1>1, <1>2, <1>3, BoundAssumption DEF GoodChain
  <2>3. b.time \in BlockTimes
    BY <1>1, <2>2, BlockFields, TimesFit DEF GoodBlock
  <2> QED BY <1>1, <1>3, <1>4, <2>1, <2>2, <2>3 DEF GoodBlock
<1>6. last = EntryOf(c, n)
  <2>1. Len(Entries(c)) = n /\ \A i \in 1 .. n : Entries(c)[i] = EntryOf(c, i)
    BY <1>1, EntriesIs DEF n
  <2> QED BY <1>3, <2>1 DEF D!Last
<1>7. last.time = c[n].time
  BY <1>6 DEF EntryOf
<1>8. EntryOf(d, n + 1) = child
  <2>1. /\ last.hash = c[n].hash /\ last.index = c[n].index /\ last.total = SupplyAt(c)[n]
    BY <1>6 DEF EntryOf
  <2>2. c[n].index + 1 = n
    BY <1>5
  <2> HIDE DEF last
  <2>3. D!AllowedReward(last.index + 1, last.total) = b.reward
    BY <1>5, <2>1, <2>2, SameRules
  <2>4. child = [hash |-> b.hash, prev |-> c[n].hash, index |-> n, time |-> b.time,
                 reward |-> b.reward, total |-> SupplyAt(c)[n] + b.reward,
                 policy |-> "current"]
    BY <2>1, <2>2, <2>3 DEF D!Child
  <2>5. EntryOf(d, n + 1) = [hash |-> b.hash, prev |-> b.prev, index |-> b.index,
                 time |-> b.time, reward |-> b.reward,
                 total |-> SupplyAt(d)[n + 1], policy |-> b.policy]
    BY <1>1 DEF EntryOf
  <2> QED BY <1>4, <1>5, <2>4, <2>5
<1>9. Entries(d) = Append(Entries(c), child)
  <2> DEFINE s == Entries(c)
             u == Entries(d)
  <2>1. s \in Seq(LedgerEntry) /\ Len(s) = n
    BY <1>1, EntriesIs DEF n
  <2>2. u \in Seq(LedgerEntry) /\ Len(u) = n + 1 /\ u[n + 1] = child
    BY <1>1, <1>3, <1>8, EntriesIs
  <2>3. \A i \in 1 .. n : u[i] = s[i]
    <3>1. n <= Len(c) /\ n <= Len(d)
      BY <1>1 DEF n
    <3> QED BY <1>1, <3>1, EntriesAgree
  <2> HIDE DEF s, u, child
  <2>4. child \in LedgerEntry
    BY <1>1, <2>2
  <2>5. u = Append(s, child)
    BY <1>1, <2>1, <2>2, <2>3, <2>4
  <2> QED BY <2>5 DEF s, u
<1> QED BY <1>5, <1>7, <1>9 DEF d

\* Without its tip a chain's entries lose their last one.
LEMMA RetractEntries ==
    ASSUME NEW c \in Seq(Block), Len(c) > 1
    PROVE  Entries(WithoutTip(c)) = SubSeq(Entries(c), 1, Len(Entries(c)) - 1)
<1> DEFINE d == WithoutTip(c)
           n == Len(c) - 1
           s == Entries(c)
           u == Entries(d)
<1>1. /\ d \in Seq(Block) /\ Len(d) = n /\ n \in Nat /\ n <= Len(c) /\ Len(c) = n + 1
      /\ \A i \in 1 .. n : d[i] = c[i]
  BY WithoutTipIs
<1> HIDE DEF d, n
<1>2. /\ s \in Seq(LedgerEntry) /\ Len(s) = n + 1
      /\ u \in Seq(LedgerEntry) /\ Len(u) = n
  BY <1>1, EntriesIs
<1>3. \A i \in 1 .. n : u[i] = s[i]
  BY <1>1, EntriesAgree
<1> HIDE DEF s, u
<1>4. Len(s) - 1 = n
  BY <1>1, <1>2
<1>5. SubSeq(s, 1, n) = [i \in 1 .. n |-> s[i]]
  BY <1>1, <1>2
<1>6. u = [i \in 1 .. n |-> u[i]]
  BY <1>1, <1>2
<1>7. u = SubSeq(s, 1, Len(s) - 1)
  BY <1>3, <1>4, <1>5, <1>6
<1> QED BY <1>7 DEF s, u, d

\* An older release's genesis block is not a chain of this one, nor no chain.
LEMMA LegacyEntries ==
    /\ Entries(<<>>) = <<>>
    /\ D!Legacy(Entries(<<LegacyGenesis>>))
    /\ \A c : GoodChain(c) => ~D!Legacy(Entries(c))
    /\ \A c \in Seq(Block) : Entries(c) = <<>> <=> c = <<>>
<1> DEFINE g == <<LegacyGenesis>>
<1>1. g \in Seq(Block) /\ Len(g) = 1 /\ g[1] = LegacyGenesis
  BY GenesisAssumption
<1>2. \A c \in Seq(Block) : Entries(c) = <<>> <=> c = <<>>
  <2> SUFFICES ASSUME NEW c \in Seq(Block) PROVE Entries(c) = <<>> <=> c = <<>>
    OBVIOUS
  <2> DEFINE s == Entries(c)
  <2>1. s \in Seq(LedgerEntry) /\ Len(s) = Len(c)
    BY EntriesIs
  <2> HIDE DEF s
  <2>2. s = <<>> <=> c = <<>>
    BY <2>1
  <2> QED BY <2>2 DEF s
<1>3. Entries(<<>>) = <<>>
  <2>1. <<>> \in Seq(Block)
    OBVIOUS
  <2> QED BY <1>2, <2>1
<1> HIDE DEF g
<1>4. D!Legacy(Entries(g))
  <2> DEFINE s == Entries(g)
             e == s[1]
  <2>1. s \in Seq(LedgerEntry) /\ Len(s) = 1
    BY <1>1, EntriesIs
  <2> HIDE DEF s
  <2>2. s = <<e>>
    BY <2>1
  <2> QED BY <2>2 DEF s, D!Legacy, g
<1>5. Entries(g)[1].policy = "legacy"
  <2>1. 1 \in 1 .. Len(g)
    BY <1>1
  <2>2. Entries(g)[1] = EntryOf(g, 1)
    BY <1>1, <2>1, EntriesIs
  <2> QED BY <1>1, <2>2, GenesisAssumption DEF EntryOf
<1>6. ASSUME NEW c, GoodChain(c) PROVE ~D!Legacy(Entries(c))
  <2>1. SUFFICES ASSUME Entries(c) = <<Entries(g)[1]>> PROVE FALSE
    BY DEF D!Legacy, g
  <2>2. c \in Seq(Block)
    BY <1>6 DEF GoodChain
  <2>3. Len(Entries(c)) = 1 /\ Entries(c)[1] = Entries(g)[1]
    BY <2>1
  <2>4. Len(c) = 1 /\ 1 \in 1 .. Len(c)
    BY <2>2, <2>3, EntriesIs
  <2>5. Entries(c)[1] = EntryOf(c, 1) /\ c[1].policy = "current"
    BY <1>6, <2>2, <2>4, EntriesIs DEF GoodChain, GoodBlock
  <2> QED BY <1>5, <2>3, <2>5 DEF EntryOf
<1> QED BY <1>2, <1>3, <1>4, <1>6 DEF g

\* Under the conditions of a serial ledger, every step of the process, crashes
\* and both halves of every write included, founds, extends, retracts or wipes
\* the durable chain or leaves it alone (ledger.go:97-520, storage/db.go:40-124).
THEOREM LedgerImplementsDurableChain ==
    ASSUME OneCaller, DiskFaults = FALSE
    PROVE  Spec => ImplementsDurableChain
<1>1. Init => D!Init
  <2> SUFFICES ASSUME Init PROVE D!Init
    OBVIOUS
  <2>1. StoredChain(LoadedChain)
    BY InitTyped, SerialInitial, LoadsStored
  <2>2. LoadedChain = <<>> \/ LoadedChain[1].policy # "current"
    BY InitTyped, FreshDiskLoads DEF Init, FreshDisk
  <2>3. LoadedChain = <<>> \/ LoadedChain = <<LegacyGenesis>>
    <3>1. ASSUME GoodChain(LoadedChain), LoadedChain # <<>> PROVE FALSE
      <4>1. 1 \in 1 .. Len(LoadedChain)
        BY <3>1 DEF GoodChain
      <4> QED BY <2>2, <3>1, <4>1 DEF GoodChain, GoodBlock
    <3> QED BY <2>1, <3>1 DEF StoredChain
  <2> QED BY <2>3, LegacyEntries DEF D!Init
<1>2. TypeInv /\ SerialInv /\ TypeInv' /\ [Next]_vars
        => [D!Next]_(Entries(LoadedChain))
  <2> SUFFICES ASSUME TypeInv, SerialInv, TypeInv', [Next]_vars
               PROVE  D!Next \/ Entries(LoadedChain') = Entries(LoadedChain)
    OBVIOUS
  <2> DEFINE c == LoadedChain
             d == LoadedChain'
  <2>1. StoredStep(c, d)
    BY SerialNext DEF SerialStep
  <2>2. StoredChain(c) /\ c \in Seq(Block)
    BY LoadsStored
  <2>3. CASE d = c
    BY <2>3
  <2>4. CASE c = <<>> /\ GoodChain(d) /\ Len(d) = 1
    <3>1. D!Found
      BY <2>4, FoundEntries, LegacyEntries DEF D!Found
    <3> QED BY <3>1 DEF D!Next
  <2>5. CASE c # <<>> /\ GoodChain(c) /\ GoodChain(d) /\ \E b \in Block : d = Append(c, b)
    <3>1. PICK b \in Block : d = Append(c, b)
      BY <2>5
    <3>2. \E h \in Hash, t \in {u \in BlockTimes : u > D!Last(Entries(c)).time} :
              Entries(d) = Append(Entries(c), D!Child(D!Last(Entries(c)), h, t))
      BY <2>5, <3>1, ExtendEntries
    <3>3. Entries(c) # <<>> /\ ~D!Legacy(Entries(c))
      BY <2>2, <2>5, LegacyEntries
    <3>4. D!Extend
      BY <3>2, <3>3 DEF D!Extend
    <3> QED BY <3>4 DEF D!Next
  <2>6. CASE GoodChain(c) /\ Len(c) > 1 /\ d = WithoutTip(c)
    <3>1. Len(Entries(c)) = Len(c) /\ Entries(d) = SubSeq(Entries(c), 1, Len(Entries(c)) - 1)
      BY <2>2, <2>6, EntriesIs, RetractEntries
    <3>2. D!Retract
      BY <2>6, <3>1 DEF D!Retract
    <3> QED BY <3>2 DEF D!Next
  <2>7. CASE c = <<LegacyGenesis>> /\ d = <<>>
    <3>1. D!Wipe
      BY <2>7, LegacyEntries DEF D!Wipe
    <3> QED BY <3>1 DEF D!Next
  <2> QED BY <2>1, <2>3, <2>4, <2>5, <2>6, <2>7 DEF StoredStep
<1> QED BY <1>1, <1>2, SerialInvariant, PTL DEF Spec, ImplementsDurableChain, D!Spec
-----------------------------------------------------------------------------
(* A block in the making                                                   *)

Making == {"selecting", "selected", "priced", "retargeted", "assembled", "mined"}

\* What a call has established, step by step, of what it will be checked for.
MakingCall(t) ==
    /\ pc[t] \in {"idle", "panicked"} => newBlock[t] = NoBlock /\ feeTotal[t] = 0
    /\ pc[t] \notin {"idle", "panicked"}
         => MinerAddress \in Accounts /\ newBlock[t].policy = "current"
    /\ pc[t] = "selecting" => blockBytes[t] = HeaderReserve + TransferBytes(newBlock[t].txs)
    /\ pc[t] \in {"selecting", "selected", "priced", "retargeted", "assembled"}
         => newBlock[t].txs = <<>>
              \/ HeaderReserve + TransferBytes(newBlock[t].txs) <= MaxBlockSizeBytes
    /\ pc[t] \in {"priced", "retargeted", "assembled"}
         => newBlock[t].reward = AllowedReward(parent[t].index + 1, currentSupply[t])
    /\ pc[t] \in {"retargeted", "assembled"} => newBlock[t].time > parent[t].time
    /\ pc[t] = "assembled" =>
         /\ newBlock[t].index = parent[t].index + 1 /\ newBlock[t].prev = parent[t].hash
         /\ newBlock[t].diff = TargetDifficulty
    /\ pc[t] \in {"assembled", "mined", "saved", "unsaved"}
         => newBlock[t].miner = MinerAddress

MakingInv == \A t \in Threads : MakingCall(t)

\* A step of the only call.
LEMMA MakingOneCall ==
    ASSUME OneCaller, NEW t \in Threads, MakingCall(t)'
    PROVE  MakingInv'
BY DEF OneCaller, MakingInv

\* A step that leaves the calls alone, and what they look at.
LEMMA MakingStutter ==
    ASSUME MakingInv, UNCHANGED locals, MinerAddress' = MinerAddress,
           TargetDifficulty' = TargetDifficulty
    PROVE  MakingInv'
BY DEF MakingInv, MakingCall, locals

LEMMA MakingBegins ==
    ASSUME OneCaller, TypeInv, MakingInv, NEW t \in Threads, MineBlock(t)
    PROVE  MakingInv'
<1>1. /\ pc[t] = "idle" /\ pc' = [pc EXCEPT ![t] = "selecting"]
      /\ MinerAddress = SYSTEM_GENESIS \/ HasPrefix(MinerAddress)
      /\ cursor' = [cursor EXCEPT ![t] = 1]
      /\ blockBytes' = [blockBytes EXCEPT ![t] = HeaderReserve]
      /\ MinerAddress' = MinerAddress /\ Mempool' = Mempool
      /\ UNCHANGED <<newBlock, feeTotal>>
  BY DEF MineBlock, CanMine, memory
<1>2. /\ pc'[t] = "selecting" /\ cursor'[t] = 1 /\ blockBytes'[t] = HeaderReserve
      /\ newBlock'[t] = NoBlock
  BY <1>1 DEF TypeInv, CallsTyped, MakingInv, MakingCall
<1>3. NoBlock.txs = <<>> /\ NoBlock.policy = "current" /\ Len(<<>>) = 0
  BY DEF NoBlock
<1>4. TransferBytes(<<>>) = 0
  <2>1. <<>> \in Seq(Transfers) /\ Len(<<>>) \in 0 .. Len(<<>>) /\ Len(<<>>) = 0
    OBVIOUS
  <2>2. \E s \in [0 .. Len(<<>>) -> Nat] : s[0] = 0 /\ TransferBytes(<<>>) = s[Len(<<>>)]
    BY <2>1, TransferBytesRun
  <2> QED BY <2>1, <2>2
<1>5. MinerAddress' \in Accounts
  BY <1>1 DEF Accounts, HasPrefix
<1>6. HeaderReserve + 0 = HeaderReserve
  BY BoundAssumption
<1>7. MakingCall(t)'
  BY <1>1, <1>2, <1>3, <1>4, <1>5, <1>6 DEF MakingCall
<1> QED BY <1>1, <1>7, MakingOneCall

\* A transfer is taken where there is room for it.
LEMMA MakingSelects ==
    ASSUME OneCaller, TypeInv, MakingInv, NEW t \in Threads, SelectTransfer(t)
    PROVE  MakingInv'
<1> DEFINE tx == Candidate(t)
           txs == newBlock[t].txs
<1>1. /\ pc[t] = "selecting" /\ pc' = pc /\ cursor[t] <= Len(Mempool)
      /\ blockBytes[t] + tx.size <= MaxBlockSizeBytes
      /\ cursor' = [cursor EXCEPT ![t] = @ + 1]
      /\ blockBytes' = [blockBytes EXCEPT ![t] = @ + tx.size]
      /\ newBlock' = [newBlock EXCEPT ![t].txs = Append(@, tx)]
      /\ MinerAddress' = MinerAddress /\ Mempool' = Mempool
  BY DEF SelectTransfer, AtTransfer, Fits
<1>2. tx \in Transfers
  <2>1. cursor[t] \in 1 .. Len(Mempool)
    BY <1>1 DEF TypeInv, CallsTyped, CallsSound, CallSound, MemoryTyped
  <2> QED BY <2>1 DEF Candidate, TypeInv, MemoryTyped
<1>3. txs \in Seq(Transfers) /\ newBlock[t] \in Block
  BY BlockFields DEF TypeInv, CallsTyped
<1> HIDE DEF tx
<1>4. /\ cursor'[t] = cursor[t] + 1 /\ blockBytes'[t] = blockBytes[t] + tx.size
      /\ newBlock'[t].txs = Append(txs, tx) /\ newBlock'[t].policy = newBlock[t].policy
      /\ newBlock'[t].miner = newBlock[t].miner
  <2>1. newBlock'[t] = [newBlock[t] EXCEPT !.txs = Append(@, tx)]
    BY <1>1 DEF TypeInv, CallsTyped
  <2> QED BY <1>1, <1>3, <2>1 DEF TypeInv, CallsTyped, Block
<1> HIDE DEF txs
<1>5. /\ Len(Append(txs, tx)) = Len(txs) + 1 /\ Len(txs) \in Nat
      /\ TransferBytes(Append(txs, tx)) = TransferBytes(txs) + tx.size
      /\ TransferBytes(txs) \in Nat /\ tx.size \in Nat
  BY <1>2, <1>3, TransferFields, TransferBytesAppend, TransferBytesTyped
<1>6. /\ MinerAddress \in Accounts /\ newBlock[t].policy = "current"
      /\ blockBytes[t] = HeaderReserve + TransferBytes(txs)
  BY <1>1 DEF MakingInv, MakingCall, txs
<1>7. HeaderReserve \in Nat
  BY SizeAssumption, BoundAssumption
<1>8. /\ blockBytes'[t] = HeaderReserve + TransferBytes(newBlock'[t].txs)
      /\ blockBytes'[t] <= MaxBlockSizeBytes
  <2> DEFINE bytes == TransferBytes(txs)
  <2>2. /\ TransferBytes(newBlock'[t].txs) = bytes + tx.size /\ bytes \in Nat
        /\ blockBytes'[t] = (HeaderReserve + bytes) + tx.size
        /\ blockBytes'[t] <= MaxBlockSizeBytes
    BY <1>1, <1>4, <1>5, <1>6
  <2> HIDE DEF bytes
  <2>3. (HeaderReserve + bytes) + tx.size = HeaderReserve + (bytes + tx.size)
    BY <1>5, <1>7, <2>2
  <2> QED BY <2>2, <2>3
<1>9. MakingCall(t)'
  BY <1>1, <1>4, <1>6, <1>8 DEF MakingCall
<1> QED BY <1>1, <1>9, MakingOneCall

\* A transfer is passed over, or the selection ends.
LEMMA MakingSelected ==
    ASSUME OneCaller, TypeInv, MakingInv, NEW t \in Threads,
           SkipTransfer(t) \/ FinishSelection(t)
    PROVE  MakingInv'
<1>1. /\ pc[t] = "selecting" /\ pc'[t] \in {"selecting", "selected"}
      /\ newBlock' = newBlock /\ MinerAddress' = MinerAddress
      /\ pc'[t] = "selecting" => blockBytes' = blockBytes
  BY DEF SkipTransfer, FinishSelection, AtTransfer, memory, TypeInv, CallsTyped
<1>2. MakingCall(t)
  BY DEF MakingInv
<1>3. MakingCall(t)'
  BY <1>1, <1>2 DEF MakingCall
<1> QED BY <1>3, MakingOneCall

\* Reward, time and header of the block.
LEMMA MakingPrepares ==
    ASSUME OneCaller, TypeInv, MakingInv, NEW t \in Threads,
           ComputeReward(t) \/ AdjustDifficulty(t) \/ AssembleBlock(t)
    PROVE  MakingInv'
<1> USE DEF memory
<1>0. /\ pc \in [Threads -> PcStates] /\ newBlock \in [Threads -> Block]
      /\ newBlock[t] \in Block /\ parent[t] \in Block
      /\ currentSupply \in [Threads -> Nat]
  BY DEF TypeInv, CallsTyped
<1>1. CASE ComputeReward(t)
  <2> DEFINE supply == GetTotalCirculatingSupply(Chain)
             r == AllowedReward(parent[t].index + 1, supply)
  <2>1. /\ pc[t] = "selected" /\ pc' = [pc EXCEPT ![t] = "priced"]
        /\ currentSupply' = [currentSupply EXCEPT ![t] = supply]
        /\ newBlock' = [newBlock EXCEPT ![t].reward = r]
        /\ MinerAddress' = MinerAddress /\ Mempool' = Mempool /\ parent' = parent
    BY <1>1 DEF ComputeReward
  <2> HIDE DEF r
  <2>2. /\ pc'[t] = "priced" /\ newBlock'[t].reward = r /\ currentSupply'[t] = supply
        /\ newBlock'[t].txs = newBlock[t].txs /\ newBlock'[t].policy = newBlock[t].policy
    <3>1. newBlock'[t] = [newBlock[t] EXCEPT !.reward = r]
      BY <1>0, <2>1
    <3> HIDE DEF supply
    <3> QED BY <1>0, <2>1, <3>1 DEF Block
  <2>3. MakingCall(t)
    BY DEF MakingInv
  <2>4. newBlock'[t].reward = AllowedReward(parent'[t].index + 1, currentSupply'[t])
    BY <2>1, <2>2 DEF r
  <2>5. MakingCall(t)'
    BY <2>1, <2>2, <2>3, <2>4 DEF MakingCall
  <2> QED BY <2>1, <2>5, MakingOneCall
<1>2. CASE AdjustDifficulty(t)
  <2>1. PICK now \in Clock :
          newBlock' = [newBlock EXCEPT ![t].time = BlockTime(now, parent[t].time)]
    BY <1>2 DEF AdjustDifficulty
  <2>2. /\ pc[t] = "priced" /\ pc' = [pc EXCEPT ![t] = "retargeted"]
        /\ MinerAddress' = MinerAddress /\ Mempool' = Mempool /\ parent' = parent
        /\ currentSupply' = currentSupply
    BY <1>2 DEF AdjustDifficulty
  <2>3. BlockTime(now, parent[t].time) > parent[t].time
    <3>1. now \in Nat /\ parent[t].time \in Nat
      BY <1>0, BlockFields, ClockAssumption
    <3> QED BY <3>1 DEF BlockTime
  <2> DEFINE time == BlockTime(now, parent[t].time)
  <2> HIDE DEF time
  <2>4. /\ pc'[t] = "retargeted" /\ newBlock'[t].time = time
        /\ newBlock'[t].txs = newBlock[t].txs /\ newBlock'[t].policy = newBlock[t].policy
        /\ newBlock'[t].reward = newBlock[t].reward
    <3>1. newBlock'[t] = [newBlock[t] EXCEPT !.time = time]
      BY <1>0, <2>1 DEF time
    <3> QED BY <1>0, <2>2, <3>1 DEF Block
  <2>5. MakingCall(t)
    BY DEF MakingInv
  <2>6. newBlock'[t].time > parent'[t].time
    BY <2>2, <2>3, <2>4 DEF time
  <2>7. MakingCall(t)'
    BY <2>2, <2>4, <2>5, <2>6 DEF MakingCall
  <2> QED BY <2>2, <2>7, MakingOneCall
<1>3. CASE AssembleBlock(t)
  <2>1. /\ pc[t] = "retargeted" /\ pc' = [pc EXCEPT ![t] = "assembled"]
        /\ newBlock' = [newBlock EXCEPT
              ![t].index = parent[t].index + 1, ![t].prev = parent[t].hash,
              ![t].miner = MinerAddress,        ![t].diff = TargetDifficulty]
        /\ MinerAddress' = MinerAddress /\ Mempool' = Mempool /\ parent' = parent
        /\ TargetDifficulty' = TargetDifficulty /\ currentSupply' = currentSupply
    BY <1>3 DEF AssembleBlock
  <2>2. /\ pc'[t] = "assembled" /\ newBlock'[t].index = parent[t].index + 1
        /\ newBlock'[t].prev = parent[t].hash /\ newBlock'[t].miner = MinerAddress
        /\ newBlock'[t].diff = TargetDifficulty
        /\ newBlock'[t].txs = newBlock[t].txs /\ newBlock'[t].policy = newBlock[t].policy
        /\ newBlock'[t].reward = newBlock[t].reward /\ newBlock'[t].time = newBlock[t].time
    <3>1. newBlock'[t] = [[[[newBlock[t] EXCEPT !.index = parent[t].index + 1]
                             EXCEPT !.prev = parent[t].hash]
                             EXCEPT !.miner = MinerAddress]
                             EXCEPT !.diff = TargetDifficulty]
      BY <1>0, <2>1
    <3> QED BY <1>0, <2>1, <3>1 DEF Block
  <2>3. MakingCall(t)
    BY DEF MakingInv
  <2>4. MakingCall(t)'
    BY <2>1, <2>2, <2>3 DEF MakingCall
  <2> QED BY <2>1, <2>4, MakingOneCall
<1> QED BY <1>1, <1>2, <1>3

\* The block that was made passes every check.
LEMMA MakingPasses ==
    ASSUME TypeInv, MakingInv, NEW t \in Threads, pc[t] = "assembled",
           HeaderBytes + Separators(newBlock[t].txs) <= HeaderReserve,
           NEW b, b = [newBlock[t] EXCEPT !.work = TargetDifficulty]
    PROVE  ValidateBlockConsensus(b, parent[t], currentSupply[t])
<1>1. newBlock[t] \in Block
  BY DEF TypeInv, CallsTyped
<1>2. /\ b.work = TargetDifficulty /\ b.index = newBlock[t].index
      /\ b.time = newBlock[t].time /\ b.prev = newBlock[t].prev /\ b.txs = newBlock[t].txs
      /\ b.miner = newBlock[t].miner /\ b.diff = newBlock[t].diff
      /\ b.reward = newBlock[t].reward /\ b.policy = newBlock[t].policy
  BY <1>1 DEF Block
<1>3. /\ MinerAddress \in Accounts /\ newBlock[t].policy = "current"
      /\ newBlock[t].txs = <<>>
           \/ HeaderReserve + TransferBytes(newBlock[t].txs) <= MaxBlockSizeBytes
      /\ newBlock[t].reward = AllowedReward(parent[t].index + 1, currentSupply[t])
      /\ newBlock[t].time > parent[t].time
      /\ newBlock[t].index = parent[t].index + 1 /\ newBlock[t].prev = parent[t].hash
      /\ newBlock[t].miner = MinerAddress /\ newBlock[t].diff = TargetDifficulty
  BY DEF MakingInv, MakingCall
<1>4. ValidatePoW(b.work, b.diff)
  <2>1. TargetDifficulty \in Nat /\ b.work = TargetDifficulty /\ b.diff = TargetDifficulty
    BY <1>2, <1>3 DEF TypeInv, MemoryTyped
  <2> QED BY <2>1 DEF ValidatePoW
<1>5. b.miner = SYSTEM_GENESIS \/ HasPrefix(b.miner)
  BY <1>2, <1>3 DEF Accounts, HasPrefix
<1>6. b.reward = AllowedReward(b.index, currentSupply[t])
  BY <1>2, <1>3
<1>7. BlockBytes(b.txs) <= MaxBlockSizeBytes
  <2> DEFINE txs == newBlock[t].txs
             bytes == TransferBytes(txs)
             commas == Separators(txs)
  <2>1. txs \in Seq(Transfers) /\ bytes \in Nat
    BY <1>1, BlockFields, TransferBytesTyped
  <2>2. BlockBytes(b.txs) = HeaderBytes + bytes + commas
    BY <1>2 DEF BlockBytes
  <2>3. /\ HeaderBytes \in Nat /\ HeaderReserve \in Nat /\ MaxBlockSizeBytes \in Nat
        /\ HeaderReserve <= MaxBlockSizeBytes
    BY SizeAssumption, BoundAssumption
  <2>4. commas \in Nat
    BY <2>1 DEF Separators
  <2>5. CASE txs = <<>>
    <3>1. bytes = 0
      <4>1. <<>> \in Seq(Transfers) /\ Len(<<>>) \in 0 .. Len(<<>>) /\ Len(<<>>) = 0
        OBVIOUS
      <4>2. \E s \in [0 .. Len(<<>>) -> Nat] : s[0] = 0 /\ TransferBytes(<<>>) = s[Len(<<>>)]
        BY <4>1, TransferBytesRun
      <4> QED BY <2>5, <4>1, <4>2
    <3>2. HeaderBytes + commas <= HeaderReserve
      OBVIOUS
    <3> HIDE DEF txs, bytes, commas
    <3> QED BY <2>2, <2>3, <2>4, <3>1, <3>2
  <2>6. CASE HeaderReserve + bytes <= MaxBlockSizeBytes
    <3>1. HeaderBytes + commas <= HeaderReserve
      OBVIOUS
    <3> HIDE DEF txs, bytes, commas
    <3> QED BY <2>1, <2>2, <2>3, <2>4, <2>6, <3>1
  <2> QED BY <1>3, <2>5, <2>6
<1> QED BY <1>2, <1>3, <1>4, <1>5, <1>6, <1>7 DEF ValidateBlockConsensus

\* The block is mined, or validation panics and the call forgets it.
LEMMA MakingMines ==
    ASSUME OneCaller, TypeInv, MakingInv, NEW t \in Threads, MineAndValidate(t)
    PROVE  /\ MakingInv'
           /\ \/ /\ pc'[t] = "mined" /\ newBlock'[t].txs = newBlock[t].txs
                 /\ feeTotal' = feeTotal
              \/ pc'[t] = "panicked"
<1>1. PICK h \in Hash, work \in {TargetDifficulty, newBlock[t].diff} :
          LET b == [newBlock[t] EXCEPT !.hash = h, !.work = work]
          IN  IF ValidateBlockConsensus(b, parent[t], currentSupply[t])
              THEN /\ newBlock' = [newBlock EXCEPT ![t] = b]
                   /\ pc' = [pc EXCEPT ![t] = "mined"]
                   /\ UNCHANGED <<parent, feeTotal, currentSupply, cursor, blockBytes>>
              ELSE Finish(t, "panicked")
  BY DEF MineAndValidate
<1>2. pc[t] = "assembled" /\ MinerAddress' = MinerAddress /\ newBlock[t] \in Block
  BY DEF MineAndValidate, memory, TypeInv, CallsTyped
<1>3. CASE Finish(t, "panicked")
  <2>1. pc'[t] = "panicked" /\ newBlock'[t] = NoBlock /\ feeTotal'[t] = 0
    BY <1>3 DEF Finish, TypeInv, CallsTyped
  <2>2. MakingCall(t)'
    BY <2>1 DEF MakingCall
  <2> QED BY <2>1, <2>2, MakingOneCall
<1> DEFINE b == [newBlock[t] EXCEPT !.hash = h, !.work = work]
<1>4. CASE /\ newBlock' = [newBlock EXCEPT ![t] = b]
           /\ pc' = [pc EXCEPT ![t] = "mined"] /\ feeTotal' = feeTotal
  <2>1. b.miner = newBlock[t].miner /\ b.policy = newBlock[t].policy /\ b.txs = newBlock[t].txs
    BY <1>2 DEF Block
  <2> HIDE DEF b
  <2>2. newBlock'[t] = b /\ pc'[t] = "mined" /\ feeTotal' = feeTotal
    BY <1>4 DEF TypeInv, CallsTyped
  <2>3. MinerAddress \in Accounts /\ b.policy = "current" /\ b.miner = MinerAddress
    BY <1>2, <2>1 DEF MakingInv, MakingCall
  <2>4. MakingCall(t)'
    BY <1>2, <2>2, <2>3 DEF MakingCall
  <2> QED BY <2>1, <2>2, <2>4, MakingOneCall
<1> QED BY <1>1, <1>3, <1>4

\* The block is committed and the call returns; or the miner's name is refused.
LEMMA MakingEnds ==
    ASSUME OneCaller, TypeInv, MakingInv, NEW t \in Threads,
           CommitBlock(t) \/ CreditMiner(t) \/ RejectMiner(t) \/ RecoverPanic(t)
    PROVE  MakingInv'
<1> USE DEF memory
<1>0. /\ pc \in [Threads -> PcStates] /\ newBlock \in [Threads -> Block]
      /\ feeTotal \in [Threads -> Nat] /\ MakingCall(t)
  BY DEF TypeInv, CallsTyped, MakingInv
<1>1. CASE CommitBlock(t)
  <2>1. /\ pc[t] = "mined" /\ pc'[t] \in {"saved", "unsaved"} /\ newBlock' = newBlock
        /\ MinerAddress' = MinerAddress /\ Mempool' = Mempool
    BY <1>0, <1>1 DEF CommitBlock
  <2>2. MakingCall(t)'
    BY <1>0, <2>1 DEF MakingCall
  <2> QED BY <2>1, <2>2, MakingOneCall
<1>2. CASE CreditMiner(t)
  <2>1. /\ pc'[t] = "idle" /\ newBlock'[t] = NoBlock /\ feeTotal'[t] = 0
        /\ Mempool' = Mempool
    BY <1>0, <1>2 DEF CreditMiner, Finish
  <2>2. MakingCall(t)'
    BY <2>1 DEF MakingCall
  <2> QED BY <2>1, <2>2, MakingOneCall
<1>3. CASE RejectMiner(t)
  <2>1. /\ pc[t] = "idle" /\ pc'[t] = "panicked" /\ UNCHANGED <<newBlock, feeTotal>>
        /\ MinerAddress' = MinerAddress
    BY <1>0, <1>3 DEF RejectMiner, CanMine
  <2>2. MakingCall(t)'
    BY <1>0, <2>1 DEF MakingCall
  <2> QED BY <2>1, <2>2, MakingOneCall
<1>4. CASE RecoverPanic(t)
  <2>1. /\ pc[t] = "panicked" /\ pc'[t] = "idle" /\ UNCHANGED <<newBlock, feeTotal>>
        /\ MinerAddress' = MinerAddress /\ Mempool' = Mempool
    BY <1>0, <1>4 DEF RecoverPanic
  <2>2. MakingCall(t)'
    BY <1>0, <2>1 DEF MakingCall
  <2> QED BY <2>1, <2>2, MakingOneCall
<1> QED BY <1>1, <1>2, <1>3, <1>4

\* A process at its start has no call under way.
LEMMA MakingFresh ==
    ASSUME pc' = PerThread("idle"), newBlock' = PerThread(NoBlock),
           feeTotal' = PerThread(0)
    PROVE  MakingInv'
<1>1. \A t \in Threads : pc'[t] = "idle" /\ newBlock'[t] = NoBlock /\ feeTotal'[t] = 0
  BY DEF PerThread
<1> QED BY <1>1, BoundAssumption DEF MakingInv, MakingCall

LEMMA MakingQueue ==
    ASSUME MakingInv, (\E tx \in Transfers : AddToMempool(tx)) \/ RollbackBlock
    PROVE  MakingInv'
BY MakingStutter DEF AddToMempool, RollbackBlock

LEMMA MakingNext ==
    ASSUME OneCaller, TypeInv, MakingInv, [Next]_vars
    PROVE  MakingInv'
<1>1. ASSUME NEW m \in MinerChoices, NEW d \in InitialDifficulties, InitializeLedger(m, d)
      PROVE  MakingInv'
  <2>1. \A t \in Threads : pc[t] = "idle"
    BY <1>1 DEF InitializeLedger, TypeInv, CallsSound, CallSound
  <2>2. UNCHANGED locals /\ Mempool' = Mempool
    BY <1>1 DEF InitializeLedger
  <2> QED BY <2>1, <2>2 DEF MakingInv, MakingCall, locals
<1>2. CASE SpawnGenesis \/ IndexGenesis
  BY <1>2, MakingStutter DEF SpawnGenesis, IndexGenesis, memory
<1>3. CASE Crash
  BY <1>3, MakingFresh DEF Crash, ProcessEnds
<1>4. ASSUME NEW t \in Threads, MineStep(t) \/ RecoverPanic(t) PROVE MakingInv'
  BY <1>4, MakingBegins, MakingSelects, MakingSelected, MakingPrepares, MakingMines,
     MakingEnds DEF MineStep
<1>5. CASE (\E tx \in Transfers : AddToMempool(tx)) \/ RollbackBlock
  BY <1>5, MakingQueue
<1>6. CASE FinishRollback \/ FinishAppend
  BY <1>6, MakingStutter DEF FinishRollback, FinishAppend
<1>7. CASE CanReorg /\ \E b \in PeerBlocks : AppendBlockDirectly(b)
  BY <1>7, MakingStutter DEF AppendBlockDirectly
<1>8. CASE UNCHANGED vars
  BY <1>8, MakingStutter DEF vars, memory
<1> QED BY <1>1, <1>2, <1>3, <1>4, <1>5, <1>6, <1>7, <1>8 DEF Next

LEMMA MakingInitial == Init => MakingInv
<1> SUFFICES ASSUME Init PROVE MakingInv
  OBVIOUS
<1>1. \A t \in Threads : pc[t] = "idle" /\ newBlock[t] = NoBlock /\ feeTotal[t] = 0
  BY DEF Init, PerThread
<1>2. Mempool = <<>>
  BY DEF Init
<1> QED BY <1>1, <1>2, BoundAssumption DEF MakingInv, MakingCall

LEMMA MakingInvariant ==
    ASSUME OneCaller
    PROVE  Spec => [](TypeInv /\ MakingInv)
<1>1. Init => TypeInv /\ MakingInv
  BY InitTyped, MakingInitial
<1>2. TypeInv /\ MakingInv /\ [Next]_vars => (TypeInv /\ MakingInv)'
  BY TypeNext, MakingNext
<1> QED BY <1>1, <1>2, PTL DEF Spec

\* While one call at a time mines, the block it assembles passes its own
\* validation once it is mined, for every queue, clock, difficulty and supply,
\* also after reorganisations and failed writes, unless its header and commas
\* outgrow the reserve (ledger.go:327-423, validator.go:18-107).
THEOREM LedgerGeneratedBlockValid ==
    ASSUME OneCaller
    PROVE  Spec => []GeneratedBlockValid
<1>1. TypeInv /\ MakingInv => GeneratedBlockValid
  BY MakingPasses DEF GeneratedBlockValid
<1> QED BY <1>1, MakingInvariant, PTL

-----------------------------------------------------------------------------
(* The balances                                                            *)

\* What a call under way has paid: the fees it holds are those of its block, and
\* the state is the chain's with the transfers of its block executed on it.
PaysCall(t) ==
    /\ pc[t] \in Making \cup {"saved"} => feeTotal[t] = FeeTotal(newBlock[t].txs)
    /\ pc[t] \in Making
         => SameBalances(State, ReplayTransfers(Replay(Chain), newBlock[t].txs))
    /\ pc[t] = "saved"
         => SameBalances(State, ReplayTransfers(Replay(WithoutTip(Chain)), newBlock[t].txs))

Resting == \A t \in Threads : pc[t] = "idle"

BalanceInv ==
    /\ MinerAddress # SYSTEM_GENESIS
    /\ Resting /\ reorg.step = "none" => SameBalances(State, Replay(Chain))
    /\ reorg.step = "saved" => SameBalances(State, Replay(WithoutTip(Chain)))
    /\ \A t \in Threads : PaysCall(t)

LEMMA NothingPaid ==
    ASSUME NEW state \in LedgerStates
    PROVE  /\ FeeTotal(<<>>) = 0 /\ ReplayTransfers(state, <<>>) = state
           /\ Replay(<<>>) = NoState
<1>1. <<>> \in Seq(Transfers) /\ <<>> \in Seq(Block) /\ Len(<<>>) = 0
  OBVIOUS
<1>2. \E s \in [0 .. Len(<<>>) -> Nat] : s[0] = 0 /\ FeeTotal(<<>>) = s[Len(<<>>)]
  BY <1>1, FeeTotalRun
<1>3. \E s \in [0 .. Len(<<>>) -> LedgerStates] :
          s[0] = state /\ ReplayTransfers(state, <<>>) = s[Len(<<>>)]
  BY <1>1, ReplayTransfersRun
<1>4. \E s \in [0 .. Len(<<>>) -> LedgerStates] :
          s[0] = NoState /\ Replay(<<>>) = s[Len(<<>>)]
  BY <1>1, ReplayRun
<1> QED BY <1>1, <1>2, <1>3, <1>4

\* A chain that gets a block is the old one without its tip.
LEMMA AppendedTip ==
    ASSUME NEW c \in Seq(Block), NEW b \in Block
    PROVE  /\ WithoutTip(Append(c, b)) = c /\ Tip(Append(c, b)) = b
           /\ Append(c, b) \in Seq(Block) /\ Append(c, b) # <<>>
<1> DEFINE d == Append(c, b)
<1>1. d \in Seq(Block) /\ d # <<>> /\ Len(d) = Len(c) + 1 /\ Len(c) \in Nat /\ d[Len(d)] = b
  OBVIOUS
<1>2. \A i \in 1 .. Len(c) : d[i] = c[i]
  OBVIOUS
<1> HIDE DEF d
<1>3. /\ WithoutTip(d) \in Seq(Block) /\ Len(WithoutTip(d)) = Len(c)
      /\ \A i \in 1 .. Len(c) : WithoutTip(d)[i] = d[i]
  <2>1. Len(d) - 1 = Len(c)
    BY <1>1
  <2> QED BY <1>1, <2>1, WithoutTipIs
<1>4. WithoutTip(d) = c
  BY <1>2, <1>3
<1>5. Tip(d) = b
  BY <1>1 DEF Tip
<1> QED BY <1>1, <1>4, <1>5 DEF d

\* A step of the only call, which is still under way after it.
LEMMA PaysOneCall ==
    ASSUME OneCaller, TypeInv, SerialInv, BalanceInv, NEW t \in Threads, pc[t] # "idle" \/ reorg = NoReorg,
           MinerAddress' = MinerAddress, reorg' = reorg,
           pc'[t] \in Making \cup {"saved"}, PaysCall(t)'
    PROVE  BalanceInv'
<1>1. reorg = NoReorg
  BY DEF SerialInv, SerialCall
<1>2. reorg'.step = "none"
  BY <1>1, NoReorgTyped
<1>3. ~Resting'
  BY DEF Resting, Making
<1>4. \A u \in Threads : PaysCall(u)'
  BY DEF OneCaller
<1> QED BY <1>2, <1>3, <1>4 DEF BalanceInv

\* A call that panics has no claim left on the accounts.
LEMMA PaysPanics ==
    ASSUME OneCaller, BalanceInv, NEW t \in Threads, pc'[t] = "panicked",
           MinerAddress' = MinerAddress, reorg' = reorg, reorg.step # "saved"
    PROVE  BalanceInv'
<1>1. \A u \in Threads : pc'[u] = "panicked"
  BY DEF OneCaller
<1>2. ~Resting' /\ \A u \in Threads : PaysCall(u)'
  BY <1>1 DEF Resting, PaysCall, Making
<1> QED BY <1>2 DEF BalanceInv

LEMMA PaysBegins ==
    ASSUME OneCaller, TypeInv, SerialInv, MakingInv, BalanceInv, NEW t \in Threads,
           MineBlock(t)
    PROVE  BalanceInv'
<1>1. /\ pc[t] = "idle" /\ pc'[t] = "selecting" /\ reorg = NoReorg
      /\ Chain' = Chain /\ State' = State /\ MinerAddress' = MinerAddress /\ reorg' = reorg
      /\ newBlock' = newBlock /\ feeTotal' = feeTotal
  BY DEF MineBlock, CanMine, memory, TypeInv, CallsTyped
<1>2. newBlock[t] = NoBlock /\ feeTotal[t] = 0
  BY <1>1 DEF MakingInv, MakingCall
<1>3. NoBlock.txs = <<>>
  BY DEF NoBlock
<1>4. SameBalances(State, Replay(Chain))
  <2>1. Resting
    BY <1>1 DEF OneCaller, Resting
  <2> QED BY <1>1, <2>1, NoReorgTyped DEF BalanceInv
<1>5. Replay(Chain) \in LedgerStates
  BY ReplayTyped DEF TypeInv, MemoryTyped
<1>6. FeeTotal(<<>>) = 0 /\ ReplayTransfers(Replay(Chain), <<>>) = Replay(Chain)
  BY <1>5, NothingPaid
<1>7. PaysCall(t)'
  BY <1>1, <1>2, <1>3, <1>4, <1>6 DEF PaysCall
<1> QED BY <1>1, <1>7, PaysOneCall DEF Making

\* The transfer is executed as a replay would: its sender can pay.
LEMMA PaidAsReplayed ==
    ASSUME NEW state \in LedgerStates, NEW tx \in Transfers,
           state[tx.from].balance >= Cost(tx)
    PROVE  Credit([state EXCEPT ![tx.from].balance = @ - Cost(tx),
                                ![tx.from].nonce   = @ + 1], tx.to, tx.value)
             = ReplayTransfer(state, tx)
  BY DEF ReplayTransfer

LEMMA PaysSelects ==
    ASSUME OneCaller, TypeInv, SerialInv, MakingInv, BalanceInv, NEW t \in Threads,
           SelectTransfer(t)
    PROVE  BalanceInv'
<1> DEFINE tx == Candidate(t)
           txs == newBlock[t].txs
           spent == ReplayTransfers(Replay(Chain), txs)
<1>1. /\ pc[t] = "selecting" /\ pc' = pc /\ cursor[t] <= Len(Mempool)
      /\ State[tx.from].balance >= Cost(tx)
      /\ State' = Credit([State EXCEPT ![tx.from].balance = @ - Cost(tx),
                                       ![tx.from].nonce   = @ + 1], tx.to, tx.value)
      /\ feeTotal' = [feeTotal EXCEPT ![t] = Plus(@, tx.fee)]
      /\ newBlock' = [newBlock EXCEPT ![t].txs = Append(@, tx)]
      /\ MinerAddress' = MinerAddress /\ Chain' = Chain /\ reorg' = reorg
  BY DEF SelectTransfer, AtTransfer, Affordable
<1>2. tx \in Transfers
  <2>1. cursor[t] \in 1 .. Len(Mempool)
    BY <1>1 DEF TypeInv, CallsTyped, CallsSound, CallSound, MemoryTyped
  <2> QED BY <2>1 DEF Candidate, TypeInv, MemoryTyped
<1>3. txs \in Seq(Transfers) /\ State \in LedgerStates /\ Replay(Chain) \in LedgerStates
  BY BlockFields, ReplayTyped DEF TypeInv, CallsTyped, MemoryTyped
<1> HIDE DEF tx
<1>4. newBlock'[t].txs = Append(txs, tx) /\ feeTotal'[t] = Plus(feeTotal[t], tx.fee)
  <2>1. newBlock'[t] = [newBlock[t] EXCEPT !.txs = Append(@, tx)]
    BY <1>1 DEF TypeInv, CallsTyped
  <2> QED BY <1>1, <2>1 DEF TypeInv, CallsTyped, Block
<1>5. feeTotal[t] = FeeTotal(txs) /\ SameBalances(State, spent)
  BY <1>1 DEF BalanceInv, PaysCall, Making
<1> HIDE DEF txs
<1>6. feeTotal'[t] = FeeTotal(newBlock'[t].txs)
  BY <1>2, <1>3, <1>4, <1>5, FeeTotalAppend
<1>7. State' = ReplayTransfer(State, tx)
  BY <1>1, <1>2, <1>3, PaidAsReplayed
<1>8. spent \in LedgerStates
  BY <1>3, ReplayTransfersTyped
<1>9. ReplayTransfers(Replay(Chain), Append(txs, tx)) = ReplayTransfer(spent, tx)
  BY <1>2, <1>3, ReplayTransfersAppend
<1> HIDE DEF spent
<1>10. SameBalances(State', ReplayTransfers(Replay(Chain), newBlock'[t].txs))
  BY <1>2, <1>3, <1>4, <1>5, <1>7, <1>8, <1>9, ReplayTransferSame
<1>11. PaysCall(t)'
  BY <1>1, <1>6, <1>10 DEF PaysCall
<1> QED BY <1>1, <1>11, PaysOneCall DEF Making

\* The steps that only work on the block's header.
LEMMA PaysPrepares ==
    ASSUME OneCaller, TypeInv, SerialInv, MakingInv, BalanceInv, NEW t \in Threads,
           \/ SkipTransfer(t) \/ FinishSelection(t) \/ ComputeReward(t)
           \/ AdjustDifficulty(t) \/ AssembleBlock(t) \/ MineAndValidate(t)
    PROVE  BalanceInv'
<1> USE DEF memory
<1>0. /\ pc \in [Threads -> PcStates] /\ newBlock \in [Threads -> Block]
      /\ newBlock[t] \in Block
  BY DEF TypeInv, CallsTyped
<1>1. /\ pc[t] \in Making /\ Chain' = Chain /\ State' = State
      /\ MinerAddress' = MinerAddress /\ reorg' = reorg
  BY DEF SkipTransfer, FinishSelection, ComputeReward, AdjustDifficulty, AssembleBlock,
     MineAndValidate, AtTransfer, Making
<1>2. \/ pc'[t] \in Making /\ feeTotal' = feeTotal /\ newBlock'[t].txs = newBlock[t].txs
      \/ pc'[t] = "panicked"
  <2>1. CASE MineAndValidate(t)
    BY <2>1, MakingMines DEF Making
  <2>2. CASE SkipTransfer(t) \/ FinishSelection(t)
    BY <1>0, <2>2 DEF SkipTransfer, FinishSelection, AtTransfer, Making
  <2>3. CASE ComputeReward(t)
    <3> DEFINE r == AllowedReward(parent[t].index + 1, GetTotalCirculatingSupply(Chain))
    <3>1. /\ pc' = [pc EXCEPT ![t] = "priced"] /\ feeTotal' = feeTotal
          /\ newBlock' = [newBlock EXCEPT ![t].reward = r]
      BY <2>3 DEF ComputeReward
    <3> HIDE DEF r
    <3>2. newBlock'[t] = [newBlock[t] EXCEPT !.reward = r]
      BY <1>0, <3>1
    <3> QED BY <1>0, <3>1, <3>2 DEF Block, Making
  <2>4. CASE AdjustDifficulty(t)
    <3>1. PICK now \in Clock :
            newBlock' = [newBlock EXCEPT ![t].time = BlockTime(now, parent[t].time)]
      BY <2>4 DEF AdjustDifficulty
    <3>2. pc' = [pc EXCEPT ![t] = "retargeted"] /\ feeTotal' = feeTotal
      BY <2>4 DEF AdjustDifficulty
    <3>3. newBlock'[t] = [newBlock[t] EXCEPT !.time = BlockTime(now, parent[t].time)]
      BY <1>0, <3>1
    <3> QED BY <1>0, <3>2, <3>3 DEF Block, Making
  <2>5. CASE AssembleBlock(t)
    <3>1. /\ pc' = [pc EXCEPT ![t] = "assembled"] /\ feeTotal' = feeTotal
          /\ newBlock' = [newBlock EXCEPT
                ![t].index = parent[t].index + 1, ![t].prev = parent[t].hash,
                ![t].miner = MinerAddress,        ![t].diff = TargetDifficulty]
      BY <2>5 DEF AssembleBlock
    <3>2. newBlock'[t] = [[[[newBlock[t] EXCEPT !.index = parent[t].index + 1]
                             EXCEPT !.prev = parent[t].hash]
                             EXCEPT !.miner = MinerAddress]
                             EXCEPT !.diff = TargetDifficulty]
      BY <1>0, <3>1
    <3> QED BY <1>0, <3>1, <3>2 DEF Block, Making
  <2> QED BY <2>1, <2>2, <2>3, <2>4, <2>5
<1>3. PaysCall(t)
  BY DEF BalanceInv
<1>4. pc[t] # "saved" /\ pc'[t] # "saved" /\ pc[t] # "idle"
  BY <1>1, <1>2 DEF Making
<1>5. CASE pc'[t] \in Making /\ feeTotal' = feeTotal /\ newBlock'[t].txs = newBlock[t].txs
  <2>1. PaysCall(t)'
    BY <1>1, <1>3, <1>4, <1>5 DEF PaysCall
  <2> QED BY <1>1, <1>4, <1>5, <2>1, PaysOneCall
<1>6. CASE pc'[t] = "panicked"
  <2>1. reorg.step # "saved"
    BY <1>4, NoReorgTyped DEF SerialInv, SerialCall
  <2> QED BY <1>1, <1>6, <2>1, PaysPanics
<1> QED BY <1>2, <1>5, <1>6

LEMMA PaysCommit ==
    ASSUME OneCaller, DiskFaults = FALSE, TypeInv, SerialInv, BalanceInv, NEW t \in Threads,
           CommitBlock(t)
    PROVE  BalanceInv'
<1> DEFINE b == newBlock[t]
<1>1. /\ pc[t] = "mined" /\ pc'[t] = "saved" /\ Chain' = Append(Chain, b)
      /\ State' = State /\ MinerAddress' = MinerAddress /\ reorg' = reorg
      /\ newBlock' = newBlock /\ feeTotal' = feeTotal
  BY DEF CommitBlock, AppendBlock, TypeInv, CallsTyped
<1>2. b \in Block /\ Chain \in Seq(Block)
  BY DEF TypeInv, CallsTyped, MemoryTyped
<1>3. /\ feeTotal[t] = FeeTotal(b.txs)
      /\ SameBalances(State, ReplayTransfers(Replay(Chain), b.txs))
  BY <1>1 DEF BalanceInv, PaysCall, Making
<1> HIDE DEF b
<1>4. WithoutTip(Chain') = Chain
  BY <1>1, <1>2, AppendedTip
<1>5. newBlock'[t] = b
  BY <1>1 DEF b
<1>6. SameBalances(State', ReplayTransfers(Replay(WithoutTip(Chain')), newBlock'[t].txs))
  BY <1>1, <1>3, <1>4, <1>5
<1>7. feeTotal'[t] = FeeTotal(newBlock'[t].txs)
  BY <1>1, <1>3, <1>5
<1>8. PaysCall(t)'
  BY <1>1, <1>6, <1>7 DEF PaysCall, Making
<1> QED BY <1>1, <1>8, PaysOneCall

LEMMA PaysCredit ==
    ASSUME OneCaller, DiskFaults = FALSE, TypeInv, SerialInv, MakingInv, BalanceInv,
           NEW t \in Threads, CreditMiner(t)
    PROVE  BalanceInv'
<1> DEFINE b == newBlock[t]
           before == Replay(WithoutTip(Chain))
           spent == ReplayTransfers(before, b.txs)
           amount == Plus(b.reward, feeTotal[t])
<1>1. /\ pc[t] = "saved" /\ pc'[t] = "idle" /\ Chain' = Chain
      /\ State' = Credit(State, MinerAddress, amount)
      /\ MinerAddress' = MinerAddress /\ reorg' = reorg
  BY DEF CreditMiner, Finish, TotalMinerReward, SerialInv, SerialCall, TypeInv, CallsTyped
<1>2. /\ b \in Block /\ Chain \in Seq(Block) /\ Chain # <<>> /\ State \in LedgerStates
      /\ b.txs \in Seq(Transfers)
  BY <1>1, CallUp, BlockFields DEF TypeInv, CallsTyped, MemoryTyped
<1>3. b = Tip(Chain) /\ reorg = NoReorg
  BY <1>1 DEF SerialInv, SerialCall
<1>4. b.miner = MinerAddress /\ MinerAddress # SYSTEM_GENESIS
  BY <1>1 DEF MakingInv, MakingCall, BalanceInv
<1>5. feeTotal[t] = FeeTotal(b.txs) /\ SameBalances(State, spent)
  BY <1>1 DEF BalanceInv, PaysCall
<1> HIDE DEF b
<1>6. WithoutTip(Chain) \in Seq(Block) /\ Chain = Append(WithoutTip(Chain), b)
  BY <1>2, <1>3, WithoutTipIs
<1>7. Replay(Chain) = RebuildState(before, b)
  BY <1>2, <1>6, ReplayAppend
<1>8. before \in LedgerStates
  BY <1>6, ReplayTyped
<1>9. spent \in LedgerStates
  BY <1>2, <1>8, ReplayTransfersTyped
<1>10. RebuildState(before, b) = Credit(spent, MinerAddress, amount)
  BY <1>4, <1>5 DEF RebuildState
<1> HIDE DEF before, spent, amount
<1>11. SameBalances(State', Replay(Chain'))
  BY <1>1, <1>2, <1>5, <1>7, <1>9, <1>10, CreditSame
<1>12. \A u \in Threads : pc'[u] = "idle"
  BY <1>1 DEF OneCaller
<1>13. \A u \in Threads : PaysCall(u)'
  BY <1>12 DEF PaysCall, Making
<1>14. reorg'.step # "saved"
  BY <1>1, <1>3, NoReorgTyped
<1> QED BY <1>1, <1>4, <1>11, <1>13, <1>14 DEF BalanceInv

\* A refused name: the panic ends the process, since no handler mines.
LEMMA PaysRefused ==
    ASSUME OneCaller, Handlers = {}, TypeInv, BalanceInv, NEW t \in Threads,
           RejectMiner(t) \/ RecoverPanic(t)
    PROVE  BalanceInv'
<1>1. RejectMiner(t)
  BY DEF RecoverPanic
<1>2. /\ reorg = NoReorg /\ pc'[t] = "panicked" /\ MinerAddress' = MinerAddress
      /\ reorg' = reorg
  BY <1>1 DEF RejectMiner, CanMine, memory, TypeInv, CallsTyped
<1> QED BY <1>2, NoReorgTyped, PaysPanics

\* A step outside the calls that leaves the balances and the chain alone.
LEMMA PaysStutter ==
    ASSUME BalanceInv, UNCHANGED locals, Chain' = Chain, MinerAddress' = MinerAddress,
           reorg' = reorg, SameBalances(State', State)
    PROVE  BalanceInv'
<1>1. pc' = pc /\ newBlock' = newBlock /\ feeTotal' = feeTotal /\ Resting' = Resting
  BY DEF locals, Resting
<1>2. \A s : SameBalances(State, s) => SameBalances(State', s)
  BY DEF SameBalances
<1>3. \A t \in Threads : PaysCall(t)'
  BY <1>1, <1>2 DEF BalanceInv, PaysCall
<1> QED BY <1>1, <1>2, <1>3 DEF BalanceInv

\* A step taken while no call is under way.
LEMMA PaysIdle ==
    ASSUME \A t \in Threads : pc[t] = "idle", pc' = pc,
           MinerAddress' # SYSTEM_GENESIS,
           reorg'.step = "none" => SameBalances(State', Replay(Chain)'),
           reorg'.step = "saved" => SameBalances(State', Replay(WithoutTip(Chain))')
    PROVE  BalanceInv'
<1>1. \A t \in Threads : PaysCall(t)'
  BY DEF PaysCall, Making
<1> QED BY <1>1 DEF BalanceInv

LEMMA PaysStart ==
    ASSUME SYSTEM_GENESIS \notin MinerChoices, TypeInv, BalanceInv,
           NEW m \in MinerChoices, NEW d \in InitialDifficulties, InitializeLedger(m, d)
    PROVE  BalanceInv'
<1>1. /\ status = "down" /\ pc' = pc /\ reorg' = reorg /\ MinerAddress' = m
  BY DEF InitializeLedger, locals
<1>2. reorg = NoReorg /\ \A t \in Threads : pc[t] = "idle"
  BY <1>1 DEF TypeInv, MemorySound, CallsSound, CallSound
<1>3. SameBalances(State, Replay(Chain))
  BY <1>2, NoReorgTyped DEF BalanceInv, Resting
<1>4. \/ State' = State /\ Chain' = Chain
      \/ Chain' = LoadedChain /\ State' = Replay(LoadedChain)
  BY DEF InitializeLedger
<1>5. SameBalances(State', Replay(Chain)')
  BY <1>3, <1>4 DEF SameBalances
<1>6. reorg'.step = "none"
  BY <1>1, <1>2, NoReorgTyped
<1> QED BY <1>1, <1>2, <1>5, <1>6, PaysIdle

\* A genesis block pays nothing.
LEMMA GenesisReplay ==
    ASSUME NEW g \in Block, g.txs = <<>>, g.miner = SYSTEM_GENESIS
    PROVE  Replay(<<g>>) = NoState
<1>1. <<>> \in Seq(Block) /\ <<g>> = Append(<<>>, g)
  OBVIOUS
<1>2. Replay(<<g>>) = RebuildState(NoState, g)
  BY <1>1, ReplayAppend
<1>3. RebuildState(NoState, g) = NoState
  BY NoStateTyped, NothingPaid DEF RebuildState
<1> QED BY <1>2, <1>3

\* Nothing is paid by the genesis block.
LEMMA PaysGenesis ==
    ASSUME TypeInv, TypeInv', SerialInv, BalanceInv, SpawnGenesis
    PROVE  BalanceInv'
<1>1. PICK h \in GenesisHashes[TargetDifficulty] :
        Chain' = << [NoBlock EXCEPT !.hash = h, !.work = TargetDifficulty,
                       !.time = GenesisTime, !.diff = TargetDifficulty,
                       !.reward = CalculateBlockReward(0)] >>
  BY DEF SpawnGenesis
<1> DEFINE g == [NoBlock EXCEPT !.hash = h, !.work = TargetDifficulty,
                   !.time = GenesisTime, !.diff = TargetDifficulty,
                   !.reward = CalculateBlockReward(0)]
<1>2. g.txs = <<>> /\ g.miner = SYSTEM_GENESIS
  BY DEF NoBlock
<1>3. Chain' = <<g>>
  BY <1>1
<1> HIDE DEF g
<1>4. /\ status = "spawning" /\ pc' = pc /\ reorg' = reorg /\ State' = State
      /\ MinerAddress' = MinerAddress
  BY DEF SpawnGenesis, locals
<1>5. reorg = NoReorg /\ Chain = <<>> /\ \A t \in Threads : pc[t] = "idle"
  BY <1>4 DEF TypeInv, MemorySound, CallsSound, CallSound, SerialInv, ChainInv
<1>6. SameBalances(State, Replay(Chain))
  BY <1>5, NoReorgTyped DEF BalanceInv, Resting
<1>7. g \in Block
  <2>1. Chain' \in Seq(Block)
    BY DEF TypeInv, MemoryTyped
  <2>2. Len(Chain') = 1 /\ Chain'[1] = g
    BY <1>3
  <2> QED BY <2>1, <2>2
<1>9. Replay(<<g>>) = NoState /\ Replay(<<>>) = NoState
  BY <1>2, <1>7, NoStateTyped, NothingPaid, GenesisReplay
<1>10. SameBalances(State', Replay(Chain)')
  BY <1>3, <1>4, <1>5, <1>6, <1>9
<1>11. reorg'.step = "none" /\ MinerAddress # SYSTEM_GENESIS
  BY <1>4, <1>5, NoReorgTyped DEF BalanceInv
<1> QED BY <1>4, <1>5, <1>10, <1>11, PaysIdle

\* A process that has just ended, or not yet started.
LEMMA PaysFresh ==
    ASSUME Chain' = <<>>, State' = NoState, MinerAddress' = SYSTEM_MINER,
           reorg' = NoReorg, pc' = PerThread("idle")
    PROVE  BalanceInv'
<1>1. \A t \in Threads : pc'[t] = "idle"
  BY DEF PerThread
<1>2. \A t \in Threads : PaysCall(t)'
  BY <1>1 DEF PaysCall, Making
<1>3. Replay(Chain)' = NoState
  BY NoStateTyped, NothingPaid
<1>4. SameBalances(State', Replay(Chain)')
  BY <1>3 DEF SameBalances
<1>5. reorg'.step = "none" /\ SYSTEM_MINER # SYSTEM_GENESIS
  BY NoReorgTyped DEF SYSTEM_MINER, SYSTEM_GENESIS
<1> QED BY <1>2, <1>4, <1>5 DEF BalanceInv

\* Queueing a transfer moves a nonce and no balance.
LEMMA PaysQueue ==
    ASSUME TypeInv, BalanceInv, NEW tx \in Transfers, AddToMempool(tx)
    PROVE  BalanceInv'
<1>1. /\ State' = [State EXCEPT ![tx.from].nonce = tx.nonce] /\ Chain' = Chain
      /\ MinerAddress' = MinerAddress /\ reorg' = reorg /\ UNCHANGED locals
  BY DEF AddToMempool
<1>2. State \in LedgerStates
  BY DEF TypeInv, MemoryTyped
<1>3. SameBalances(State', State)
  BY <1>1, <1>2 DEF SameBalances, LedgerStates
<1> QED BY <1>1, <1>3, PaysStutter

\* A rollback rebuilds the state; an appended block is added to it.
LEMMA PaysReorg ==
    ASSUME DiskFaults = FALSE, TypeInv, TypeInv', SerialInv, BalanceInv,
           \/ RollbackBlock \/ FinishRollback \/ FinishAppend
           \/ CanReorg /\ \E b \in PeerBlocks : AppendBlockDirectly(b)
    PROVE  BalanceInv'
<1>0. MinerAddress' = MinerAddress /\ pc' = pc /\ MinerAddress # SYSTEM_GENESIS
  BY DEF RollbackBlock, FinishRollback, FinishAppend, AppendBlockDirectly, locals, BalanceInv
<1>1. CASE RollbackBlock
  <2>1. reorg'.step = "deleted" /\ Idle
    BY <1>1 DEF RollbackBlock, CanReorg
  <2> QED BY <1>0, <2>1, PaysIdle DEF Idle
<1>2. ASSUME reorg # NoReorg
      PROVE  (\A t \in Threads : pc[t] = "idle") /\ Chain # <<>> /\ Chain \in Seq(Block)
  BY <1>2 DEF SerialInv, SerialCall, TypeInv, MemorySound, MemoryTyped
<1>3. CASE FinishRollback
  <2>1. /\ reorg.step = "deleted" /\ reorg' = NoReorg /\ State' = Replay(Chain)
        /\ Chain' = Chain
    BY <1>3 DEF FinishRollback
  <2>2. \A t \in Threads : pc[t] = "idle"
    BY <1>2, <2>1, NoReorgTyped
  <2>3. SameBalances(State', Replay(Chain)')
    BY <2>1 DEF SameBalances
  <2> QED BY <1>0, <2>1, <2>2, <2>3, NoReorgTyped, PaysIdle
<1>4. CASE FinishAppend
  <2>1. /\ reorg.step = "saved" /\ reorg' = NoReorg /\ Chain' = Chain
        /\ State' = RebuildState(State, reorg.block) /\ reorg.block = Tip(Chain)
    BY <1>4 DEF FinishAppend, SerialInv, SerialReorg
  <2>2. (\A t \in Threads : pc[t] = "idle") /\ Chain # <<>> /\ Chain \in Seq(Block)
    BY <1>2, <2>1, NoReorgTyped
  <2>3. /\ WithoutTip(Chain) \in Seq(Block) /\ Chain = Append(WithoutTip(Chain), Tip(Chain))
        /\ Tip(Chain) \in Block
    <3>1. Len(Chain) \in 1 .. Len(Chain)
      BY <2>2
    <3>2. Tip(Chain) \in Block
      BY <2>2, <3>1 DEF Tip
    <3> QED BY <2>2, <3>2, WithoutTipIs
  <2> DEFINE before == Replay(WithoutTip(Chain))
             tip == Tip(Chain)
  <2>4. Replay(Chain) = RebuildState(before, tip)
    BY <2>3, ReplayAppend
  <2>5. SameBalances(State, before)
    BY <2>1 DEF BalanceInv
  <2>6. before \in LedgerStates /\ State \in LedgerStates
    BY <2>3, ReplayTyped DEF TypeInv, MemoryTyped
  <2> HIDE DEF before
  <2>7. SameBalances(RebuildState(State, tip), RebuildState(before, tip))
    BY <2>3, <2>5, <2>6, RebuildStateSame
  <2>8. SameBalances(State', Replay(Chain)')
    BY <2>1, <2>4, <2>7
  <2> QED BY <1>0, <2>1, <2>2, <2>8, NoReorgTyped, PaysIdle
<1>5. ASSUME CanReorg, NEW b \in PeerBlocks, AppendBlockDirectly(b)
      PROVE  BalanceInv'
  <2>1. /\ reorg' = [step |-> "saved", block |-> b] /\ Chain' = Append(Chain, b)
        /\ State' = State
    BY <1>5 DEF AppendBlockDirectly, AppendBlock
  <2>2. reorg = NoReorg /\ \A t \in Threads : pc[t] = "idle"
    BY <1>5 DEF CanReorg, Idle
  <2>3. b \in Block /\ Chain \in Seq(Block)
    <3>1. reorg'.block \in Block
      BY DEF TypeInv, MemoryTyped
    <3> QED BY <2>1, <3>1 DEF TypeInv, MemoryTyped
  <2>4. WithoutTip(Chain') = Chain
    BY <2>1, <2>3, AppendedTip
  <2>5. SameBalances(State, Replay(Chain))
    BY <2>2, NoReorgTyped DEF BalanceInv, Resting
  <2>6. SameBalances(State', Replay(WithoutTip(Chain))')
    BY <2>1, <2>4, <2>5
  <2> QED BY <1>0, <2>1, <2>2, <2>6, PaysIdle
<1> QED BY <1>1, <1>3, <1>4, <1>5

LEMMA PaysNext ==
    ASSUME OneCaller, Handlers = {}, DiskFaults = FALSE, SYSTEM_GENESIS \notin MinerChoices,
           TypeInv, TypeInv', SerialInv, MakingInv, BalanceInv, [Next]_vars
    PROVE  BalanceInv'
<1>1. ASSUME NEW m \in MinerChoices, NEW d \in InitialDifficulties, InitializeLedger(m, d)
      PROVE  BalanceInv'
  BY <1>1, PaysStart
<1>2. CASE SpawnGenesis
  BY <1>2, PaysGenesis
<1>3. CASE Crash
  BY <1>3, PaysFresh DEF Crash, ProcessEnds
<1>4. ASSUME NEW t \in Threads, MineStep(t) \/ RecoverPanic(t) PROVE BalanceInv'
  BY <1>4, PaysBegins, PaysSelects, PaysPrepares, PaysCommit, PaysCredit, PaysRefused
     DEF MineStep
<1>5. ASSUME NEW tx \in Transfers, AddToMempool(tx) PROVE BalanceInv'
  BY <1>5, PaysQueue
<1>6. CASE \/ RollbackBlock \/ FinishRollback \/ FinishAppend
           \/ CanReorg /\ \E b \in PeerBlocks : AppendBlockDirectly(b)
  BY <1>6, PaysReorg
<1>7. CASE IndexGenesis \/ UNCHANGED vars
  <2>1. /\ UNCHANGED locals /\ Chain' = Chain /\ MinerAddress' = MinerAddress
        /\ reorg' = reorg /\ State' = State
    BY <1>7 DEF IndexGenesis, vars, memory
  <2> QED BY <2>1, PaysStutter DEF SameBalances
<1> QED BY <1>1, <1>2, <1>3, <1>4, <1>5, <1>6, <1>7 DEF Next

LEMMA PaysInitial == Init => BalanceInv
<1> SUFFICES ASSUME Init PROVE BalanceInv
  OBVIOUS
<1>1. /\ Chain = <<>> /\ State = NoState /\ MinerAddress = SYSTEM_MINER
      /\ reorg.step = "none" /\ \A t \in Threads : pc[t] = "idle"
  BY NoReorgTyped DEF Init, PerThread
<1>2. \A t \in Threads : PaysCall(t)
  BY <1>1 DEF PaysCall, Making
<1>3. SameBalances(State, Replay(Chain))
  BY <1>1, NoStateTyped, NothingPaid DEF SameBalances
<1> QED BY <1>1, <1>2, <1>3 DEF BalanceInv, SYSTEM_MINER, SYSTEM_GENESIS

\* While one goroutine that is not a request's mines, and writes do not fail, the
\* balances between two calls are those a restart would rebuild from the blocks, through mining,
\* reorganisations and crashes, unless the process mines for the name that a
\* replay does not credit (ledger.go:175-209, 335-369, 425-436).
THEOREM LedgerStateIsReplay ==
    ASSUME OneCaller, Handlers = {}, DiskFaults = FALSE, SYSTEM_GENESIS \notin MinerChoices
    PROVE  Spec => []StateIsReplay
<1>1. Init => BalanceInv
  BY PaysInitial
<1>2. TypeInv /\ TypeInv' /\ SerialInv /\ MakingInv /\ BalanceInv /\ [Next]_vars => BalanceInv'
  BY PaysNext
<1>3. BalanceInv => StateIsReplay
  <2> SUFFICES ASSUME BalanceInv, Idle, reorg = NoReorg
               PROVE  Balances(State) = Balances(Replay(Chain))
    BY DEF StateIsReplay
  <2>1. SameBalances(State, Replay(Chain))
    BY NoReorgTyped DEF BalanceInv, Resting, Idle
  <2> QED BY <2>1, BalancesAgree
<1>4. Spec => [](TypeInv /\ SerialInv)
  BY SerialInvariant
<1>5. Spec => [](TypeInv /\ MakingInv)
  BY MakingInvariant
<1> QED BY <1>1, <1>2, <1>3, <1>4, <1>5, PTL DEF Spec

-----------------------------------------------------------------------------
(* The units of the ledger                                                 *)

LEMMA SumsAre ==
    ASSUME NEW f
    PROVE  SumFunction(f) = SumOver(f)
  BY DEF SumFunction, SumFunctionOnSet, FoldFunctionOnSet, MapThenFoldSet, SumOver, SumSteps

Total(state) == SumOver(Balances(state))

LEMMA TotalTyped ==
    ASSUME Finite(Accounts), NEW state \in LedgerStates
    PROVE  /\ Balances(state) \in [Accounts -> Nat] /\ Total(state) \in Nat
           /\ \A a \in Accounts : /\ Balances(state)[a] = state[a].balance
                                  /\ state[a].balance \in Nat
                                  /\ state[a].balance <= Total(state)
<1>1. \A a \in Accounts : state[a].balance \in Nat
  <2>1. Word \in Nat
    BY WordPositive
  <2> QED BY <2>1 DEF LedgerStates
<1>2. /\ Balances(state) \in [Accounts -> Nat]
      /\ \A a \in Accounts : Balances(state)[a] = state[a].balance
  BY <1>1 DEF Balances
<1> DEFINE f == Balances(state)
<1> HIDE DEF f
<1>3. SumOver(f) \in Nat /\ \A a \in Accounts : f[a] <= SumOver(f)
  BY <1>2, SumTyped, SumAtLeast DEF f
<1> QED BY <1>1, <1>2, <1>3 DEF Total, f

LEMMA TotalSame ==
    ASSUME NEW s, NEW u, SameBalances(s, u)
    PROVE  Total(s) = Total(u)
  BY BalancesAgree DEF Total

\* A word that does not overflow.
LEMMA PlusSmall ==
    ASSUME NEW a \in Nat, NEW b \in Nat, a + b < Word
    PROVE  Plus(a, b) = a + b
<1> DEFINE s == a + b
           w == Word
<1>1. s \in Nat /\ w \in Nat /\ s < w
  BY WordPositive
<1> HIDE DEF s, w
<1>2. s % w = s
  BY <1>1
<1> QED BY <1>2 DEF Plus, s, w

\* One account's balance changes.
LEMMA TotalChanges ==
    ASSUME Finite(Accounts), NEW s \in LedgerStates, NEW u \in LedgerStates,
           NEW a \in Accounts, \A x \in Accounts : x # a => u[x].balance = s[x].balance
    PROVE  Total(u) + s[a].balance = Total(s) + u[a].balance
<1> DEFINE f == Balances(s)
           h == Balances(u)
<1>1. /\ f \in [Accounts -> Nat] /\ h \in [Accounts -> Nat]
      /\ f[a] = s[a].balance /\ h[a] = u[a].balance
      /\ \A x \in Accounts : x # a => h[x] = f[x]
  BY TotalTyped
<1> HIDE DEF f, h
<1>2. SumOver(h) + f[a] = SumOver(f) + h[a]
  BY <1>1, SumChanges
<1> QED BY <1>1, <1>2 DEF Total, f, h

LEMMA TotalCredit ==
    ASSUME Finite(Accounts), NEW state \in LedgerStates, NEW name \in Accounts,
           NEW amount \in Nat, Total(state) + amount < Word
    PROVE  Total(Credit(state, name, amount)) = Total(state) + amount
<1> DEFINE after == Credit(state, name, amount)
<1>1. after \in LedgerStates
  BY CreditTyped
<1>2. \A a \in Accounts : after[a].balance
        = IF a = name THEN Plus(state[a].balance, amount) ELSE state[a].balance
  BY CreditBalance
<1> HIDE DEF after
<1>3. /\ Total(state) \in Nat /\ state[name].balance \in Nat
      /\ state[name].balance <= Total(state) /\ Total(after) \in Nat
  BY <1>1, TotalTyped
<1>4. Plus(state[name].balance, amount) = state[name].balance + amount
  <2> DEFINE b == state[name].balance
             n == Total(state)
             w == Word
  <2>1. b \in Nat /\ n \in Nat /\ b <= n /\ n + amount < w /\ w \in Nat
    BY <1>3, WordPositive
  <2> HIDE DEF b, n, w
  <2>2. b + amount < w
    BY <2>1
  <2> QED BY <2>1, <2>2, PlusSmall DEF w, b
<1>5. Total(after) + state[name].balance = Total(state) + after[name].balance
  BY <1>1, <1>2, TotalChanges
<1>6. after[name].balance = state[name].balance + amount
  BY <1>2, <1>4
<1>7. Total(after) = Total(state) + amount
  <2> DEFINE b == state[name].balance
             n == Total(state)
             k == Total(after)
  <2>1. b \in Nat /\ n \in Nat /\ k \in Nat /\ k + b = n + (b + amount)
    BY <1>3, <1>5, <1>6
  <2> HIDE DEF b, n, k
  <2>2. k = n + amount
    BY <2>1
  <2> QED BY <2>2 DEF n, k
<1> QED BY <1>7 DEF after

\* A transfer that its sender can pay moves units to its receiver and takes
\* its fee out of the accounts.
LEMMA TotalPays ==
    ASSUME Finite(Accounts), NEW state \in LedgerStates, NEW tx \in Transfers,
           state[tx.from].balance >= Cost(tx), tx.value + tx.fee < Word,
           Total(state) < Word
    PROVE  /\ Total(ReplayTransfer(state, tx)) + tx.fee = Total(state)
           /\ tx.fee <= Total(state)
<1> DEFINE rest == state[tx.from].balance - Cost(tx)
           spent == [state EXCEPT ![tx.from].balance = rest,
                                  ![tx.from].nonce = state[tx.from].nonce + 1]
<1>1. /\ tx.from \in Accounts /\ tx.to \in Accounts /\ tx.value \in Nat /\ tx.fee \in Nat
      /\ Cost(tx) = tx.value + tx.fee
  BY TransferFields, PlusSmall DEF Cost
<1>2. /\ state[tx.from].balance \in 0 .. Word - 1 /\ state[tx.from].nonce \in Nat
      /\ Word \in Nat
  BY <1>1, WordPositive DEF LedgerStates
<1>3. rest \in 0 .. Word - 1 /\ rest + (tx.value + tx.fee) = state[tx.from].balance
  <2> DEFINE b == state[tx.from].balance
             c == Cost(tx)
             w == Word
  <2>1. b \in 0 .. w - 1 /\ b >= c /\ c \in Nat /\ w \in Nat
    BY <1>1, <1>2
  <2> HIDE DEF b, c, w
  <2>2. b - c \in 0 .. w - 1 /\ (b - c) + c = b
    BY <2>1
  <2> QED BY <1>1, <2>2 DEF b, c, w
<1>4. ReplayTransfer(state, tx) = Credit(spent, tx.to, tx.value)
  BY DEF ReplayTransfer
<1> HIDE DEF rest
<1>5. spent \in LedgerStates
  BY <1>2, <1>3, DebitTyped
<1>6. /\ spent[tx.from].balance = rest
      /\ \A x \in Accounts : x # tx.from => spent[x].balance = state[x].balance
  BY <1>1 DEF LedgerStates
<1> HIDE DEF spent
<1>7. Total(spent) + state[tx.from].balance = Total(state) + rest
  BY <1>1, <1>5, <1>6, TotalChanges
<1>8. /\ Total(spent) \in Nat /\ Total(state) \in Nat
      /\ Total(spent) + tx.value + tx.fee = Total(state)
  <2>1. Total(spent) \in Nat /\ Total(state) \in Nat
    BY <1>5, TotalTyped
  <2> DEFINE n == Total(state)
             k == Total(spent)
             b == state[tx.from].balance
             v == tx.value
             e == tx.fee
  <2>2. /\ n \in Nat /\ k \in Nat /\ b \in Nat /\ v \in Nat /\ e \in Nat
        /\ rest \in Nat /\ k + b = n + rest /\ rest + (v + e) = b
    BY <1>1, <1>2, <1>3, <1>7, <2>1
  <2> HIDE DEF n, k, b, v, e
  <2>3. k + v + e = n
    BY <2>2
  <2> QED BY <2>1, <2>3 DEF n, k, v, e
<1>9. Total(spent) + tx.value < Word /\ tx.fee <= Total(state)
  BY <1>1, <1>2, <1>8
<1>10. Total(Credit(spent, tx.to, tx.value)) = Total(spent) + tx.value
  BY <1>1, <1>5, <1>9, TotalCredit
<1> QED BY <1>1, <1>4, <1>8, <1>9, <1>10

\* The accounts a chain amounts to hold what its blocks but the first minted;
\* and so did those of every chain it grew from.
Backed(c) ==
    c # <<>> => Total(Replay(c)) + c[1].reward = GetTotalCirculatingSupply(c)
Conserved(c) == \A n \in 0 .. Len(c) : Backed(SubSeq(c, 1, n))

LEMMA PrefixIs ==
    ASSUME NEW c \in Seq(Block), NEW n \in 0 .. Len(c)
    PROVE  /\ SubSeq(c, 1, n) \in Seq(Block) /\ Len(SubSeq(c, 1, n)) = n
           /\ \A i \in 1 .. n : SubSeq(c, 1, n)[i] = c[i]
<1>1. SubSeq(c, 1, n) = [i \in 1 .. n |-> c[i]] /\ n \in Nat /\ Len(c) \in Nat
  OBVIOUS
<1>2. \A i \in 1 .. n : c[i] \in Block
  OBVIOUS
<1> QED BY <1>1, <1>2

LEMMA SameSequence ==
    ASSUME NEW c \in Seq(Block), NEW d \in Seq(Block), Len(c) = Len(d),
           \A i \in 1 .. Len(c) : c[i] = d[i]
    PROVE  c = d
  OBVIOUS

LEMMA ConservedEmpty == Conserved(<<>>)
<1>1. Len(<<>>) = 0 /\ SubSeq(<<>>, 1, 0) = <<>>
  OBVIOUS
<1> QED BY <1>1 DEF Conserved, Backed

LEMMA ConservedBacked ==
    ASSUME NEW c \in Seq(Block), Conserved(c)
    PROVE  Backed(c)
<1>1. Len(c) \in 0 .. Len(c)
  OBVIOUS
<1>2. SubSeq(c, 1, Len(c)) = c
  BY <1>1, PrefixIs, SameSequence
<1>3. Backed(SubSeq(c, 1, Len(c)))
  BY <1>1 DEF Conserved
<1> QED BY <1>2, <1>3

LEMMA ConservedWithoutTip ==
    ASSUME NEW c \in Seq(Block), c # <<>>, Conserved(c)
    PROVE  Conserved(WithoutTip(c))
<1> DEFINE d == WithoutTip(c)
<1>1. /\ d \in Seq(Block) /\ Len(d) = Len(c) - 1 /\ Len(c) \in Nat \ {0}
      /\ \A i \in 1 .. Len(c) - 1 : d[i] = c[i]
  BY WithoutTipIs
<1> HIDE DEF d
<1>2. ASSUME NEW n \in 0 .. Len(d) PROVE Backed(SubSeq(d, 1, n))
  <2>1. n \in 0 .. Len(c) /\ \A i \in 1 .. n : i \in 1 .. Len(c) - 1
    BY <1>1
  <2>2. SubSeq(d, 1, n) = SubSeq(c, 1, n)
    BY <1>1, <2>1, PrefixIs, SameSequence
  <2>3. Backed(SubSeq(c, 1, n))
    BY <2>1 DEF Conserved
  <2> QED BY <2>2, <2>3
<1> QED BY <1>2 DEF Conserved, d

LEMMA ConservedAppend ==
    ASSUME NEW c \in Seq(Block), Conserved(c), NEW b \in Block, Backed(Append(c, b))
    PROVE  Conserved(Append(c, b))
<1> DEFINE d == Append(c, b)
<1>1. /\ d \in Seq(Block) /\ Len(d) = Len(c) + 1 /\ Len(c) \in Nat
      /\ \A i \in 1 .. Len(c) : d[i] = c[i]
  OBVIOUS
<1> HIDE DEF d
<1>2. ASSUME NEW n \in 0 .. Len(d) PROVE Backed(SubSeq(d, 1, n))
  <2>1. CASE n = Len(d)
    <3>1. SubSeq(d, 1, n) = d
      BY <1>1, <2>1, PrefixIs, SameSequence
    <3> QED BY <3>1 DEF d
  <2>2. CASE n # Len(d)
    <3>1. n \in 0 .. Len(c) /\ \A i \in 1 .. n : i \in 1 .. Len(c)
      BY <1>1, <2>2
    <3>2. SubSeq(d, 1, n) = SubSeq(c, 1, n)
      BY <1>1, <3>1, PrefixIs, SameSequence
    <3>3. Backed(SubSeq(c, 1, n))
      BY <3>1 DEF Conserved
    <3> QED BY <3>2, <3>3
  <2> QED BY <2>1, <2>2
<1> QED BY <1>2 DEF Conserved, d

\* The supply of a longer chain, and its first block.
LEMMA SupplyAppend ==
    ASSUME NEW c \in Seq(Block), NEW b \in Block
    PROVE  /\ GetTotalCirculatingSupply(Append(c, b)) = GetTotalCirculatingSupply(c) + b.reward
           /\ GetTotalCirculatingSupply(<<>>) = 0
           /\ c # <<>> => Append(c, b)[1] = c[1] /\ c[1].reward \in Nat
<1> DEFINE d == Append(c, b)
           n == Len(c)
<1>1. /\ d \in Seq(Block) /\ Len(d) = n + 1 /\ n \in Nat /\ d[n + 1] = b
      /\ \A i \in 1 .. n : d[i] = c[i]
  OBVIOUS
<1> HIDE DEF d
<1>2. /\ SupplyAt(d)[n + 1] = SupplyAt(d)[n] + b.reward
  <2>1. n + 1 \in 1 .. Len(d) /\ (n + 1) - 1 = n
    BY <1>1
  <2> HIDE DEF n
  <2> QED BY <1>1, <2>1, SupplyIs
<1>3. SupplyAt(d)[n] = SupplyAt(c)[n]
  <2>1. n <= Len(d) /\ n \in 0 .. n
    BY <1>1
  <2> QED BY <1>1, <2>1, SupplyAgrees
<1>4. GetTotalCirculatingSupply(d) = GetTotalCirculatingSupply(c) + b.reward
  BY <1>1, <1>2, <1>3 DEF GetTotalCirculatingSupply
<1>5. GetTotalCirculatingSupply(<<>>) = 0
  <2>1. <<>> \in Seq(Block) /\ Len(<<>>) = 0
    OBVIOUS
  <2> QED BY <2>1, SupplyIs DEF GetTotalCirculatingSupply
<1>6. ASSUME c # <<>> PROVE d[1] = c[1] /\ c[1].reward \in Nat
  <2>1. 1 \in 1 .. n
    BY <1>1, <1>6
  <2> QED BY <1>1, <2>1, BlockFields
<1> QED BY <1>4, <1>5, <1>6 DEF d

\* A block whose transfers could be paid, and whose miner has an account, mints
\* its reward and no more.
LEMMA BackedAppend ==
    ASSUME Finite(Accounts), MaxSupply < Word,
           NEW c \in Seq(Block), c # <<>>, Backed(c), NEW b \in Block,
           b.miner \in Accounts, b.miner # SYSTEM_GENESIS,
           Total(ReplayTransfers(Replay(c), b.txs)) + FeeTotal(b.txs) = Total(Replay(c)),
           GetTotalCirculatingSupply(Append(c, b)) <= MaxSupply
    PROVE  Backed(Append(c, b))
<1> DEFINE spent == ReplayTransfers(Replay(c), b.txs)
           fee == FeeTotal(b.txs)
           d == Append(c, b)
           first == c[1].reward
           supply == GetTotalCirculatingSupply(c)
           w == Word
<1>1. b.txs \in Seq(Transfers) /\ b.reward \in Nat
  BY BlockFields
<1>2. /\ spent \in LedgerStates /\ fee \in Nat /\ Total(spent) \in Nat
      /\ Total(Replay(c)) \in Nat /\ supply \in Nat /\ first \in Nat /\ w \in Nat
  BY <1>1, ReplayTyped, ReplayTransfersTyped, FeeTotalTyped, TotalTyped, SupplyNat,
     SupplyAppend, WordPositive
<1>3. /\ GetTotalCirculatingSupply(d) = supply + b.reward /\ d[1] = c[1]
      /\ Total(Replay(c)) + first = supply
  BY SupplyAppend DEF Backed
<1>4. Replay(d) = Credit(spent, b.miner, Plus(b.reward, fee))
  BY ReplayAppend DEF RebuildState
<1> HIDE DEF spent, fee, d, first, supply
<1>5. Total(spent) + fee = Total(Replay(c)) /\ supply + b.reward < w /\ MaxSupply \in Nat
  BY <1>1, <1>2, <1>3, SupplyAssumption DEF spent, fee, d, supply
<1> DEFINE k == Total(spent)
<1>6. k \in Nat /\ (k + fee) + first = supply
  BY <1>2, <1>3, <1>5
<1> HIDE DEF k, w
<1>7. b.reward + fee < w /\ k + (b.reward + fee) < w
  BY <1>1, <1>2, <1>5, <1>6
<1>8. Plus(b.reward, fee) = b.reward + fee
  BY <1>1, <1>2, <1>7, PlusSmall DEF w
<1>9. Total(Replay(d)) = k + (b.reward + fee)
  <2>1. b.reward + fee \in Nat
    BY <1>1, <1>2
  <2> QED BY <1>2, <1>4, <1>7, <1>8, <2>1, TotalCredit DEF k, w
<1>10. (k + (b.reward + fee)) + first = supply + b.reward
  BY <1>1, <1>2, <1>6
<1>11. Total(Replay(d)) + d[1].reward = GetTotalCirculatingSupply(d)
  BY <1>3, <1>9, <1>10 DEF first
<1> QED BY <1>11 DEF Backed, d

\* What a transfer takes from its sender fits in a word.  MineBlock does not check
\* it (ledger.go:350): one that overflows costs its sender less than the recipient
\* and the miner get of it, and so creates units.
NoTransferOverflows == \A tx \in Transfers : tx.value + tx.fee < Word

\* The conditions of conservation: finitely many addresses, no overflow.
NothingOverflows == Finite(Addr) /\ MaxSupply < Word /\ NoTransferOverflows

\* What a call holds of the units: the fees it has collected and, once its block
\* is in the chain, the block's reward.
FundsCall(t) ==
    /\ pc[t] \in Making
         => Total(State) + feeTotal[t] + Chain[1].reward = GetTotalCirculatingSupply(Chain)
    /\ pc[t] = "saved"
         => Total(State) + (newBlock[t].reward + feeTotal[t]) + Chain[1].reward
              = GetTotalCirculatingSupply(Chain)

ValueInv ==
    /\ Conserved(Chain)
    /\ status = "down" => Conserved(LoadedChain) \/ LoadedChain = <<LegacyGenesis>>
    /\ \A t \in Threads : FundsCall(t)

LEMMA FiniteAccounts == NothingOverflows => Finite(Accounts)
  BY FiniteMore DEF NothingOverflows, Accounts

\* Numbers of a running ledger.
LEMMA FundsTyped ==
    ASSUME NothingOverflows, TypeInv, SerialInv, status = "up"
    PROVE  /\ Total(State) \in Nat /\ Chain[1].reward \in Nat
           /\ GetTotalCirculatingSupply(Chain) \in Nat
           /\ GetTotalCirculatingSupply(Chain) < Word /\ Word \in Nat
           /\ Chain \in Seq(Block) /\ Chain # <<>> /\ State \in LedgerStates
           /\ GetTotalCirculatingSupply(Chain) <= MaxSupply
<1>1. Chain \in Seq(Block) /\ Chain # <<>> /\ State \in LedgerStates
  BY DEF TypeInv, MemoryTyped, MemorySound
<1>2. 1 \in 1 .. Len(Chain) /\ Len(Chain) \in 1 .. Len(Chain)
  BY <1>1
<1>3. Chain[1] \in Block
  BY <1>1, <1>2
<1>4. Chain[1].reward \in Nat
  BY <1>3, BlockFields
<1>5. GetTotalCirculatingSupply(Chain) <= MaxSupply
  BY <1>2 DEF SerialInv, ChainInv, GoodChain, GetTotalCirculatingSupply
<1>6. /\ Total(State) \in Nat /\ GetTotalCirculatingSupply(Chain) \in Nat /\ Word \in Nat
      /\ MaxSupply \in Nat /\ MaxSupply < Word
  BY <1>1, FiniteAccounts, TotalTyped, SupplyNat, WordPositive, SupplyAssumption
     DEF NothingOverflows
<1> QED BY <1>1, <1>4, <1>5, <1>6

\* A step of the only call that leaves the chain alone.
LEMMA FundsOneCall ==
    ASSUME OneCaller, ValueInv, NEW t \in Threads, status = "up", status' = status,
           Chain' = Chain, FundsCall(t)'
    PROVE  ValueInv'
<1>1. \A u \in Threads : FundsCall(u)'
  BY DEF OneCaller
<1> QED BY <1>1 DEF ValueInv

LEMMA FundsBegins ==
    ASSUME NothingOverflows, OneCaller, TypeInv, SerialInv, MakingInv, BalanceInv, ValueInv,
           NEW t \in Threads, MineBlock(t)
    PROVE  ValueInv'
<1>1. /\ pc[t] = "idle" /\ pc'[t] = "selecting" /\ reorg = NoReorg
      /\ status = "up" /\ status' = status
      /\ Chain' = Chain /\ State' = State /\ feeTotal' = feeTotal
  BY DEF MineBlock, CanMine, memory, TypeInv, CallsTyped
<1>2. feeTotal[t] = 0
  BY <1>1 DEF MakingInv, MakingCall
<1>3. SameBalances(State, Replay(Chain))
  <2>1. Resting
    BY <1>1 DEF OneCaller, Resting
  <2> QED BY <1>1, <2>1, NoReorgTyped DEF BalanceInv
<1>4. Total(State) = Total(Replay(Chain))
  BY <1>3, TotalSame
<1>5. Total(Replay(Chain)) + Chain[1].reward = GetTotalCirculatingSupply(Chain)
  BY <1>1, FundsTyped, ConservedBacked DEF ValueInv, Backed
<1>6. Total(State) \in Nat
  BY <1>1, FundsTyped
<1>7. Total(State) + 0 + Chain[1].reward = GetTotalCirculatingSupply(Chain)
  BY <1>4, <1>5, <1>6
<1>8. FundsCall(t)'
  BY <1>1, <1>2, <1>7 DEF FundsCall
<1> QED BY <1>1, <1>8, FundsOneCall

LEMMA FundsSelects ==
    ASSUME NothingOverflows, OneCaller, TypeInv, SerialInv, ValueInv, NEW t \in Threads,
           SelectTransfer(t)
    PROVE  ValueInv'
<1> DEFINE tx == Candidate(t)
<1>1. /\ pc[t] = "selecting" /\ pc' = pc /\ cursor[t] <= Len(Mempool)
      /\ State[tx.from].balance >= Cost(tx)
      /\ State' = Credit([State EXCEPT ![tx.from].balance = @ - Cost(tx),
                                       ![tx.from].nonce   = @ + 1], tx.to, tx.value)
      /\ feeTotal' = [feeTotal EXCEPT ![t] = Plus(@, tx.fee)]
      /\ Chain' = Chain /\ status' = status
  BY DEF SelectTransfer, AtTransfer, Affordable
<1>2. tx \in Transfers
  <2>1. cursor[t] \in 1 .. Len(Mempool)
    BY <1>1 DEF TypeInv, CallsTyped, CallsSound, CallSound, MemoryTyped
  <2> QED BY <2>1 DEF Candidate, TypeInv, MemoryTyped
<1> HIDE DEF tx
<1>3. status = "up"
  BY <1>1, CallUp
<1>4. /\ Total(State) \in Nat /\ Chain[1].reward \in Nat /\ State \in LedgerStates
      /\ GetTotalCirculatingSupply(Chain) \in Nat
      /\ GetTotalCirculatingSupply(Chain) < Word /\ Word \in Nat
  BY <1>3, FundsTyped
<1>5. State' = ReplayTransfer(State, tx)
  BY <1>1, <1>2, <1>4, PaidAsReplayed
<1>6. Total(State) + feeTotal[t] + Chain[1].reward = GetTotalCirculatingSupply(Chain)
  BY <1>1 DEF ValueInv, FundsCall, Making
<1>7. feeTotal[t] \in Nat /\ tx.fee \in Nat /\ tx.value + tx.fee < Word
  BY <1>2, TransferFields DEF TypeInv, CallsTyped, NothingOverflows, NoTransferOverflows
<1> DEFINE n == Total(State)
           f == feeTotal[t]
           e == tx.fee
           w == Word
           first == Chain[1].reward
           supply == GetTotalCirculatingSupply(Chain)
<1>8. /\ n \in Nat /\ f \in Nat /\ e \in Nat /\ w \in Nat /\ first \in Nat /\ supply \in Nat
      /\ n + f + first = supply /\ supply < w
  BY <1>4, <1>6, <1>7
<1>9. n < w
  <2> HIDE DEF n, f, e, w, first, supply
  <2> QED BY <1>8
<1>10. Total(State') + e = n /\ e <= n
  BY <1>1, <1>2, <1>4, <1>5, <1>7, <1>9, FiniteAccounts, TotalPays
<1>11. Total(State') \in Nat
  BY <1>2, <1>4, <1>5, FiniteAccounts, ReplayTransferTyped, TotalTyped
<1> DEFINE k == Total(State')
<1>12. k \in Nat /\ k + e = n
  BY <1>10, <1>11
<1>13. f + e < w /\ k + (f + e) + first = supply
  <2> HIDE DEF n, f, e, w, first, supply, k
  <2> QED BY <1>8, <1>10, <1>12
<1>14. feeTotal'[t] = f + e
  <2>1. feeTotal'[t] = Plus(f, e)
    BY <1>1 DEF TypeInv, CallsTyped
  <2> QED BY <1>8, <1>13, <2>1, PlusSmall
<1>15. Total(State') + feeTotal'[t] + Chain'[1].reward = GetTotalCirculatingSupply(Chain')
  BY <1>1, <1>13, <1>14
<1>16. FundsCall(t)'
  BY <1>1, <1>15 DEF FundsCall
<1> QED BY <1>1, <1>3, <1>16, FundsOneCall

LEMMA FundsPrepares ==
    ASSUME OneCaller, TypeInv, MakingInv, ValueInv, NEW t \in Threads,
           \/ SkipTransfer(t) \/ FinishSelection(t) \/ ComputeReward(t)
           \/ AdjustDifficulty(t) \/ AssembleBlock(t) \/ MineAndValidate(t)
    PROVE  ValueInv'
<1> USE DEF memory
<1>0. pc \in [Threads -> PcStates]
  BY DEF TypeInv, CallsTyped
<1>1. /\ pc[t] \in Making /\ Chain' = Chain /\ State' = State /\ status' = status
  BY DEF SkipTransfer, FinishSelection, ComputeReward, AdjustDifficulty, AssembleBlock,
     MineAndValidate, AtTransfer, Making
<1>2. (pc'[t] \in Making /\ feeTotal' = feeTotal) \/ pc'[t] = "panicked"
  <2>1. CASE MineAndValidate(t)
    BY <2>1, MakingMines DEF Making
  <2>2. CASE \/ SkipTransfer(t) \/ FinishSelection(t) \/ ComputeReward(t)
             \/ AdjustDifficulty(t) \/ AssembleBlock(t)
    BY <1>0, <2>2 DEF SkipTransfer, FinishSelection, ComputeReward, AdjustDifficulty,
       AssembleBlock, AtTransfer, Making
  <2> QED BY <2>1, <2>2
<1>3. FundsCall(t)
  BY DEF ValueInv
<1>4. pc[t] # "idle" /\ pc[t] # "saved" /\ pc'[t] # "saved"
  BY <1>1, <1>2 DEF Making
<1>5. FundsCall(t)'
  BY <1>1, <1>2, <1>3, <1>4 DEF FundsCall, Making
<1>6. status = "up"
  BY <1>4, CallUp
<1> QED BY <1>1, <1>5, <1>6, FundsOneCall

LEMMA FundsCommit ==
    ASSUME NothingOverflows, OneCaller, DiskFaults = FALSE, TypeInv, SerialInv, SerialInv',
           MakingInv, BalanceInv, ValueInv, NEW t \in Threads, CommitBlock(t)
    PROVE  ValueInv'
<1> DEFINE b == newBlock[t]
<1>1. /\ pc[t] = "mined" /\ pc'[t] = "saved" /\ Chain' = Append(Chain, b)
      /\ State' = State /\ newBlock' = newBlock /\ feeTotal' = feeTotal /\ status' = status
  BY DEF CommitBlock, AppendBlock, TypeInv, CallsTyped
<1>2. status = "up"
  BY <1>1, CallUp
<1>3. /\ Total(State) \in Nat /\ Chain[1].reward \in Nat /\ Chain \in Seq(Block)
      /\ GetTotalCirculatingSupply(Chain) \in Nat /\ Chain # <<>>
      /\ GetTotalCirculatingSupply(Chain) < Word /\ Word \in Nat
  BY <1>2, FundsTyped
<1>4. b \in Block /\ b.reward \in Nat /\ feeTotal[t] \in Nat
  BY BlockFields DEF TypeInv, CallsTyped
<1>5. /\ b.miner = MinerAddress /\ MinerAddress \in Accounts /\ MinerAddress # SYSTEM_GENESIS
  BY <1>1 DEF MakingInv, MakingCall, BalanceInv
<1>6. /\ feeTotal[t] = FeeTotal(b.txs)
      /\ SameBalances(State, ReplayTransfers(Replay(Chain), b.txs))
  BY <1>1 DEF BalanceInv, PaysCall, Making
<1>7. Total(State) + feeTotal[t] + Chain[1].reward = GetTotalCirculatingSupply(Chain)
  BY <1>1 DEF ValueInv, FundsCall, Making
<1>8. Backed(Chain) /\ Conserved(Chain)
  BY <1>3, ConservedBacked DEF ValueInv
<1> DEFINE d == Append(Chain, b)
<1>9. /\ d \in Seq(Block) /\ d # <<>> /\ d[1] = Chain[1]
      /\ GetTotalCirculatingSupply(d) = GetTotalCirculatingSupply(Chain) + b.reward
  BY <1>3, <1>4, SupplyAppend, AppendedTip
<1> HIDE DEF b
<1>10. GetTotalCirculatingSupply(d) <= MaxSupply
  <2>1. GoodChain(d)
    BY <1>1 DEF SerialInv, ChainInv
  <2>2. Len(d) \in 1 .. Len(d)
    BY <1>9
  <2> QED BY <2>1, <2>2 DEF GoodChain, GetTotalCirculatingSupply
<1>11. Total(ReplayTransfers(Replay(Chain), b.txs)) + FeeTotal(b.txs) = Total(Replay(Chain))
  <2> DEFINE n == Total(State)
             k == Total(Replay(Chain))
             f == feeTotal[t]
             first == Chain[1].reward
             supply == GetTotalCirculatingSupply(Chain)
  <2>1. k + first = supply
    BY <1>3, <1>8 DEF Backed
  <2>2. /\ n \in Nat /\ f \in Nat /\ first \in Nat /\ n + f + first = supply /\ k \in Nat
    BY <1>3, <1>4, <1>7, FiniteAccounts, ReplayTyped, TotalTyped
  <2>3. n = Total(ReplayTransfers(Replay(Chain), b.txs))
    BY <1>6, TotalSame
  <2>4. n + f = k
    <3> HIDE DEF n, k, f, first, supply
    <3> QED BY <2>1, <2>2
  <2> QED BY <1>6, <2>3, <2>4
<1>12. MaxSupply < Word
  BY DEF NothingOverflows
<1>13. Backed(d)
  BY <1>3, <1>4, <1>5, <1>8, <1>10, <1>11, <1>12, FiniteAccounts, BackedAppend
<1>14. Conserved(Chain')
  BY <1>1, <1>3, <1>4, <1>8, <1>13, ConservedAppend
<1>15. newBlock'[t] = b
  BY <1>1 DEF b
<1>16. Total(State') + (newBlock'[t].reward + feeTotal'[t]) + Chain'[1].reward
          = GetTotalCirculatingSupply(Chain')
  <2> DEFINE n == Total(State)
             f == feeTotal[t]
             r == b.reward
             first == Chain[1].reward
             supply == GetTotalCirculatingSupply(Chain)
  <2>1. /\ n \in Nat /\ f \in Nat /\ r \in Nat /\ first \in Nat /\ supply \in Nat
        /\ n + f + first = supply
    BY <1>3, <1>4, <1>7
  <2>2. n + (r + f) + first = supply + r
    <3> HIDE DEF n, f, r, first, supply
    <3> QED BY <2>1
  <2> QED BY <1>1, <1>9, <1>15, <2>2
<1>17. FundsCall(t)'
  BY <1>1, <1>16 DEF FundsCall, Making
<1>18. \A u \in Threads : FundsCall(u)'
  BY <1>17 DEF OneCaller
<1>19. status' # "down"
  BY <1>1, <1>2
<1> QED BY <1>14, <1>18, <1>19 DEF ValueInv

\* The chain is left alone and no call is under way.
LEMMA FundsIdle ==
    ASSUME ValueInv, \A t \in Threads : pc'[t] \in {"idle", "panicked"}, Chain' = Chain,
           status' # "down"
    PROVE  ValueInv'
<1>1. \A t \in Threads : FundsCall(t)'
  BY DEF FundsCall, Making
<1> QED BY <1>1 DEF ValueInv

LEMMA FundsReturns ==
    ASSUME OneCaller, TypeInv, ValueInv, NEW t \in Threads,
           CreditMiner(t) \/ RejectMiner(t) \/ RecoverPanic(t)
    PROVE  ValueInv'
<1>1. /\ pc'[t] \in {"idle", "panicked"} /\ Chain' = Chain /\ status' = status
      /\ status = "up"
  <2>1. CASE CreditMiner(t)
    <3>1. pc[t] # "idle"
      BY <2>1 DEF CreditMiner
    <3> QED BY <2>1, <3>1, CallUp DEF CreditMiner, Finish, TypeInv, CallsTyped
  <2>2. CASE RejectMiner(t)
    BY <2>2 DEF RejectMiner, CanMine, memory, TypeInv, CallsTyped
  <2>3. CASE RecoverPanic(t)
    <3>1. pc[t] # "idle"
      BY <2>3 DEF RecoverPanic
    <3> QED BY <2>3, <3>1, CallUp DEF RecoverPanic, memory, TypeInv, CallsTyped
  <2> QED BY <2>1, <2>2, <2>3
<1>2. \A u \in Threads : pc'[u] \in {"idle", "panicked"}
  BY <1>1 DEF OneCaller
<1> QED BY <1>1, <1>2, FundsIdle

\* A start takes over the chain it loads, which is not the legacy genesis.
LEMMA FundsStart ==
    ASSUME TypeInv, ValueInv, NEW m \in MinerChoices, NEW d \in InitialDifficulties,
           InitializeLedger(m, d)
    PROVE  ValueInv'
<1>1. status = "down" /\ status' # "down" /\ pc' = pc
  BY DEF InitializeLedger, locals
<1>2. \A t \in Threads : pc'[t] = "idle"
  BY <1>1 DEF TypeInv, CallsSound, CallSound
<1>3. CASE Chain' = Chain
  BY <1>1, <1>2, <1>3, FundsIdle
<1>4. CASE LoadedChain[1].policy = "current" /\ Chain' = LoadedChain
  <2>1. LoadedChain # <<LegacyGenesis>>
    BY <1>4, GenesisAssumption
  <2>2. Conserved(Chain')
    BY <1>1, <1>4, <2>1 DEF ValueInv
  <2>3. \A t \in Threads : FundsCall(t)'
    BY <1>2 DEF FundsCall, Making
  <2> QED BY <1>1, <2>2, <2>3 DEF ValueInv
<1> QED BY <1>3, <1>4 DEF InitializeLedger

LEMMA OnlyBlock ==
    ASSUME NEW g, NEW c \in Seq(Block), c = <<g>>
    PROVE  g \in Block
<1>1. Len(c) = 1 /\ c[1] = g
  OBVIOUS
<1> QED BY <1>1

\* The reward of the genesis block is in the supply, and in no account.
LEMMA FundsGenesis ==
    ASSUME NothingOverflows, TypeInv, TypeInv', ValueInv, SpawnGenesis
    PROVE  ValueInv'
<1>1. PICK h \in GenesisHashes[TargetDifficulty] :
        Chain' = << [NoBlock EXCEPT !.hash = h, !.work = TargetDifficulty,
                       !.time = GenesisTime, !.diff = TargetDifficulty,
                       !.reward = CalculateBlockReward(0)] >>
  BY DEF SpawnGenesis
<1> DEFINE g == [NoBlock EXCEPT !.hash = h, !.work = TargetDifficulty,
                   !.time = GenesisTime, !.diff = TargetDifficulty,
                   !.reward = CalculateBlockReward(0)]
<1>2. g.txs = <<>> /\ g.miner = SYSTEM_GENESIS
  BY DEF NoBlock
<1>3. Chain' = <<g>>
  BY <1>1
<1> HIDE DEF g
<1>4. status = "spawning" /\ status' # "down" /\ pc' = pc
  BY DEF SpawnGenesis, locals
<1>5. \A t \in Threads : pc'[t] = "idle"
  BY <1>4 DEF TypeInv, CallsSound, CallSound
<1>6. g \in Block
  <2>1. Chain' \in Seq(Block)
    BY DEF TypeInv, MemoryTyped
  <2> QED BY <1>3, <2>1, OnlyBlock
<1>7. <<>> \in Seq(Block) /\ <<g>> = Append(<<>>, g) /\ <<g>>[1] = g
  OBVIOUS
<1>8. GetTotalCirculatingSupply(<<g>>) = g.reward /\ g.reward \in Nat
  <2>1. /\ GetTotalCirculatingSupply(<<g>>) = GetTotalCirculatingSupply(<<>>) + g.reward
        /\ GetTotalCirculatingSupply(<<>>) = 0
    BY <1>6, <1>7, SupplyAppend
  <2>2. g.reward \in Nat
    BY <1>6, BlockFields
  <2> QED BY <2>1, <2>2
<1>9. Total(NoState) = 0
  <2>1. Balances(NoState) = [a \in Accounts |-> 0]
    BY DEF Balances, NoState
  <2> QED BY <2>1, FiniteAccounts, SumOfNothing DEF Total
<1>10. Backed(<<g>>)
  BY <1>2, <1>6, <1>7, <1>8, <1>9, GenesisReplay DEF Backed
<1>11. Conserved(Chain')
  BY <1>3, <1>6, <1>7, <1>10, ConservedEmpty, ConservedAppend
<1>12. \A t \in Threads : FundsCall(t)'
  BY <1>5 DEF FundsCall, Making
<1> QED BY <1>4, <1>11, <1>12 DEF ValueInv

\* What a restart will load is the chain, or the chain before its last block.
LEMMA FundsCrash ==
    ASSUME TypeInv, SerialInv, ValueInv, Crash
    PROVE  ValueInv'
<1>1. /\ status # "down" /\ Chain' = <<>> /\ pc' = PerThread("idle")
      /\ blocks' = blocks /\ lastIndex' = lastIndex
  BY DEF Crash, ProcessEnds, disk
<1>2. \/ LoadedChain = Chain
      \/ Chain # <<>> /\ LoadedChain = WithoutTip(Chain)
  BY <1>1, RunningLoads DEF TypeInv, SerialInv
<1>3. Chain \in Seq(Block) /\ Conserved(Chain)
  BY DEF TypeInv, MemoryTyped, ValueInv
<1>4. Conserved(LoadedChain)
  BY <1>2, <1>3, ConservedWithoutTip
<1>5. LoadedChain' = LoadedChain
  BY <1>1, SameLoaded
<1>6. \A t \in Threads : FundsCall(t)'
  <2>1. \A t \in Threads : pc'[t] = "idle"
    BY <1>1 DEF PerThread
  <2> QED BY <2>1 DEF FundsCall, Making
<1>7. Conserved(Chain') /\ Conserved(LoadedChain')
  BY <1>1, <1>4, <1>5, ConservedEmpty
<1> QED BY <1>6, <1>7 DEF ValueInv

\* Queueing a transfer moves no balance.
LEMMA FundsQueue ==
    ASSUME TypeInv, ValueInv, NEW tx \in Transfers, AddToMempool(tx)
    PROVE  ValueInv'
<1>1. /\ State' = [State EXCEPT ![tx.from].nonce = tx.nonce] /\ Chain' = Chain
      /\ pc' = pc /\ newBlock' = newBlock /\ feeTotal' = feeTotal
      /\ status = "up" /\ status' = status
  BY DEF AddToMempool, locals
<1>2. State \in LedgerStates
  BY DEF TypeInv, MemoryTyped
<1>3. SameBalances(State', State)
  BY <1>1, <1>2 DEF SameBalances, LedgerStates
<1>4. Total(State') = Total(State)
  BY <1>3, TotalSame
<1>5. ASSUME NEW t \in Threads PROVE FundsCall(t)'
  BY <1>1, <1>4 DEF ValueInv, FundsCall
<1> QED BY <1>1, <1>5 DEF ValueInv

\* A rollback takes the units of the tip out of the supply.
LEMMA FundsRollback ==
    ASSUME TypeInv, ValueInv, RollbackBlock
    PROVE  ValueInv'
<1>1. /\ status = "up" /\ status' = status /\ Idle /\ pc' = pc
      /\ Len(Chain) > 1 /\ Chain' = WithoutTip(Chain)
  BY DEF RollbackBlock, CanReorg, locals, WithoutTip
<1>2. Chain \in Seq(Block) /\ Chain # <<>> /\ Conserved(Chain)
  BY <1>1 DEF TypeInv, MemoryTyped, MemorySound, ValueInv
<1>3. Conserved(Chain')
  BY <1>1, <1>2, ConservedWithoutTip
<1>4. \A t \in Threads : FundsCall(t)'
  BY <1>1 DEF FundsCall, Making, Idle
<1> QED BY <1>1, <1>3, <1>4 DEF ValueInv

\* A block of a peer without transfers mints its reward.
LEMMA FundsAppend ==
    ASSUME NothingOverflows, PeerTransfers \subseteq {<<>>},
           SYSTEM_GENESIS \notin MinerChoices,
           TypeInv, TypeInv', SerialInv, SerialInv', ValueInv,
           CanReorg, NEW b \in PeerBlocks, AppendBlockDirectly(b)
    PROVE  ValueInv'
<1>1. /\ status = "up" /\ status' = status /\ Idle /\ pc' = pc
      /\ Chain' = Append(Chain, b) /\ reorg'.block = b
  BY DEF AppendBlockDirectly, AppendBlock, CanReorg, locals
<1>2. b \in Block
  BY <1>1 DEF TypeInv, MemoryTyped
<1>3. b.txs \in PeerTransfers /\ b.miner \in MinerChoices
  BY DEF PeerBlocks
<1>4. b.txs = <<>> /\ b.miner \in Accounts /\ b.miner # SYSTEM_GENESIS
  <2>1. b.miner = SYSTEM_GENESIS \/ b.miner \in Addr
    BY DEF AppendBlockDirectly, ValidateBlockConsensus, HasPrefix
  <2> QED BY <1>3, <2>1 DEF Accounts
<1>5. Chain \in Seq(Block) /\ Chain # <<>> /\ Conserved(Chain) /\ Backed(Chain)
  BY <1>1, FundsTyped, ConservedBacked DEF ValueInv
<1> DEFINE d == Append(Chain, b)
           before == Replay(Chain)
<1>6. Total(ReplayTransfers(before, b.txs)) + FeeTotal(b.txs) = Total(before)
  <2>1. before \in LedgerStates
    BY <1>5, ReplayTyped
  <2> HIDE DEF before
  <2>2. Total(before) \in Nat
    BY <2>1, FiniteAccounts, TotalTyped
  <2>3. ReplayTransfers(before, b.txs) = before /\ FeeTotal(b.txs) = 0
    BY <1>4, <2>1, NothingPaid
  <2> QED BY <2>2, <2>3
<1>7. GetTotalCirculatingSupply(d) <= MaxSupply
  <2>1. GoodChain(d)
    BY <1>1 DEF SerialInv, ChainInv
  <2>2. Len(d) \in 1 .. Len(d)
    BY <1>2, <1>5, AppendedTip
  <2> QED BY <2>1, <2>2 DEF GoodChain, GetTotalCirculatingSupply
<1>8. Backed(d)
  BY <1>2, <1>4, <1>5, <1>6, <1>7, FiniteAccounts, BackedAppend DEF NothingOverflows
<1>9. Conserved(Chain')
  BY <1>1, <1>2, <1>5, <1>8, ConservedAppend
<1>10. \A t \in Threads : FundsCall(t)'
  BY <1>1 DEF FundsCall, Making, Idle
<1> QED BY <1>1, <1>9, <1>10 DEF ValueInv

\* The second halves of both, and of a start.
LEMMA FundsFinish ==
    ASSUME TypeInv, SerialInv, ValueInv, FinishRollback \/ FinishAppend \/ IndexGenesis
    PROVE  ValueInv'
<1>1. Chain' = Chain /\ pc' = pc
  BY DEF FinishRollback, FinishAppend, IndexGenesis, memory, locals
<1>2. (\A t \in Threads : pc[t] = "idle") /\ status' # "down"
  <2>1. CASE FinishRollback \/ FinishAppend
    <3>1. reorg # NoReorg /\ status' = status
      BY <2>1, NoReorgTyped DEF FinishRollback, FinishAppend
    <3> QED BY <3>1 DEF SerialInv, SerialCall, TypeInv, MemorySound
  <2>2. CASE IndexGenesis
    BY <2>2 DEF IndexGenesis, TypeInv, CallsSound, CallSound
  <2> QED BY <2>1, <2>2
<1> QED BY <1>1, <1>2, FundsIdle

LEMMA FundsNext ==
    ASSUME OneCaller, DiskFaults = FALSE, SYSTEM_GENESIS \notin MinerChoices,
           NothingOverflows, PeerTransfers \subseteq {<<>>},
           TypeInv, TypeInv', SerialInv, SerialInv', MakingInv, BalanceInv, ValueInv,
           [Next]_vars
    PROVE  ValueInv'
<1>1. ASSUME NEW m \in MinerChoices, NEW d \in InitialDifficulties, InitializeLedger(m, d)
      PROVE  ValueInv'
  BY <1>1, FundsStart
<1>2. CASE SpawnGenesis
  BY <1>2, FundsGenesis
<1>3. CASE Crash
  BY <1>3, FundsCrash
<1>4. ASSUME NEW t \in Threads, MineStep(t) \/ RecoverPanic(t) PROVE ValueInv'
  BY <1>4, FundsBegins, FundsSelects, FundsPrepares, FundsCommit, FundsReturns DEF MineStep
<1>5. ASSUME NEW tx \in Transfers, AddToMempool(tx) PROVE ValueInv'
  BY <1>5, FundsQueue
<1>6. CASE RollbackBlock
  BY <1>6, FundsRollback
<1>7. ASSUME CanReorg, NEW b \in PeerBlocks, AppendBlockDirectly(b) PROVE ValueInv'
  BY <1>7, FundsAppend
<1>8. CASE FinishRollback \/ FinishAppend \/ IndexGenesis
  BY <1>8, FundsFinish
<1>9. CASE UNCHANGED vars
  <2>1. /\ status' = status /\ Chain' = Chain /\ State' = State /\ pc' = pc
        /\ newBlock' = newBlock /\ feeTotal' = feeTotal
        /\ blocks' = blocks /\ lastIndex' = lastIndex
    BY <1>9 DEF vars, memory, locals, disk
  <2>2. LoadedChain' = LoadedChain
    BY <2>1, SameLoaded
  <2> QED BY <2>1, <2>2 DEF ValueInv, FundsCall
<1> QED BY <1>1, <1>2, <1>3, <1>4, <1>5, <1>6, <1>7, <1>8, <1>9 DEF Next

LEMMA FundsInitial == Init => ValueInv
<1> SUFFICES ASSUME Init PROVE ValueInv
  OBVIOUS
<1>1. Chain = <<>> /\ \A t \in Threads : pc[t] = "idle"
  BY DEF Init, PerThread
<1>2. LoadedChain = <<>> \/ LoadedChain = <<LegacyGenesis>>
  <2>1. StoredChain(LoadedChain)
    BY InitTyped, SerialInitial, LoadsStored
  <2>2. LoadedChain = <<>> \/ LoadedChain[1].policy # "current"
    BY InitTyped, FreshDiskLoads DEF Init, FreshDisk
  <2>3. ASSUME GoodChain(LoadedChain), LoadedChain # <<>> PROVE FALSE
    <3>1. 1 \in 1 .. Len(LoadedChain)
      BY <2>3 DEF GoodChain
    <3> QED BY <2>2, <2>3, <3>1 DEF GoodChain, GoodBlock
  <2> QED BY <2>1, <2>3 DEF StoredChain
<1>3. \A t \in Threads : FundsCall(t)
  BY <1>1 DEF FundsCall, Making
<1> QED BY <1>1, <1>2, <1>3, ConservedEmpty DEF ValueInv

\* What the calls hold, added up over the only one.
Held(t) == IF pc[t] \in {"saved", "unsaved"} THEN newBlock[t].reward ELSE 0

LEMMA ValueHolds ==
    ASSUME NothingOverflows, OneCaller, TypeInv, SerialInv, MakingInv, BalanceInv, ValueInv,
           status = "up", reorg = NoReorg, \A t \in Threads : pc[t] # "panicked"
    PROVE  ValueInLedger = ValueMinted
<1> DEFINE held == [t \in Threads |-> Held(t)]
           n == Total(State)
           first == Chain[1].reward
           supply == GetTotalCirculatingSupply(Chain)
<1>1. /\ n \in Nat /\ first \in Nat /\ supply \in Nat
      /\ Chain \in Seq(Block) /\ Chain # <<>>
  BY FundsTyped
<1>2. feeTotal \in [Threads -> Nat] /\ held \in [Threads -> Nat]
  BY BlockFields DEF TypeInv, CallsTyped, Held
<1>3. Finite(Threads)
  BY FiniteFew DEF OneCaller
<1>4. ValueInLedger = n + SumOver(feeTotal) + SumOver(held)
  BY SumsAre DEF ValueInLedger, Total, Held
<1>5. ValueMinted = supply - first
  BY DEF ValueMinted
<1>6. CASE \A t \in Threads : pc[t] = "idle"
  <2>1. SameBalances(State, Replay(Chain))
    BY <1>6, NoReorgTyped DEF BalanceInv, Resting
  <2>2. n + first = supply
    BY <1>1, <2>1, TotalSame, ConservedBacked DEF ValueInv, Backed
  <2>3. feeTotal = [t \in Threads |-> 0] /\ held = [t \in Threads |-> 0]
    BY <1>2, <1>6 DEF MakingInv, MakingCall, Held
  <2>4. SumOver(feeTotal) = 0 /\ SumOver(held) = 0
    BY <1>3, <2>3, SumOfNothing
  <2> HIDE DEF n, first, supply, held
  <2> QED BY <1>1, <1>4, <1>5, <2>2, <2>4
<1>7. ASSUME NEW t \in Threads, pc[t] # "idle" PROVE ValueInLedger = ValueMinted
  <2>1. SumOver(feeTotal) = feeTotal[t] /\ SumOver(held) = Held(t)
    <3>1. \A u \in Threads : u = t
      BY DEF OneCaller
    <3>2. held[t] = Held(t)
      OBVIOUS
    <3> HIDE DEF held
    <3> QED BY <1>2, <1>3, <3>1, <3>2, SumOfOne
  <2>2. n + feeTotal[t] + Held(t) + first = supply
    <3>1. CASE pc[t] \in Making
      <4>1. Held(t) = 0
        BY <3>1 DEF Held, Making
      <4>2. n + feeTotal[t] + first = supply
        BY <3>1 DEF ValueInv, FundsCall
      <4> QED BY <1>1, <1>2, <4>1, <4>2
    <3>2. CASE pc[t] = "saved"
      <4>1. Held(t) = newBlock[t].reward
        BY <3>2 DEF Held
      <4>2. n + (Held(t) + feeTotal[t]) + first = supply
        BY <3>2, <4>1 DEF ValueInv, FundsCall
      <4>3. Held(t) \in Nat /\ feeTotal[t] \in Nat
        BY <1>2
      <4> HIDE DEF n, first, supply
      <4> QED BY <1>1, <4>2, <4>3
    <3>3. pc[t] \in Making \/ pc[t] = "saved"
      BY <1>7 DEF SerialInv, SerialCall, TypeInv, CallsTyped, PcStates, Making
    <3> QED BY <3>1, <3>2, <3>3
  <2>3. Held(t) \in Nat /\ feeTotal[t] \in Nat
    BY <1>2
  <2> HIDE DEF n, first, supply, held
  <2> QED BY <1>1, <1>4, <1>5, <2>1, <2>2, <2>3
<1> QED BY <1>6, <1>7

\* While one goroutine that is not a request's mines, writes do not fail and no
\* transfer's value and fee overflow, no unit is created or destroyed at any step
\* of a call, by a reorganisation with blocks that carry no transfers, or by a
\* crash: the balances, with the fees and the reward a call holds, are what was
\* minted after the genesis block, unless the process mines for the name that a
\* replay does not credit (ledger.go:175-209, 335-369, 425-436).  An overdraft in
\* a peer's block would create units, since a replay floors the sender at zero
\* (ledger.go:182-186).
THEOREM LedgerValueConserved ==
    ASSUME OneCaller, Handlers = {}, DiskFaults = FALSE, SYSTEM_GENESIS \notin MinerChoices,
           Finite(Addr), MaxSupply < Word, NoTransferOverflows,
           PeerTransfers \subseteq {<<>>}
    PROVE  Spec => []ValueConserved
<1>0. NothingOverflows
  BY DEF NothingOverflows
<1>1. Init => BalanceInv /\ ValueInv
  BY PaysInitial, FundsInitial
<1>2. ASSUME TypeInv, TypeInv', SerialInv, SerialInv', MakingInv, BalanceInv, ValueInv,
             [Next]_vars
      PROVE  (BalanceInv /\ ValueInv)'
  BY <1>0, <1>2, PaysNext, FundsNext
<1>3. TypeInv /\ SerialInv /\ MakingInv /\ BalanceInv /\ ValueInv => ValueConserved
  BY <1>0, ValueHolds DEF ValueConserved
<1>4. Spec => [](TypeInv /\ SerialInv)
  BY SerialInvariant
<1>5. Spec => [](TypeInv /\ MakingInv)
  BY MakingInvariant
<1> QED BY <1>1, <1>2, <1>3, <1>4, <1>5, PTL DEF Spec

-----------------------------------------------------------------------------
(* The units of the ledger while any number of calls race                  *)

\* A sum never exceeds the sum without the word's bound.
LEMMA PlusBound ==
    ASSUME NEW a \in Nat, NEW b \in Nat
    PROVE  Plus(a, b) \in Nat /\ Plus(a, b) <= a + b
<1> DEFINE s == a + b
           w == Word
<1>1. s \in Nat /\ w \in Nat \ {0}
  BY WordPositive
<1> HIDE DEF s, w
<1>2. s % w \in Nat /\ s % w <= s
  BY <1>1
<1> QED BY <1>2 DEF Plus, s, w

\* A credit, even one that overflows or that names no account, adds no more
\* than its amount.
LEMMA CreditBound ==
    ASSUME Finite(Accounts), NEW state \in LedgerStates, NEW name, NEW amount \in Nat
    PROVE  /\ Total(Credit(state, name, amount)) \in Nat
           /\ Total(Credit(state, name, amount)) <= Total(state) + amount
<1> DEFINE after == Credit(state, name, amount)
<1>1. after \in LedgerStates
  BY CreditTyped
<1>2. \A a \in Accounts : after[a].balance
        = IF a = name THEN Plus(state[a].balance, amount) ELSE state[a].balance
  BY CreditBalance
<1> HIDE DEF after
<1>3. Total(state) \in Nat /\ Total(after) \in Nat
  BY <1>1, TotalTyped
<1>4. CASE name \notin Accounts
  <2>1. SameBalances(after, state)
    BY <1>2, <1>4 DEF SameBalances
  <2>2. Total(after) = Total(state)
    BY <2>1, TotalSame
  <2> QED BY <1>3, <2>2 DEF after
<1>5. CASE name \in Accounts
  <2> DEFINE b == state[name].balance
             c == after[name].balance
             n == Total(state)
             k == Total(after)
  <2>1. b \in Nat /\ c \in Nat
    BY <1>1, <1>5, TotalTyped
  <2>2. k + b = n + c
    BY <1>1, <1>2, <1>5, TotalChanges
  <2>3. c <= b + amount
    BY <1>2, <1>5, <2>1, PlusBound
  <2>4. n \in Nat /\ k \in Nat
    BY <1>3
  <2> HIDE DEF b, c, n, k
  <2>5. k <= n + amount
    BY <2>1, <2>2, <2>3, <2>4
  <2> QED BY <1>3, <2>5 DEF n, k, after
<1> QED BY <1>4, <1>5

\* A transfer that its sender can pay takes at least its fee out of the accounts.
LEMMA PaysBound ==
    ASSUME Finite(Accounts), NEW state \in LedgerStates, NEW tx \in Transfers,
           state[tx.from].balance >= Cost(tx), tx.value + tx.fee < Word
    PROVE  /\ Total(ReplayTransfer(state, tx)) \in Nat
           /\ Total(ReplayTransfer(state, tx)) + tx.fee <= Total(state)
<1> DEFINE rest == state[tx.from].balance - Cost(tx)
           spent == [state EXCEPT ![tx.from].balance = rest,
                                  ![tx.from].nonce = state[tx.from].nonce + 1]
<1>1. /\ tx.from \in Accounts /\ tx.to \in Accounts /\ tx.value \in Nat /\ tx.fee \in Nat
      /\ Cost(tx) = tx.value + tx.fee
  BY TransferFields, PlusSmall DEF Cost
<1>2. /\ state[tx.from].balance \in 0 .. Word - 1 /\ state[tx.from].nonce \in Nat
      /\ Word \in Nat
  BY <1>1, WordPositive DEF LedgerStates
<1>3. rest \in 0 .. Word - 1 /\ rest + (tx.value + tx.fee) = state[tx.from].balance
  <2> DEFINE b == state[tx.from].balance
             c == Cost(tx)
             w == Word
  <2>1. b \in 0 .. w - 1 /\ b >= c /\ c \in Nat /\ w \in Nat
    BY <1>1, <1>2
  <2> HIDE DEF b, c, w
  <2>2. b - c \in 0 .. w - 1 /\ (b - c) + c = b
    BY <2>1
  <2> QED BY <1>1, <2>2 DEF b, c, w
<1>4. ReplayTransfer(state, tx) = Credit(spent, tx.to, tx.value)
  BY DEF ReplayTransfer
<1> HIDE DEF rest
<1>5. spent \in LedgerStates
  BY <1>2, <1>3, DebitTyped
<1>6. /\ spent[tx.from].balance = rest
      /\ \A x \in Accounts : x # tx.from => spent[x].balance = state[x].balance
  BY <1>1 DEF LedgerStates
<1> HIDE DEF spent
<1>7. Total(spent) + state[tx.from].balance = Total(state) + rest
  BY <1>1, <1>5, <1>6, TotalChanges
<1>8. /\ Total(Credit(spent, tx.to, tx.value)) \in Nat
      /\ Total(Credit(spent, tx.to, tx.value)) <= Total(spent) + tx.value
  BY <1>1, <1>5, CreditBound
<1>9. Total(spent) \in Nat /\ Total(state) \in Nat
  BY <1>5, TotalTyped
<1> DEFINE n == Total(state)
           k == Total(spent)
           b == state[tx.from].balance
           v == tx.value
           e == tx.fee
           z == Total(Credit(spent, tx.to, tx.value))
<1>10. /\ n \in Nat /\ k \in Nat /\ b \in Nat /\ v \in Nat /\ e \in Nat /\ z \in Nat
       /\ rest \in Nat /\ k + b = n + rest /\ rest + (v + e) = b /\ z <= k + v
  BY <1>1, <1>2, <1>3, <1>7, <1>8, <1>9
<1> HIDE DEF n, k, b, v, e, z
<1>11. z + e <= n
  BY <1>10
<1> QED BY <1>4, <1>10, <1>11 DEF n, e, z

\* The units that exist: the balances, and what the calls hold.
HeldBy == [t \in Threads |-> Held(t)]
Circulating == Total(State) + SumOver(feeTotal) + SumOver(HeldBy)

\* Nothing circulates before there is a chain; then no more than its blocks
\* minted after the first.
MintedInv ==
    /\ reorg = NoReorg
    /\ Chain = <<>> => Circulating = 0
    /\ Chain # <<>> => Circulating + Chain[1].reward <= GetTotalCirculatingSupply(Chain)

\* Finitely many calls and addresses, and no transfer that overflows.
FewUnits == Finite(Threads) /\ Finite(Addr) /\ NoTransferOverflows

UnitsTyped ==
    /\ Finite(Accounts) /\ Finite(Threads) /\ State \in LedgerStates
    /\ feeTotal \in [Threads -> Nat] /\ HeldBy \in [Threads -> Nat]
    /\ \A t \in Threads : HeldBy[t] = Held(t)
    /\ Total(State) \in Nat /\ SumOver(feeTotal) \in Nat /\ SumOver(HeldBy) \in Nat
    /\ Circulating \in Nat

LEMMA CirculatingTyped == FewUnits /\ TypeInv => UnitsTyped
<1> SUFFICES ASSUME FewUnits, TypeInv PROVE UnitsTyped
  OBVIOUS
<1>1. Finite(Accounts) /\ Finite(Threads)
  BY FiniteMore DEF FewUnits, Accounts
<1>2. State \in LedgerStates /\ feeTotal \in [Threads -> Nat]
  BY DEF TypeInv, MemoryTyped, CallsTyped
<1>3. HeldBy \in [Threads -> Nat] /\ \A t \in Threads : HeldBy[t] = Held(t)
  BY BlockFields DEF HeldBy, Held, TypeInv, CallsTyped
<1>4. Total(State) \in Nat
  BY <1>1, <1>2, TotalTyped
<1>5. SumOver(feeTotal) \in Nat /\ SumOver(HeldBy) \in Nat
  <2> DEFINE h == HeldBy
  <2> HIDE DEF h
  <2>1. SumOver(feeTotal) \in Nat
    BY <1>1, <1>2, SumTyped
  <2>2. SumOver(h) \in Nat
    BY <1>1, <1>3, SumTyped DEF h
  <2> QED BY <2>1, <2>2 DEF h
<1> QED BY <1>1, <1>2, <1>3, <1>4, <1>5 DEF Circulating, UnitsTyped

LEMMA CirculatingStays ==
    ASSUME FewUnits, TypeInv'
    PROVE  UnitsTyped'
<1>1. FewUnits'
  BY DEF FewUnits
<1> QED BY <1>1, CirculatingTyped, PTL

\* One call moves units between the accounts, its fees and its reward.
LEMMA OneCallMoves ==
    ASSUME FewUnits, TypeInv, TypeInv', NEW t \in Threads,
           \A u \in Threads : u # t => feeTotal'[u] = feeTotal[u],
           \A u \in Threads : u # t => Held(u)' = Held(u)
    PROVE  Circulating' + (Total(State) + feeTotal[t] + Held(t))
             = Circulating + (Total(State') + feeTotal'[t] + Held(t)')
<1> DEFINE f == feeTotal
           g == feeTotal'
           h == HeldBy
           k == HeldBy'
<1>1. /\ Finite(Threads) /\ f \in [Threads -> Nat] /\ h \in [Threads -> Nat]
      /\ \A u \in Threads : h[u] = Held(u)
      /\ Total(State) \in Nat /\ SumOver(f) \in Nat /\ SumOver(h) \in Nat
  BY CirculatingTyped DEF UnitsTyped
<1>2. /\ g \in [Threads -> Nat] /\ k \in [Threads -> Nat]
      /\ \A u \in Threads : k[u] = Held(u)'
      /\ Total(State') \in Nat /\ SumOver(g) \in Nat /\ SumOver(k) \in Nat
  BY CirculatingStays DEF UnitsTyped
<1>3. /\ Circulating = Total(State) + SumOver(f) + SumOver(h)
      /\ Circulating' = Total(State') + SumOver(g) + SumOver(k)
  BY DEF Circulating
<1>4. \A u \in Threads : u # t => g[u] = f[u] /\ k[u] = h[u]
  BY <1>1, <1>2
<1> HIDE DEF f, g, h, k
<1>5. SumOver(g) + f[t] = SumOver(f) + g[t]
  BY <1>1, <1>2, <1>4, SumChanges
<1>6. SumOver(k) + h[t] = SumOver(h) + k[t]
  BY <1>1, <1>2, <1>4, SumChanges
<1>7. f[t] \in Nat /\ g[t] \in Nat /\ h[t] \in Nat /\ k[t] \in Nat
  BY <1>1, <1>2
<1>8. Circulating' + (Total(State) + f[t] + h[t]) = Circulating + (Total(State') + g[t] + k[t])
  BY <1>1, <1>2, <1>3, <1>5, <1>6, <1>7
<1> QED BY <1>1, <1>2, <1>8 DEF f, g

\* A step of one call that leaves the chain alone keeps the bound if it does not
\* add to what the accounts and the call hold.
LEMMA MintedOneCall ==
    ASSUME FewUnits, TypeInv, TypeInv', MintedInv, NEW t \in Threads,
           \A u \in Threads : u # t => feeTotal'[u] = feeTotal[u],
           \A u \in Threads : u # t => Held(u)' = Held(u),
           Total(State') + feeTotal'[t] + Held(t)' <= Total(State) + feeTotal[t] + Held(t),
           Chain' = Chain, reorg' = reorg
    PROVE  MintedInv'
<1> DEFINE n == Circulating
           k == Circulating'
           x == Total(State) + feeTotal[t] + Held(t)
           y == Total(State') + feeTotal'[t] + Held(t)'
<1>1. k + x = n + y /\ y <= x
  BY OneCallMoves
<1>2. n \in Nat /\ x \in Nat
  BY CirculatingTyped DEF UnitsTyped
<1>3. k \in Nat /\ y \in Nat
  <2>1. /\ Circulating' \in Nat /\ Total(State') \in Nat
        /\ feeTotal' \in [Threads -> Nat] /\ HeldBy' \in [Threads -> Nat]
        /\ HeldBy'[t] = Held(t)'
    BY CirculatingStays DEF UnitsTyped
  <2> QED BY <2>1
<1> DEFINE first == Chain[1].reward
           supply == GetTotalCirculatingSupply(Chain)
<1>4. ASSUME Chain # <<>> PROVE first \in Nat /\ supply \in Nat /\ n + first <= supply
  <2>1. Chain \in Seq(Block) /\ 1 \in 1 .. Len(Chain)
    BY <1>4 DEF TypeInv, MemoryTyped
  <2>2. Chain[1] \in Block
    BY <2>1
  <2> QED BY <1>4, <2>1, <2>2, BlockFields, SupplyNat DEF MintedInv
<1>5. Chain = <<>> => n = 0
  BY DEF MintedInv
<1>6. reorg' = NoReorg /\ NoReorg' = NoReorg
  BY DEF MintedInv, NoReorg, NoBlock
<1> HIDE DEF n, k, x, y, first, supply
<1>7. Chain = <<>> => k = 0
  BY <1>1, <1>2, <1>3, <1>5
<1>8. Chain # <<>> => k + first <= supply
  BY <1>1, <1>2, <1>3, <1>4
<1> QED BY <1>6, <1>7, <1>8 DEF MintedInv, k, first, supply

\* A step that moves no unit.
LEMMA MintedStutter ==
    ASSUME MintedInv, TypeInv, TypeInv', SameBalances(State', State), feeTotal' = feeTotal,
           \A t \in Threads : Held(t)' = Held(t), Chain' = Chain, reorg' = reorg
    PROVE  MintedInv'
<1>1. Total(State') = Total(State)
  BY TotalSame
<1>2. HeldBy' = HeldBy
  BY DEF HeldBy
<1>3. Circulating' = Circulating
  BY <1>1, <1>2 DEF Circulating
<1> QED BY <1>3 DEF MintedInv

\* A transfer moves units to its receiver and its fee to the call.
LEMMA MintedSelects ==
    ASSUME FewUnits, TypeInv, TypeInv', MintedInv, NEW t \in Threads, SelectTransfer(t)
    PROVE  MintedInv'
<1> DEFINE tx == Candidate(t)
<1>1. /\ pc[t] = "selecting" /\ pc' = pc /\ cursor[t] <= Len(Mempool)
      /\ State[tx.from].balance >= Cost(tx)
      /\ State' = Credit([State EXCEPT ![tx.from].balance = @ - Cost(tx),
                                       ![tx.from].nonce   = @ + 1], tx.to, tx.value)
      /\ feeTotal' = [feeTotal EXCEPT ![t] = Plus(@, tx.fee)]
      /\ newBlock' = [newBlock EXCEPT ![t].txs = Append(@, tx)]
      /\ Chain' = Chain /\ reorg' = reorg
  BY DEF SelectTransfer, AtTransfer, Affordable
<1>2. tx \in Transfers
  <2>1. cursor[t] \in 1 .. Len(Mempool)
    BY <1>1 DEF TypeInv, CallsTyped, CallsSound, CallSound, MemoryTyped
  <2> QED BY <2>1 DEF Candidate, TypeInv, MemoryTyped
<1> HIDE DEF tx
<1>3. /\ feeTotal \in [Threads -> Nat] /\ newBlock \in [Threads -> Block]
      /\ State \in LedgerStates /\ Finite(Accounts) /\ Total(State) \in Nat
  BY CirculatingTyped DEF UnitsTyped, TypeInv, CallsTyped
<1>4. State' = ReplayTransfer(State, tx)
  BY <1>1, <1>2, <1>3, PaidAsReplayed
<1>5. /\ \A u \in Threads : u # t => feeTotal'[u] = feeTotal[u] /\ Held(u)' = Held(u)
      /\ Held(t) = 0 /\ Held(t)' = 0
  BY <1>1, <1>3 DEF Held
<1>6. /\ Total(State') \in Nat /\ Total(State') + tx.fee <= Total(State)
      /\ feeTotal[t] \in Nat /\ tx.fee \in Nat
  BY <1>1, <1>2, <1>3, <1>4, TransferFields, PaysBound DEF FewUnits, NoTransferOverflows
<1>7. /\ feeTotal'[t] \in Nat /\ feeTotal'[t] <= feeTotal[t] + tx.fee
  <2>1. feeTotal'[t] = Plus(feeTotal[t], tx.fee)
    BY <1>1, <1>3
  <2> QED BY <1>6, <2>1, PlusBound
<1>8. Total(State') + feeTotal'[t] + Held(t)' <= Total(State) + feeTotal[t] + Held(t)
  <2> DEFINE n == Total(State)
             k == Total(State')
             f == feeTotal[t]
             g == feeTotal'[t]
             e == tx.fee
  <2>1. /\ n \in Nat /\ k \in Nat /\ f \in Nat /\ g \in Nat /\ e \in Nat
        /\ k + e <= n /\ g <= f + e
    BY <1>3, <1>6, <1>7
  <2> HIDE DEF n, k, f, g, e
  <2>2. k + g + 0 <= n + f + 0
    BY <2>1
  <2> QED BY <1>5, <2>2 DEF n, k, f, g
<1> QED BY <1>1, <1>5, <1>8, MintedOneCall

\* The steps that move no unit.  A call that panics forgets its fees.
LEMMA MintedPrepares ==
    ASSUME FewUnits, TypeInv, TypeInv', MintedInv, NEW t \in Threads,
           \/ RejectMiner(t) \/ MineBlock(t) \/ SkipTransfer(t) \/ FinishSelection(t)
           \/ ComputeReward(t) \/ AdjustDifficulty(t) \/ AssembleBlock(t)
           \/ MineAndValidate(t) \/ RecoverPanic(t)
    PROVE  MintedInv'
<1> USE DEF memory
<1>1. /\ feeTotal \in [Threads -> Nat] /\ newBlock \in [Threads -> Block]
      /\ pc \in [Threads -> PcStates] /\ Total(State) \in Nat
  BY CirculatingTyped DEF UnitsTyped, TypeInv, CallsTyped
<1>2. /\ pc[t] \notin {"saved", "unsaved"} /\ pc'[t] \notin {"saved", "unsaved"}
      /\ Chain' = Chain /\ reorg' = reorg /\ State' = State
      /\ \A u \in Threads : u # t => pc'[u] = pc[u] /\ newBlock'[u] = newBlock[u]
      /\ \/ feeTotal' = feeTotal
         \/ feeTotal' = [feeTotal EXCEPT ![t] = 0]
  <2>1. CASE RejectMiner(t)
    BY <1>1, <2>1 DEF RejectMiner, CanMine
  <2>2. CASE MineBlock(t)
    BY <1>1, <2>2 DEF MineBlock, CanMine
  <2>3. CASE SkipTransfer(t)
    BY <1>1, <2>3 DEF SkipTransfer, AtTransfer
  <2>4. CASE FinishSelection(t)
    BY <1>1, <2>4 DEF FinishSelection
  <2>5. CASE ComputeReward(t)
    BY <1>1, <2>5 DEF ComputeReward
  <2>6. CASE AdjustDifficulty(t)
    BY <1>1, <2>6 DEF AdjustDifficulty
  <2>7. CASE AssembleBlock(t)
    BY <1>1, <2>7 DEF AssembleBlock
  <2>8. CASE MineAndValidate(t)
    BY <1>1, <2>8 DEF MineAndValidate, Finish
  <2>9. CASE RecoverPanic(t)
    BY <1>1, <2>9 DEF RecoverPanic
  <2> QED BY <2>1, <2>2, <2>3, <2>4, <2>5, <2>6, <2>7, <2>8, <2>9
<1>3. /\ \A u \in Threads : u # t => feeTotal'[u] = feeTotal[u] /\ Held(u)' = Held(u)
      /\ Held(t) = 0 /\ Held(t)' = 0
      /\ feeTotal[t] \in Nat /\ feeTotal'[t] \in Nat /\ feeTotal'[t] <= feeTotal[t]
  BY <1>1, <1>2 DEF Held
<1>4. Total(State') + feeTotal'[t] + Held(t)' <= Total(State) + feeTotal[t] + Held(t)
  BY <1>1, <1>2, <1>3
<1> QED BY <1>2, <1>3, <1>4, MintedOneCall

\* A block's reward is minted as it is appended; its call holds it.
LEMMA MintedCommit ==
    ASSUME FewUnits, TypeInv, TypeInv', MintedInv, NEW t \in Threads, CommitBlock(t)
    PROVE  MintedInv'
<1> DEFINE b == newBlock[t]
<1>1. /\ pc[t] = "mined" /\ pc'[t] \in {"saved", "unsaved"} /\ Chain' = Append(Chain, b)
      /\ State' = State /\ newBlock' = newBlock /\ feeTotal' = feeTotal /\ reorg' = reorg
      /\ \A u \in Threads : u # t => pc'[u] = pc[u]
  BY DEF CommitBlock, AppendBlock, TypeInv, CallsTyped
<1>2. status = "up"
  BY <1>1, CallUp
<1>3. Chain \in Seq(Block) /\ Chain # <<>> /\ b \in Block
  BY <1>2 DEF TypeInv, MemoryTyped, MemorySound, CallsTyped
<1>4. /\ \A u \in Threads : u # t => Held(u)' = Held(u)
      /\ Held(t) = 0 /\ Held(t)' = b.reward
  BY <1>1 DEF Held
<1>5. /\ Total(State) \in Nat /\ feeTotal[t] \in Nat /\ b.reward \in Nat
      /\ Circulating \in Nat
  BY <1>3, BlockFields, CirculatingTyped DEF UnitsTyped
<1>6. Circulating' \in Nat
  BY CirculatingStays DEF UnitsTyped
<1>7. /\ GetTotalCirculatingSupply(Chain') = GetTotalCirculatingSupply(Chain) + b.reward
      /\ Chain'[1] = Chain[1] /\ Chain[1].reward \in Nat /\ Chain' # <<>>
      /\ GetTotalCirculatingSupply(Chain) \in Nat
  BY <1>1, <1>3, SupplyAppend, SupplyNat, AppendedTip
<1>8. Circulating' + (Total(State) + feeTotal[t] + Held(t))
        = Circulating + (Total(State') + feeTotal'[t] + Held(t)')
  BY <1>1, <1>4, OneCallMoves
<1>9. Circulating + Chain[1].reward <= GetTotalCirculatingSupply(Chain)
  BY <1>3 DEF MintedInv
<1> DEFINE n == Circulating
           k == Circulating'
           x == Total(State)
           f == feeTotal[t]
           r == b.reward
           first == Chain[1].reward
           supply == GetTotalCirculatingSupply(Chain)
<1>10. /\ n \in Nat /\ k \in Nat /\ x \in Nat /\ f \in Nat /\ r \in Nat /\ first \in Nat
       /\ supply \in Nat /\ n + first <= supply /\ k + (x + f + 0) = n + (x + f + r)
  BY <1>1, <1>4, <1>5, <1>6, <1>7, <1>8, <1>9
<1>11. Chain'[1].reward = first /\ GetTotalCirculatingSupply(Chain') = supply + r
  BY <1>7
<1>12. reorg' = NoReorg /\ NoReorg' = NoReorg
  BY <1>1 DEF MintedInv, NoReorg, NoBlock
<1> HIDE DEF n, k, x, f, r, first, supply, b
<1>13. k + first <= supply + r
  BY <1>10
<1> QED BY <1>7, <1>11, <1>12, <1>13 DEF MintedInv, k

\* Reward and fees go to the miner, or nowhere.
LEMMA MintedCredit ==
    ASSUME FewUnits, TypeInv, TypeInv', MintedInv, NEW t \in Threads, CreditMiner(t)
    PROVE  MintedInv'
<1> DEFINE paid == Plus(newBlock[t].reward, feeTotal[t])
<1>1. /\ pc[t] \in {"saved", "unsaved"} /\ pc'[t] = "idle" /\ Chain' = Chain
      /\ State' = Credit(State, MinerAddress, paid) /\ reorg' = reorg
      /\ feeTotal' = [feeTotal EXCEPT ![t] = 0]
      /\ \A u \in Threads : u # t => pc'[u] = pc[u] /\ newBlock'[u] = newBlock[u]
  BY DEF CreditMiner, Finish, TotalMinerReward, TypeInv, CallsTyped
<1>2. /\ feeTotal \in [Threads -> Nat] /\ newBlock[t] \in Block
      /\ State \in LedgerStates /\ Finite(Accounts) /\ Total(State) \in Nat
  BY CirculatingTyped DEF UnitsTyped, TypeInv, CallsTyped
<1>3. /\ newBlock[t].reward \in Nat /\ feeTotal[t] \in Nat
      /\ paid \in Nat /\ paid <= newBlock[t].reward + feeTotal[t]
  BY <1>2, BlockFields, PlusBound
<1>4. /\ \A u \in Threads : u # t => feeTotal'[u] = feeTotal[u] /\ Held(u)' = Held(u)
      /\ Held(t) = newBlock[t].reward /\ Held(t)' = 0 /\ feeTotal'[t] = 0
  BY <1>1, <1>2 DEF Held
<1> HIDE DEF paid
<1>5. Total(State') \in Nat /\ Total(State') <= Total(State) + paid
  BY <1>1, <1>2, <1>3, CreditBound
<1>6. Total(State') + feeTotal'[t] + Held(t)' <= Total(State) + feeTotal[t] + Held(t)
  BY <1>2, <1>3, <1>4, <1>5
<1> QED BY <1>1, <1>4, <1>6, MintedOneCall

\* The genesis block mints what nobody receives.
LEMMA MintedGenesis ==
    ASSUME FewUnits, TypeInv, TypeInv', TreeInv, MintedInv, SpawnGenesis
    PROVE  MintedInv'
<1>1. PICK h \in GenesisHashes[TargetDifficulty] :
        Chain' = << [NoBlock EXCEPT !.hash = h, !.work = TargetDifficulty,
                       !.time = GenesisTime, !.diff = TargetDifficulty,
                       !.reward = CalculateBlockReward(0)] >>
  BY DEF SpawnGenesis
<1> DEFINE g == [NoBlock EXCEPT !.hash = h, !.work = TargetDifficulty,
                   !.time = GenesisTime, !.diff = TargetDifficulty,
                   !.reward = CalculateBlockReward(0)]
<1>2. Chain' = <<g>>
  BY <1>1
<1> HIDE DEF g
<1>3. g \in Block
  <2>1. Chain' \in Seq(Block)
    BY DEF TypeInv, MemoryTyped
  <2> QED BY <1>2, <2>1, OnlyBlock
<1>4. <<>> \in Seq(Block) /\ <<g>> = Append(<<>>, g) /\ <<g>>[1] = g /\ <<g>> # <<>>
  OBVIOUS
<1>5. g.reward \in Nat
  BY <1>3, BlockFields
<1>6. GetTotalCirculatingSupply(<<g>>) = g.reward
  <2>1. /\ GetTotalCirculatingSupply(<<g>>) = GetTotalCirculatingSupply(<<>>) + g.reward
        /\ GetTotalCirculatingSupply(<<>>) = 0
    BY <1>3, <1>4, SupplyAppend
  <2> QED BY <1>5, <2>1
<1>7. Chain = <<>> /\ UNCHANGED <<State, locals, reorg>>
  BY DEF SpawnGenesis, TreeInv
<1>8. Circulating' = 0
  <2>1. HeldBy' = HeldBy
    BY <1>7 DEF HeldBy, Held, locals
  <2> QED BY <1>7, <2>1 DEF MintedInv, Circulating, locals
<1>9. reorg' = NoReorg /\ NoReorg' = NoReorg
  BY <1>7 DEF MintedInv, NoReorg, NoBlock
<1>10. Circulating' + Chain'[1].reward <= GetTotalCirculatingSupply(Chain')
  BY <1>2, <1>4, <1>5, <1>6, <1>8
<1> QED BY <1>2, <1>4, <1>9, <1>10 DEF MintedInv

LEMMA MintedNext ==
    ASSUME MayCrash = FALSE, Reorgs = FALSE, FewUnits, TypeInv, TypeInv', TreeInv,
           MintedInv, [Next]_vars
    PROVE  MintedInv'
<1>0. State \in LedgerStates /\ SameBalances(State, State)
  BY DEF TypeInv, MemoryTyped, SameBalances
<1>1. ASSUME NEW m \in MinerChoices, NEW d \in InitialDifficulties, InitializeLedger(m, d)
      PROVE  MintedInv'
  <2>1. status = "down" /\ UNCHANGED locals /\ reorg' = reorg
    BY <1>1 DEF InitializeLedger
  <2>2. LoadedChain = <<>> \/ LoadedChain[1].policy # "current"
    BY <2>1, FreshDiskLoads DEF TreeInv
  <2>3. Chain' = Chain /\ State' = State
    BY <1>1, <2>2 DEF InitializeLedger
  <2> QED BY <1>0, <2>1, <2>3, MintedStutter DEF locals, Held
<1>2. CASE SpawnGenesis
  BY <1>2, MintedGenesis
<1>3. CASE IndexGenesis
  BY <1>0, <1>3, MintedStutter DEF IndexGenesis, memory, locals, Held
<1>4. ASSUME NEW t \in Threads, MineStep(t) \/ RecoverPanic(t) PROVE MintedInv'
  BY <1>4, MintedSelects, MintedPrepares, MintedCommit, MintedCredit DEF MineStep
<1>5. ASSUME NEW tx \in Transfers, AddToMempool(tx) PROVE MintedInv'
  <2>1. /\ State' = [State EXCEPT ![tx.from].nonce = tx.nonce] /\ Chain' = Chain
        /\ reorg' = reorg /\ UNCHANGED locals
    BY <1>5 DEF AddToMempool
  <2>2. SameBalances(State', State)
    BY <1>0, <2>1 DEF SameBalances, LedgerStates
  <2> QED BY <2>1, <2>2, MintedStutter DEF locals, Held
<1>6. ~Crash /\ ~CanReorg
  BY DEF Crash, CanReorg
<1>7. ~RollbackBlock /\ ~FinishRollback /\ ~FinishAppend
  BY <1>6, NoReorgTyped DEF RollbackBlock, FinishRollback, FinishAppend, MintedInv
<1>8. CASE UNCHANGED vars
  BY <1>0, <1>8, MintedStutter DEF vars, memory, locals, disk, Held
<1> QED BY <1>1, <1>2, <1>3, <1>4, <1>5, <1>6, <1>7, <1>8 DEF Next

LEMMA MintedInitial ==
    ASSUME FewUnits, Init
    PROVE  MintedInv
<1>1. Finite(Accounts) /\ Finite(Threads)
  BY InitTyped, CirculatingTyped DEF UnitsTyped
<1>2. Balances(State) = [a \in Accounts |-> 0]
  BY DEF Init, Balances, NoState
<1>3. feeTotal = [t \in Threads |-> 0] /\ HeldBy = [t \in Threads |-> 0]
  BY DEF Init, PerThread, HeldBy, Held
<1>4. Total(State) = 0 /\ SumOver(feeTotal) = 0 /\ SumOver(HeldBy) = 0
  BY <1>1, <1>2, <1>3, SumOfNothing DEF Total
<1>5. Circulating = 0
  BY <1>4 DEF Circulating
<1> QED BY <1>5 DEF MintedInv, Init

LEMMA MintedHolds ==
    ASSUME FewUnits, TypeInv, MintedInv
    PROVE  ValueNeverCreated
<1> SUFFICES ASSUME status = "up" PROVE ValueInLedger <= ValueMinted
  BY DEF ValueNeverCreated
<1>1. Chain \in Seq(Block) /\ Chain # <<>> /\ 1 \in 1 .. Len(Chain)
  BY DEF TypeInv, MemoryTyped, MemorySound
<1>2. Chain[1] \in Block
  BY <1>1
<1>3. Chain[1].reward \in Nat /\ GetTotalCirculatingSupply(Chain) \in Nat
  BY <1>1, <1>2, BlockFields, SupplyNat
<1>4. ValueInLedger = Circulating
  BY SumsAre DEF ValueInLedger, Total, Held, HeldBy, Circulating
<1>5. ValueMinted = GetTotalCirculatingSupply(Chain) - Chain[1].reward
  BY DEF ValueMinted
<1>6. Circulating \in Nat /\ Circulating + Chain[1].reward <= GetTotalCirculatingSupply(Chain)
  BY <1>1, CirculatingTyped DEF MintedInv, UnitsTyped
<1> QED BY <1>3, <1>4, <1>5, <1>6

\* Within one lifetime of the process, if no transfer's value and fee overflow,
\* the accounts, the fees and the rewards on their way never hold more than the
\* blocks after the genesis minted, however many MineBlock calls race, panic or
\* fail to write, and even if a balance overflows (ledger.go:335-369, 425-436).
THEOREM LedgerValueNeverCreated ==
    ASSUME MayCrash = FALSE, Reorgs = FALSE, Finite(Threads), Finite(Addr),
           NoTransferOverflows
    PROVE  Spec => []ValueNeverCreated
<1>0. FewUnits
  BY DEF FewUnits
<1>1. Init => TreeInv /\ MintedInv
  BY <1>0, TreeInitial, MintedInitial
<1>2. TreeInv /\ MintedInv /\ [Next]_vars => (TreeInv /\ MintedInv)'
  <2> SUFFICES ASSUME TreeInv, MintedInv, [Next]_vars PROVE TreeInv' /\ MintedInv'
    OBVIOUS
  <2>1. TypeInv /\ TypeInv'
    BY TypeNext DEF TreeInv
  <2>2. TreeInv'
    <3>1. CASE Next
      BY <2>1, <3>1, TreeNext
    <3>2. CASE UNCHANGED vars
      BY <2>1, <3>2, TreeStutter DEF vars, memory, locals, disk
    <3> QED BY <3>1, <3>2
  <2> QED BY <1>0, <2>1, <2>2, MintedNext
<1>3. TreeInv /\ MintedInv => ValueNeverCreated
  BY <1>0, MintedHolds DEF TreeInv
<1> QED BY <1>1, <1>2, <1>3, PTL DEF Spec
=============================================================================
