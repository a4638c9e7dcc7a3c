-------------------------- MODULE Consensus_proofs --------------------------
(***************************************************************************)
(* Lemmas that the proofs about the durable chain and about the ledger     *)
(* share: what the rules of the consensus return, for every schedule and   *)
(* cap, induction, and sums over finite sets.                              *)
(*                                                                         *)
(* The provers cannot instantiate the library's induction theorems, which  *)
(* take a predicate.  A set of numbers they can be given: it has a least   *)
(* member, because < is well founded; hence induction up to a bound for a  *)
(* set; hence functions defined by recursion up to a bound exist.          *)
(***************************************************************************)
EXTENDS Consensus, TLAPS
LOCAL INSTANCE FiniteSetTheorems

\* The scheduled reward halves but stays between nothing and the first reward
\* (consensus.go:87-93).
LEMMA RewardRange ==
    ASSUME NEW i \in Nat
    PROVE  CalculateBlockReward(i) \in 0 .. BlockReward
<1> DEFINE h == i \div HalvingInterval
<1>1. BlockReward \in Nat
  BY RewardAssumption, SupplyAssumption
<1>2. h \in Nat
  BY IntervalAssumption
<1>3. CASE h >= WordBits
  BY <1>1, <1>3 DEF CalculateBlockReward
<1>4. CASE h < WordBits
  <2>1. h \in 0 .. WordBits
    BY <1>2, <1>4, WordAssumption
  <2> DEFINE p == 2^h
  <2>2. p \in Nat \ {0}
    BY <2>1, PowerAssumption
  <2>3. CalculateBlockReward(i) = BlockReward \div p
    BY <1>2, <1>4, WordAssumption DEF CalculateBlockReward
  <2> HIDE DEF p
  <2>4. BlockReward \div p \in 0 .. BlockReward
    BY <1>1, <2>2
  <2> QED BY <2>3, <2>4
<1> QED BY <1>2, <1>3, <1>4, WordAssumption

\* A word holds at least one number.
LEMMA WordPositive == Word \in Nat \ {0}
<1>1. WordBits \in 0 .. WordBits
  BY WordAssumption
<1> QED BY <1>1, PowerAssumption DEF Word

\* uint64 arithmetic stays within the word.
LEMMA PlusRange ==
    ASSUME NEW a \in Nat, NEW b \in Nat
    PROVE  Plus(a, b) \in 0 .. Word - 1
<1>1. a + b \in Nat
  OBVIOUS
<1> DEFINE s == a + b
           w == Word
<1>2. w \in Nat \ {0} /\ s \in Nat
  BY <1>1, WordPositive
<1> HIDE DEF s, w
<1>3. s % w \in 0 .. w - 1
  BY <1>2
<1> QED BY <1>3 DEF Plus, s, w

LEMMA PlusNat ==
    ASSUME NEW a \in Nat, NEW b \in Nat
    PROVE  Plus(a, b) \in Nat
  BY PlusRange, WordPositive

\* The reward a block may claim is a number that keeps a supply within the cap
\* there (validator.go:94-99).
LEMMA AllowedFits ==
    ASSUME NEW i \in Nat, NEW s \in Nat
    PROVE  /\ AllowedReward(i, s) \in Nat
           /\ s <= MaxSupply => s + AllowedReward(i, s) <= MaxSupply
<1> DEFINE r == CalculateBlockReward(i)
<1>1. r \in Nat /\ BlockReward \in Nat /\ MaxSupply \in Nat
  BY RewardRange, RewardAssumption, SupplyAssumption
<1> HIDE DEF r
<1>2. AllowedReward(i, s) = IF s >= MaxSupply THEN 0
                            ELSE IF s + r > MaxSupply THEN MaxSupply - s ELSE r
  BY DEF AllowedReward, r
<1> QED BY <1>1, <1>2

\* From one block to the next the scheduled reward stays or is halved.
LEMMA RewardNeverRises ==
    ASSUME NEW i \in Nat
    PROVE  CalculateBlockReward(i + 1) <= CalculateBlockReward(i)
<1> DEFINE h == i \div HalvingInterval
           k == (i + 1) \div HalvingInterval
<1>1. /\ BlockReward \in Nat /\ h \in Nat /\ k \in Nat /\ WordBits \in Nat
      /\ CalculateBlockReward(i) \in Nat
  BY RewardAssumption, SupplyAssumption, IntervalAssumption, WordAssumption, RewardRange
<1>2. k = h \/ k = h + 1
  BY IntervalAssumption
<1>3. /\ CalculateBlockReward(i) = IF h >= WordBits THEN 0 ELSE BlockReward \div 2^h
      /\ CalculateBlockReward(i + 1) = IF k >= WordBits THEN 0 ELSE BlockReward \div 2^k
  BY DEF CalculateBlockReward
<1> HIDE DEF h, k
<1>4. CASE k = h
  <2>1. CalculateBlockReward(i + 1) = CalculateBlockReward(i)
    BY <1>3, <1>4
  <2> QED BY <2>1, <1>1
<1>5. CASE k >= WordBits
  BY <1>1, <1>3, <1>5
<1>6. CASE k = h + 1 /\ k < WordBits
  <2> DEFINE p == 2^h
             q == 2^(h + 1)
  <2>1. p \in Nat \ {0} /\ q = 2 * p
    BY <1>1, <1>6, PowerAssumption
  <2>2. /\ CalculateBlockReward(i) = BlockReward \div p
        /\ CalculateBlockReward(i + 1) = BlockReward \div q
    BY <1>1, <1>3, <1>6
  <2> HIDE DEF p, q
  <2>3. BlockReward \div (2 * p) <= BlockReward \div p
    BY <1>1, <2>1
  <2> QED BY <2>1, <2>2, <2>3
<1> QED BY <1>1, <1>2, <1>4, <1>5, <1>6

\* What a block may claim is no more than what its parent was allowed, also
\* where the cap cuts the parent's reward short (validator.go:94-99).
LEMMA AllowedNeverRises ==
    ASSUME NEW i \in Nat, NEW s \in Nat, s <= MaxSupply
    PROVE  AllowedReward(i + 1, s + AllowedReward(i, s)) <= AllowedReward(i, s)
<1> DEFINE r == CalculateBlockReward(i)
           n == CalculateBlockReward(i + 1)
<1>1. r \in Nat /\ n \in Nat /\ n <= r /\ MaxSupply \in Nat
  BY RewardRange, RewardNeverRises, RewardAssumption, SupplyAssumption
<1>2. \A u : AllowedReward(i, u) = IF u >= MaxSupply THEN 0
                                  ELSE IF u + r > MaxSupply THEN MaxSupply - u ELSE r
  BY DEF AllowedReward
<1>3. \A u : AllowedReward(i + 1, u) = IF u >= MaxSupply THEN 0
                                  ELSE IF u + n > MaxSupply THEN MaxSupply - u ELSE n
  BY DEF AllowedReward
<1> HIDE DEF r, n
<1> QED BY <1>1, <1>2, <1>3

\* A retarget moves the difficulty by at most one and never below nothing
\* (consensus.go:96-124).
LEMMA DifficultyRange ==
    ASSUME NEW p \in Nat, NEW now \in Nat, NEW d \in Nat
    PROVE  CalculateNextDifficulty(p, now, d) \in Nat
  BY TargetAssumption DEF CalculateNextDifficulty, AtLeastOne

-----------------------------------------------------------------------------
(* Induction                                                               *)

\* Every set of natural numbers that is not empty has a least one.
LEMMA LeastNat ==
    ASSUME NEW S \in SUBSET Nat, S # {}
    PROVE  \E n \in S : \A m \in S : n <= m
<1>0. S \subseteq Nat
  OBVIOUS
<1>1. \E n \in S : \A m \in S : ~ (<<m, n>> \in OpToRel(<, Nat))
  <2>1. IsWellFoundedOn(OpToRel(<, Nat), Nat)
    BY NatLessThanWellFounded
  <2> QED BY <2>1, <1>0, WFMin
<1>2. PICK n \in S : \A m \in S : ~ (<<m, n>> \in OpToRel(<, Nat))
  BY <1>1
<1>3. ASSUME NEW m \in S PROVE n <= m
  <2>1. ~ (<<m, n>> \in OpToRel(<, Nat))
    BY <1>2
  <2>2. m \in Nat /\ n \in Nat
    BY <1>0
  <2>3. m < n => <<m, n>> \in OpToRel(<, Nat)
    BY <2>2 DEF OpToRel
  <2>4. ~(m < n)
    BY <2>1, <2>3, Zenon
  <2> QED BY <2>2, <2>4
<1> QED BY <1>3

\* Induction up to N: a set that holds 0 and the successor of each of its
\* members below N holds all of 0 .. N.
LEMMA UpTo ==
    ASSUME NEW N \in Nat, NEW S, 0 \in S, \A i \in 1 .. N : i - 1 \in S => i \in S
    PROVE  \A i \in 0 .. N : i \in S
<1> DEFINE T == {i \in 0 .. N : i \notin S}
<1> SUFFICES ASSUME T # {} PROVE FALSE
  OBVIOUS
<1>1. PICK n \in T : \A m \in T : n <= m
  <2>1. T \in SUBSET Nat
    OBVIOUS
  <2> HIDE DEF T
  <2> QED BY <2>1, LeastNat
<1>2. n \in 1 .. N /\ n - 1 \in 0 .. N /\ n - 1 \notin T
  BY <1>1
<1> QED BY <1>1, <1>2

\* Functions from a value and a number up to N to the next value.
Steps(S, N) == [S \X (1 .. N) -> S]

\* A function given by its first value and by a step.
Recursive(S, N, s, F) ==
    \E f \in [0 .. N -> S] : f[0] = s /\ \A i \in 1 .. N : f[i] = F[<<f[i-1], i>>]

\* It exists.
LEMMA RecursionExists ==
    ASSUME NEW N \in Nat, NEW S, NEW s \in S, NEW F \in Steps(S, N)
    PROVE  Recursive(S, N, s, F)
<1> DEFINE Upto(n) == {f \in [0 .. n -> S] : f[0] = s /\ \A i \in 1 .. n : f[i] = F[<<f[i-1], i>>]}
           D == {n \in 0 .. N : Upto(n) # {}}
<1>1. 0 \in D
  <2> DEFINE f == [i \in 0 .. 0 |-> s]
  <2>1. f \in [0 .. 0 -> S] /\ f[0] = s /\ \A i \in 1 .. 0 : f[i] = F[<<f[i-1], i>>]
    OBVIOUS
  <2>2. f \in Upto(0)
    BY <2>1
  <2> QED BY <2>2
<1>2. ASSUME NEW n \in 1 .. N, n - 1 \in D PROVE n \in D
  <2>1. PICK f \in [0 .. n - 1 -> S] : f[0] = s /\ \A i \in 1 .. n - 1 : f[i] = F[<<f[i-1], i>>]
    BY <1>2
  <2>2. f[n-1] \in S
    OBVIOUS
  <2>3. F[<<f[n-1], n>>] \in S
    BY <2>2 DEF Steps
  <2> DEFINE g == [i \in 0 .. n |-> IF i = n THEN F[<<f[n-1], n>>] ELSE f[i]]
  <2>4. g \in [0 .. n -> S] /\ g[0] = s
    BY <2>1, <2>3
  <2>5. ASSUME NEW i \in 1 .. n PROVE g[i] = F[<<g[i-1], i>>]
    <3>1. CASE i = n
      <4>1. g[n] = F[<<f[n-1], n>>] /\ g[n-1] = f[n-1]
        OBVIOUS
      <4> QED BY <3>1, <4>1
    <3>2. CASE i \in 1 .. n - 1
      <4>1. g[i] = f[i] /\ g[i-1] = f[i-1]
        BY <3>2
      <4> QED BY <2>1, <3>2, <4>1
    <3> QED BY <3>1, <3>2
  <2> HIDE DEF g
  <2>6. g \in Upto(n)
    BY <2>4, <2>5
  <2> QED BY <2>6
<1> HIDE DEF D
<1>3. N \in D
  BY <1>1, <1>2, UpTo
<1> QED BY <1>3 DEF D, Recursive

\* Sums exist.
LEMMA SumExists ==
    ASSUME NEW N \in Nat, NEW r \in [1 .. N -> Nat]
    PROVE  \E f \in [0 .. N -> Nat] : f[0] = 0 /\ \A i \in 1 .. N : f[i] = f[i-1] + r[i]
<1> DEFINE S == Nat
           F == [p \in S \X (1 .. N) |-> p[1] + r[p[2]]]
<1>1. \A a \in Nat, i \in 1 .. N : F[<<a, i>>] = a + r[i]
  OBVIOUS
<1>2. F \in Steps(S, N) /\ 0 \in S
  BY DEF Steps
<1>3. Recursive(S, N, 0, F)
  <2> HIDE DEF S, F
  <2> QED BY <1>2, RecursionExists
<1> HIDE DEF F
<1>4. PICK f \in [0 .. N -> Nat] : f[0] = 0 /\ \A i \in 1 .. N : f[i] = F[<<f[i-1], i>>]
  BY <1>3 DEF Recursive
<1>5. ASSUME NEW i \in 1 .. N PROVE f[i] = f[i-1] + r[i]
  <2>1. f[i-1] \in Nat
    OBVIOUS
  <2>2. f[i] = F[<<f[i-1], i>>]
    BY <1>4
  <2> QED BY <1>1, <2>1, <2>2
<1> QED BY <1>4, <1>5

-----------------------------------------------------------------------------
(* Sums over finite sets                                                   *)

Finite(S) == IsFiniteSet(S)

\* The sum of a function over each subset of S, as the community modules fold
\* it: one chosen element after the other.
SumSteps(f, S, g) ==
    g = [s \in SUBSET S |->
            IF s = {} THEN 0
            ELSE f[CHOOSE x \in s : TRUE] + g[s \ {CHOOSE x \in s : TRUE}]]
SumOver(f) == (CHOOSE g : SumSteps(f, DOMAIN f, g))[DOMAIN f]

\* Induction over the subsets of a finite set: T holds of all of them if it
\* holds of a set whenever it holds of the set without its chosen element.
LEMMA SubsetsIn ==
    ASSUME NEW S, Finite(S), NEW T, {} \in T,
           \A s \in SUBSET S : s # {} /\ s \ {CHOOSE x \in s : TRUE} \in T => s \in T
    PROVE  SUBSET S \subseteq T
<1> DEFINE N == Cardinality(S)
           U == {n \in 0 .. N : \A s \in SUBSET S : Cardinality(s) <= n => s \in T}
<1>1. N \in Nat
  BY FS_CardinalityType DEF Finite
<1>2. \A s \in SUBSET S : IsFiniteSet(s) /\ Cardinality(s) \in Nat /\ Cardinality(s) <= N
  BY FS_Subset, FS_CardinalityType DEF Finite
<1>3. 0 \in U
  <2>1. ASSUME NEW s \in SUBSET S, Cardinality(s) <= 0 PROVE s \in T
    <3>1. Cardinality(s) = 0
      BY <1>2, <2>1
    <3> QED BY <1>2, <3>1, FS_EmptySet
  <2> HIDE DEF N
  <2> QED BY <1>1, <2>1
<1>4. ASSUME NEW n \in 1 .. N, n - 1 \in U PROVE n \in U
  <2> SUFFICES ASSUME NEW s \in SUBSET S, Cardinality(s) <= n, s # {} PROVE s \in T
    OBVIOUS
  <2> DEFINE c == CHOOSE x \in s : TRUE
             r == s \ {c}
  <2>1. c \in s
    OBVIOUS
  <2> HIDE DEF c
  <2>2. Cardinality(r) = Cardinality(s) - 1 /\ r \in SUBSET S
    BY <1>2, <2>1, FS_RemoveElement
  <2>3. Cardinality(r) <= n - 1
    BY <1>1, <1>2, <2>2
  <2>4. r \in T
    BY <1>4, <2>2, <2>3
  <2> QED BY <2>4 DEF c
<1>5. \A n \in 0 .. N : n \in U
  <2> HIDE DEF U, N
  <2> QED BY <1>1, <1>3, <1>4, UpTo
<1>6. N \in U
  <2> HIDE DEF U, N
  <2> QED BY <1>1, <1>5
<1> QED BY <1>2, <1>6

\* Such a sum exists: there is one for the subsets of up to n elements, for
\* every n.
LEMMA SumStepsExist ==
    ASSUME NEW S, Finite(S), NEW f \in [S -> Nat]
    PROVE  \E g \in [SUBSET S -> Nat] : SumSteps(f, S, g)
<1> DEFINE Chosen(s) == CHOOSE x \in s : TRUE
           Step(g, s) == IF s = {} THEN 0 ELSE f[Chosen(s)] + g[s \ {Chosen(s)}]
           Upto(n) == {g \in [SUBSET S -> Nat] :
                         \A s \in SUBSET S : Cardinality(s) <= n => g[s] = Step(g, s)}
           N == Cardinality(S)
           U == {n \in 0 .. N : Upto(n) # {}}
<1>1. N \in Nat
  BY FS_CardinalityType DEF Finite
<1>2. \A s \in SUBSET S : IsFiniteSet(s) /\ Cardinality(s) \in Nat /\ Cardinality(s) <= N
  BY FS_Subset, FS_CardinalityType DEF Finite
<1>3. ASSUME NEW s \in SUBSET S, s # {}
      PROVE  /\ Chosen(s) \in S /\ s \ {Chosen(s)} \in SUBSET S
             /\ Cardinality(s \ {Chosen(s)}) = Cardinality(s) - 1
  <2>1. Chosen(s) \in s
    BY <1>3
  <2> HIDE DEF Chosen
  <2> QED BY <1>2, <2>1, FS_RemoveElement
<1> HIDE DEF Chosen
<1>4. 0 \in U
  <2> DEFINE g == [s \in SUBSET S |-> 0]
  <2>1. ASSUME NEW s \in SUBSET S, Cardinality(s) <= 0 PROVE g[s] = Step(g, s)
    <3>1. Cardinality(s) = 0
      BY <1>2, <2>1
    <3>2. s = {}
      BY <1>2, <3>1, FS_EmptySet
    <3> QED BY <3>2
  <2>2. g \in [SUBSET S -> Nat]
    OBVIOUS
  <2> HIDE DEF g, Step
  <2>3. g \in Upto(0)
    BY <2>1, <2>2
  <2> HIDE DEF Upto
  <2> QED BY <1>1, <2>3
<1>5. ASSUME NEW n \in 1 .. N, n - 1 \in U PROVE n \in U
  <2>1. PICK g \in [SUBSET S -> Nat] :
          \A s \in SUBSET S : Cardinality(s) <= n - 1 => g[s] = Step(g, s)
    BY <1>5
  <2> DEFINE h == [s \in SUBSET S |-> Step(g, s)]
  <2>2. \A s \in SUBSET S : Step(g, s) \in Nat
    BY <1>3
  <2>3. h \in [SUBSET S -> Nat]
    BY <2>2
  <2>4. \A s \in SUBSET S : Cardinality(s) <= n - 1 => h[s] = g[s]
    BY <2>1
  <2>5. ASSUME NEW s \in SUBSET S, Cardinality(s) <= n PROVE h[s] = Step(h, s)
    <3>1. CASE s = {}
      BY <3>1
    <3>2. CASE s # {}
      <4>1. Cardinality(s \ {Chosen(s)}) <= n - 1
        BY <1>1, <1>2, <1>3, <2>5, <3>2
      <4>2. h[s \ {Chosen(s)}] = g[s \ {Chosen(s)}]
        BY <1>3, <2>4, <3>2, <4>1
      <4> QED BY <3>2, <4>2
    <3> QED BY <3>1, <3>2
  <2> HIDE DEF h, Step
  <2>6. h \in Upto(n)
    BY <2>3, <2>5
  <2> HIDE DEF Upto
  <2> QED BY <2>6
<1>6. \A n \in 0 .. N : n \in U
  <2> HIDE DEF U, N
  <2> QED BY <1>1, <1>4, <1>5, UpTo
<1>7. PICK g \in [SUBSET S -> Nat] :
        \A s \in SUBSET S : Cardinality(s) <= N => g[s] = Step(g, s)
  <2>1. N \in U
    <3> HIDE DEF U, N
    <3> QED BY <1>1, <1>6
  <2> QED BY <2>1
<1>8. \A s \in SUBSET S : g[s] = Step(g, s)
  BY <1>2, <1>7
<1>9. g = [s \in SUBSET S |-> Step(g, s)]
  BY <1>8
<1> QED BY <1>9 DEF SumSteps, Chosen

\* What the sums over the subsets are.
LEMMA SumStepsAre ==
    ASSUME NEW S, NEW f, NEW g, SumSteps(f, S, g)
    PROVE  /\ g[{}] = 0
           /\ \A s \in SUBSET S : s # {} =>
                 g[s] = f[CHOOSE x \in s : TRUE] + g[s \ {CHOOSE x \in s : TRUE}]
<1>1. g = [s \in SUBSET S |-> IF s = {} THEN 0
            ELSE f[CHOOSE x \in s : TRUE] + g[s \ {CHOOSE x \in s : TRUE}]]
  BY DEF SumSteps
<1> QED BY <1>1

LEMMA SumStepsTyped ==
    ASSUME NEW S, Finite(S), NEW f \in [S -> Nat], NEW g, SumSteps(f, S, g)
    PROVE  \A s \in SUBSET S : g[s] \in Nat
<1> DEFINE T == {s \in SUBSET S : g[s] \in Nat}
<1>1. {} \in T
  BY SumStepsAre
<1>2. ASSUME NEW s \in SUBSET S, s # {}, s \ {CHOOSE x \in s : TRUE} \in T
      PROVE  s \in T
  <2>0. \A r \in SUBSET S : r # {} =>
            g[r] = f[CHOOSE x \in r : TRUE] + g[r \ {CHOOSE x \in r : TRUE}]
    BY SumStepsAre
  <2> DEFINE c == CHOOSE x \in s : TRUE
  <2>1. c \in s /\ g[s] = f[c] + g[s \ {c}]
    BY <1>2, <2>0
  <2> HIDE DEF c
  <2>2. f[c] \in Nat /\ g[s \ {c}] \in Nat
    BY <1>2, <2>1 DEF c
  <2> QED BY <2>1, <2>2
<1>3. SUBSET S \subseteq T
  <2> HIDE DEF T
  <2> QED BY <1>1, <1>2, SubsetsIn
<1> QED BY <1>3

\* Two functions that differ at one place: so do their sums, by as much.
LEMMA SumStepsChange ==
    ASSUME NEW S, Finite(S), NEW f \in [S -> Nat], NEW h \in [S -> Nat], NEW a \in S,
           \A x \in S : x # a => h[x] = f[x],
           NEW g, SumSteps(f, S, g), NEW k, SumSteps(h, S, k)
    PROVE  k[S] + f[a] = g[S] + h[a]
<1> DEFINE T == {s \in SUBSET S : /\ a \notin s => k[s] = g[s]
                                  /\ a \in s => k[s] + f[a] = g[s] + h[a]}
<1>1. {} \in T
  BY SumStepsAre
<1>2. ASSUME NEW s \in SUBSET S, s # {}, s \ {CHOOSE x \in s : TRUE} \in T
      PROVE  s \in T
  <2> DEFINE c == CHOOSE x \in s : TRUE
             r == s \ {c}
  <2>1. c \in s /\ c \in S /\ g[s] = f[c] + g[r] /\ k[s] = h[c] + k[r]
    <3>1. c \in s
      BY <1>2
    <3>2. g[s] = f[c] + g[r] /\ k[s] = h[c] + k[r]
      BY <1>2, SumStepsAre
    <3> QED BY <3>1, <3>2
  <2>2. r \in T /\ r \in SUBSET S
    BY <1>2
  <2> HIDE DEF c
  <2>3. g[r] \in Nat /\ k[r] \in Nat /\ f[c] \in Nat /\ h[c] \in Nat
        /\ f[a] \in Nat /\ h[a] \in Nat
    BY <2>1, <2>2, SumStepsTyped
  <2>4. CASE c = a
    <3>1. a \notin r
      BY <2>4
    <3> QED BY <2>1, <2>2, <2>3, <2>4, <3>1
  <2>5. CASE c # a
    <3>1. h[c] = f[c] /\ (a \in s <=> a \in r)
      BY <2>1, <2>5
    <3> QED BY <2>1, <2>2, <2>3, <3>1
  <2> QED BY <2>4, <2>5
<1>3. SUBSET S \subseteq T
  <2> HIDE DEF T
  <2> QED BY <1>1, <1>2, SubsetsIn
<1>4. S \in T
  BY <1>3
<1> QED BY <1>4

LEMMA SumIs ==
    ASSUME NEW S, Finite(S), NEW f \in [S -> Nat]
    PROVE  \E g : SumSteps(f, S, g) /\ SumOver(f) = g[S]
<1>1. \E g : SumSteps(f, S, g)
  BY SumStepsExist
<1>2. DOMAIN f = S
  OBVIOUS
<1> DEFINE g == CHOOSE g : SumSteps(f, S, g)
<1>3. SumSteps(f, S, g)
  BY <1>1
<1>4. SumOver(f) = g[S]
  BY <1>2 DEF SumOver
<1> QED BY <1>3, <1>4

\* The sum of a function that is changed at one place.
LEMMA SumChanges ==
    ASSUME NEW S, Finite(S), NEW f \in [S -> Nat], NEW h \in [S -> Nat], NEW a \in S,
           \A x \in S : x # a => h[x] = f[x]
    PROVE  SumOver(h) + f[a] = SumOver(f) + h[a]
  BY SumIs, SumStepsChange

LEMMA SumTyped ==
    ASSUME NEW S, Finite(S), NEW f \in [S -> Nat]
    PROVE  SumOver(f) \in Nat
<1>1. S \in SUBSET S
  OBVIOUS
<1> QED BY <1>1, SumIs, SumStepsTyped

LEMMA SumOfNothing ==
    ASSUME NEW S, Finite(S)
    PROVE  SumOver([x \in S |-> 0]) = 0
<1> DEFINE f == [x \in S |-> 0]
<1>1. f \in [S -> Nat] /\ \A x \in S : f[x] = 0
  OBVIOUS
<1> HIDE DEF f
<1>2. PICK g : SumSteps(f, S, g) /\ SumOver(f) = g[S]
  BY <1>1, SumIs
<1> DEFINE T == {s \in SUBSET S : g[s] = 0}
<1>3. {} \in T
  BY <1>2, SumStepsAre
<1>4. ASSUME NEW s \in SUBSET S, s # {}, s \ {CHOOSE x \in s : TRUE} \in T
      PROVE  s \in T
  <2> DEFINE c == CHOOSE x \in s : TRUE
  <2>1. c \in s /\ g[s] = f[c] + g[s \ {c}]
    <3>1. c \in s
      BY <1>4
    <3>2. g[s] = f[c] + g[s \ {c}]
      BY <1>2, <1>4, SumStepsAre
    <3> QED BY <3>1, <3>2
  <2>2. g[s \ {c}] = 0
    BY <1>4
  <2> HIDE DEF c
  <2>3. f[c] = 0
    BY <1>1, <2>1
  <2> QED BY <2>1, <2>2, <2>3
<1>5. SUBSET S \subseteq T
  <2> HIDE DEF T
  <2> QED BY <1>3, <1>4, SubsetsIn
<1>6. S \in T
  BY <1>5
<1> QED BY <1>2, <1>6 DEF f

\* No part of the sum is larger than the sum, nor are two parts together.
LEMMA SumAtLeast ==
    ASSUME NEW S, Finite(S), NEW f \in [S -> Nat], NEW a \in S
    PROVE  /\ f[a] <= SumOver(f)
           /\ \A b \in S : b # a => f[a] + f[b] <= SumOver(f)
<1> DEFINE h == [f EXCEPT ![a] = 0]
<1>1. h \in [S -> Nat] /\ h[a] = 0 /\ \A x \in S : x # a => h[x] = f[x]
  OBVIOUS
<1> HIDE DEF h
<1>2. SumOver(h) + f[a] = SumOver(f) + h[a]
  BY <1>1, SumChanges
<1>3. SumOver(h) \in Nat /\ SumOver(f) \in Nat /\ f[a] \in Nat
  BY <1>1, SumTyped
<1>4. f[a] <= SumOver(f)
  BY <1>1, <1>2, <1>3
<1>5. ASSUME NEW b \in S, b # a PROVE f[a] + f[b] <= SumOver(f)
  <2> DEFINE k == [h EXCEPT ![b] = 0]
  <2>1. k \in [S -> Nat] /\ k[b] = 0 /\ \A x \in S : x # b => k[x] = h[x]
    BY <1>1
  <2> HIDE DEF k
  <2>2. SumOver(k) + h[b] = SumOver(h) + k[b]
    BY <1>1, <2>1, SumChanges
  <2>3. SumOver(k) \in Nat /\ h[b] = f[b] /\ f[b] \in Nat
    BY <1>1, <1>5, <2>1, SumTyped
  <2> QED BY <1>1, <1>2, <1>3, <2>1, <2>2, <2>3
<1> QED BY <1>4, <1>5

LEMMA SumOfOne ==
    ASSUME NEW S, Finite(S), NEW a \in S, \A x \in S : x = a, NEW f \in [S -> Nat]
    PROVE  SumOver(f) = f[a]
<1> DEFINE h == [x \in S |-> 0]
<1>1. h \in [S -> Nat] /\ h[a] = 0 /\ SumOver(h) = 0
  BY SumOfNothing
<1> HIDE DEF h
<1>2. SumOver(h) + f[a] = SumOver(f) + h[a]
  BY <1>1, SumChanges
<1>3. SumOver(f) \in Nat /\ f[a] \in Nat
  BY SumTyped
<1> QED BY <1>1, <1>2, <1>3

LEMMA FiniteMore ==
    ASSUME NEW S, Finite(S), NEW a
    PROVE  Finite(S \cup {a})
  BY FS_AddElement DEF Finite

LEMMA FiniteFew ==
    ASSUME NEW S, \A x, y \in S : x = y
    PROVE  Finite(S)
<1>1. CASE S = {}
  BY <1>1, FS_EmptySet DEF Finite
<1>2. CASE S # {}
  <2>1. PICK a \in S : S = {a}
    BY <1>2
  <2> QED BY <2>1, FS_Singleton DEF Finite
<1> QED BY <1>1, <1>2
=============================================================================
