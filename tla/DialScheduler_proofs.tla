------------------------ MODULE DialScheduler_proofs ------------------------
(***************************************************************************)
(* The pool of the dial scheduler is exact, and its limit is kept, for any *)
(* set of nodes, any limits, and any server that tells it of peers.        *)
(***************************************************************************)
EXTENDS DialScheduler, FiniteSetTheorems, SequenceTheorems, TLAPS

PoolTypeOK ==
    /\ staticPool \in Seq(Nodes)
    /\ staticPoolIndex \in [Nodes -> Nat \cup {-1}]

\* addToStaticPool, called for a task outside the pool, puts it in and leaves
\* every other task where it is (dial.go:297-303).
LEMMA PoolGrows ==
    ASSUME PoolTypeOK, PoolIndexed,
           NEW n \in Nodes, staticPoolIndex[n] < 0, addToStaticPool(n)
    PROVE  /\ PoolTypeOK' /\ PoolIndexed'
           /\ \A m \in Nodes : staticPoolIndex'[m] >= 0 <=> staticPoolIndex[m] >= 0 \/ m = n
<1> DEFINE k == Len(staticPool)
<1>1. k \in Nat /\ DOMAIN staticPool = 1 .. k
  BY DEF PoolTypeOK
<1>2. /\ staticPool' \in Seq(Nodes) /\ Len(staticPool') = k + 1
      /\ DOMAIN staticPool' = 1 .. k + 1
      /\ \A i \in 1 .. k : staticPool'[i] = staticPool[i]
      /\ staticPool'[k + 1] = n
  BY DEF PoolTypeOK, addToStaticPool
<1>3. /\ staticPoolIndex' \in [Nodes -> Nat \cup {-1}]
      /\ staticPoolIndex'[n] = k
      /\ \A m \in Nodes \ {n} : staticPoolIndex'[m] = staticPoolIndex[m]
  BY <1>1 DEF PoolTypeOK, addToStaticPool
<1>4. \A i \in 1 .. k : staticPool[i] \in Nodes \ {n}
  BY <1>1 DEF PoolTypeOK, PoolIndexed
<1> HIDE DEF k
<1>5. \A i \in 1 .. k + 1 : staticPoolIndex'[staticPool'[i]] = i - 1
  <2> TAKE i \in 1 .. k + 1
  <2>1. CASE i = k + 1
    BY <1>1, <1>2, <1>3, <2>1
  <2>2. CASE i \in 1 .. k
    BY <1>1, <1>2, <1>3, <1>4, <2>2 DEF PoolIndexed
  <2> QED BY <1>1, <2>1, <2>2
<1>6. ASSUME NEW m \in Nodes, staticPoolIndex'[m] >= 0
      PROVE  /\ staticPoolIndex'[m] + 1 \in 1 .. k + 1
             /\ staticPool'[staticPoolIndex'[m] + 1] = m
  <2>1. CASE m = n
    BY <1>1, <1>2, <1>3, <2>1
  <2>2. CASE m # n
    <3>1. /\ staticPoolIndex'[m] = staticPoolIndex[m]
          /\ staticPoolIndex[m] + 1 \in 1 .. k
          /\ staticPool[staticPoolIndex[m] + 1] = m
      BY <1>1, <1>3, <1>6, <2>2 DEF PoolIndexed
    <3> QED BY <1>1, <1>2, <3>1
  <2> QED BY <2>1, <2>2
<1>7. PoolIndexed'
  BY <1>2, <1>5, <1>6 DEF PoolIndexed
<1> QED BY <1>1, <1>2, <1>3, <1>7 DEF PoolTypeOK

\* removeFromStaticPool takes out the task at the given place, and no other
\* (dial.go:305-313).
LEMMA PoolShrinks ==
    ASSUME PoolTypeOK, PoolIndexed,
           NEW idx \in 0 .. Len(staticPool) - 1, removeFromStaticPool(idx)
    PROVE  /\ PoolTypeOK' /\ PoolIndexed'
           /\ \A m \in Nodes : staticPoolIndex'[m] >= 0
                 <=> staticPoolIndex[m] >= 0 /\ m # staticPool[idx + 1]
<1> DEFINE k    == Len(staticPool)
           task == staticPool[idx + 1]
           last == staticPool[k]
           moved == [staticPool EXCEPT ![idx + 1] = last]
<1>1. k \in Nat /\ DOMAIN staticPool = 1 .. k /\ idx + 1 \in 1 .. k /\ k \in 1 .. k
  BY DEF PoolTypeOK
<1>2. task \in Nodes /\ last \in Nodes
  BY <1>1 DEF PoolTypeOK
<1>3. moved \in Seq(Nodes) /\ Len(moved) = k
  BY <1>1, <1>2 DEF PoolTypeOK
<1>4. staticPool' = SubSeq(moved, 1, k - 1)
  BY <1>3 DEF removeFromStaticPool, Front, Last
<1>5. /\ staticPool' \in Seq(Nodes) /\ Len(staticPool') = k - 1
      /\ DOMAIN staticPool' = 1 .. k - 1
      /\ \A i \in 1 .. k - 1 : staticPool'[i] = IF i = idx + 1 THEN last ELSE staticPool[i]
  BY <1>1, <1>3, <1>4 DEF PoolTypeOK
<1>6. staticPoolIndex' = [staticPoolIndex EXCEPT ![last] = idx, ![task] = -1]
  BY DEF removeFromStaticPool, Last
<1>7. staticPoolIndex[task] = idx /\ staticPoolIndex[last] = k - 1
  BY <1>1 DEF PoolIndexed
<1>8. /\ staticPoolIndex' \in [Nodes -> Nat \cup {-1}]
      /\ staticPoolIndex'[task] = -1
      /\ last # task => staticPoolIndex'[last] = idx
      /\ \A m \in Nodes \ {task, last} : staticPoolIndex'[m] = staticPoolIndex[m]
  BY <1>1, <1>2, <1>6 DEF PoolTypeOK
<1>9. last = task <=> idx = k - 1
  <2>1. last = task => idx = k - 1
    BY <1>7
  <2>2. idx = k - 1 => idx + 1 = k
    BY <1>1
  <2> HIDE DEF k
  <2> QED BY <2>1, <2>2
<1>10. \A i \in 1 .. k : staticPool[i] \in Nodes /\ staticPoolIndex[staticPool[i]] = i - 1
  <2>1. \A i \in 1 .. k : staticPool[i] \in Nodes
    BY <1>1 DEF PoolTypeOK
  <2>2. \A i \in 1 .. k : staticPoolIndex[staticPool[i]] = i - 1
    BY <1>1 DEF PoolIndexed
  <2> QED BY <2>1, <2>2
<1>11. \A m \in Nodes : staticPoolIndex[m] >= 0 =>
          /\ staticPoolIndex[m] + 1 \in 1 .. k
          /\ staticPool[staticPoolIndex[m] + 1] = m
  BY <1>1 DEF PoolIndexed
<1>12. \A m \in Nodes : staticPoolIndex[m] \in Nat \cup {-1}
  BY DEF PoolTypeOK
<1> HIDE DEF k, task, last, moved
<1>13. \A i \in 1 .. k - 1 : staticPoolIndex'[staticPool'[i]] = i - 1
  <2> TAKE i \in 1 .. k - 1
  <2>1. CASE i = idx + 1
    BY <1>1, <1>5, <1>8, <1>9, <2>1
  <2>2. CASE i # idx + 1
    <3>1. staticPool'[i] = staticPool[i] /\ staticPoolIndex[staticPool[i]] = i - 1
      BY <1>1, <1>5, <1>10, <2>2
    <3>2. staticPool[i] \in Nodes \ {task, last}
      BY <1>1, <1>7, <1>10, <2>2
    <3> QED BY <1>8, <3>1, <3>2
  <2> QED BY <2>1, <2>2
<1>14. ASSUME NEW m \in Nodes, staticPoolIndex'[m] >= 0
       PROVE  /\ staticPoolIndex'[m] + 1 \in 1 .. k - 1
              /\ staticPool'[staticPoolIndex'[m] + 1] = m
              /\ staticPoolIndex[m] >= 0 /\ m # task
  <2>1. m # task
    BY <1>8, <1>14
  <2>2. CASE m = last
    BY <1>1, <1>5, <1>7, <1>8, <1>9, <2>1, <2>2
  <2>3. CASE m # last
    <3>1. staticPoolIndex'[m] = staticPoolIndex[m]
      BY <1>8, <2>1, <2>3
    <3>2. staticPoolIndex[m] + 1 \in 1 .. k /\ staticPool[staticPoolIndex[m] + 1] = m
      BY <1>11, <1>14, <3>1
    <3>3. staticPoolIndex[m] + 1 # k /\ staticPoolIndex[m] + 1 # idx + 1
      BY <2>1, <2>3, <3>2 DEF task, last
    <3>4. staticPoolIndex[m] + 1 \in 1 .. k - 1
      BY <1>1, <1>12, <3>2, <3>3
    <3> QED BY <1>5, <1>14, <2>1, <3>1, <3>2, <3>3, <3>4
  <2> QED BY <2>2, <2>3
<1>15. ASSUME NEW m \in Nodes, staticPoolIndex[m] >= 0, m # task
       PROVE  staticPoolIndex'[m] >= 0
  <2>1. CASE m = last
    BY <1>1, <1>8, <1>15, <2>1
  <2>2. CASE m # last
    BY <1>8, <1>15, <2>2
  <2> QED BY <2>1, <2>2
<1>16. PoolIndexed'
  BY <1>5, <1>13, <1>14 DEF PoolIndexed
<1>17. PoolTypeOK'
  BY <1>5, <1>8 DEF PoolTypeOK
<1> QED BY <1>14, <1>15, <1>16, <1>17 DEF task

\* updateStaticPool puts a static node in the pool if the given tables let it
\* through, and changes nothing else (dial.go:290-295).
LEMMA PoolUpdated ==
    ASSUME PoolTypeOK, PoolIndexed, NEW n \in Nodes,
           NEW inDialing, NEW inPeers, NEW inHistory,
           updateStaticPool(n, inDialing, inPeers, inHistory)
    PROVE  /\ PoolTypeOK' /\ PoolIndexed'
           /\ \A m \in Nodes : staticPoolIndex'[m] >= 0
                 <=> \/ staticPoolIndex[m] >= 0
                     \/ /\ m = n /\ n \in static
                        /\ checkDial(n, inDialing, inPeers, inHistory)
<1> DEFINE fits == n \in static /\ checkDial(n, inDialing, inPeers, inHistory)
<1>1. CASE fits /\ staticPoolIndex[n] < 0
  <2>1. addToStaticPool(n)
    BY <1>1 DEF updateStaticPool
  <2> QED BY <1>1, <2>1, PoolGrows
<1>2. CASE ~(fits /\ staticPoolIndex[n] < 0)
  <2>1. UNCHANGED <<staticPool, staticPoolIndex>>
    BY <1>2 DEF updateStaticPool, poolVars
  <2>2. PoolTypeOK' /\ PoolIndexed'
    BY <2>1 DEF PoolTypeOK, PoolIndexed
  <2>3. staticPoolIndex[n] \in Nat \cup {-1}
    BY DEF PoolTypeOK
  <2> QED BY <1>2, <2>1, <2>2, <2>3
<1> QED BY <1>1, <1>2

\* What PeerAdded and RemoveStatic do to the pool: a static node leaves it if it
\* is there (dial.go:187-190, 213-219).
LEMMA PoolDropped ==
    ASSUME PoolTypeOK, PoolIndexed, NEW n \in Nodes,
           IF n \in static /\ staticPoolIndex[n] >= 0
           THEN removeFromStaticPool(staticPoolIndex[n])
           ELSE UNCHANGED poolVars
    PROVE  /\ PoolTypeOK' /\ PoolIndexed'
           /\ \A m \in Nodes : staticPoolIndex'[m] >= 0
                 <=> staticPoolIndex[m] >= 0 /\ ~(m = n /\ n \in static)
<1>1. CASE n \in static /\ staticPoolIndex[n] >= 0
  <2>1. /\ staticPoolIndex[n] \in 0 .. Len(staticPool) - 1
        /\ staticPool[staticPoolIndex[n] + 1] = n
    BY <1>1 DEF PoolIndexed, PoolTypeOK
  <2>2. removeFromStaticPool(staticPoolIndex[n])
    BY <1>1
  <2> QED BY <1>1, <2>1, <2>2, PoolShrinks
<1>2. CASE ~(n \in static /\ staticPoolIndex[n] >= 0)
  <2>1. UNCHANGED <<staticPool, staticPoolIndex>>
    BY <1>2 DEF poolVars
  <2>2. PoolTypeOK' /\ PoolIndexed'
    BY <2>1 DEF PoolTypeOK, PoolIndexed
  <2> QED BY <1>2, <2>1, <2>2
<1> QED BY <1>1, <1>2

\* A pool of length k and its indexes idx, a sequence of c tasks outside it, and
\* the pool and indexes that result from appending them.
Appended(N, back, k, c, pool, order, longer, idx, idx2, at) ==
    /\ back \subseteq N /\ k \in Nat /\ c \in Nat
    /\ \A i \in 1 .. k : pool[i] \in N \ back /\ idx[pool[i]] = i - 1
    /\ \A n \in N : idx[n] \in Nat \cup {-1}
    /\ \A n \in N : idx[n] >= 0 => idx[n] + 1 \in 1 .. k /\ pool[idx[n] + 1] = n
    /\ \A n \in back : at[n] \in 1 .. c /\ order[at[n]] = n
    /\ \A i \in 1 .. c : order[i] \in back /\ at[order[i]] = i
    /\ \A i \in 1 .. k + c : longer[i] = IF i <= k THEN pool[i] ELSE order[i - k]
    /\ \A n \in back : idx2[n] = k - 1 + at[n]
    /\ \A n \in N \ back : idx2[n] = idx[n]

\* What is appended to an indexed pool, with the indexes that go on from its
\* length, makes an indexed pool (dial.go:245-251, 297-303).
LEMMA AppendedIsIndexed ==
    ASSUME NEW N, NEW back, NEW k, NEW c, NEW pool, NEW order, NEW longer,
           NEW idx, NEW idx2, NEW at,
           Appended(N, back, k, c, pool, order, longer, idx, idx2, at)
    PROVE  /\ \A n \in N : idx2[n] \in Nat \cup {-1}
           /\ \A i \in 1 .. k + c : longer[i] \in N /\ idx2[longer[i]] = i - 1
           /\ \A n \in N : idx2[n] >= 0 =>
                 idx2[n] + 1 \in 1 .. k + c /\ longer[idx2[n] + 1] = n
           /\ \A n \in N : idx2[n] >= 0 <=> idx[n] >= 0 \/ n \in back
<1> USE DEF Appended
<1>1. ASSUME NEW n \in back
      PROVE  /\ idx2[n] \in Nat /\ idx2[n] + 1 \in 1 .. k + c
             /\ longer[idx2[n] + 1] = n
  <2>1. at[n] \in 1 .. c /\ idx2[n] = k - 1 + at[n] /\ order[at[n]] = n
    OBVIOUS
  <2>2. idx2[n] \in Nat /\ idx2[n] + 1 \in 1 .. k + c
    BY <2>1
  <2>3. ~(idx2[n] + 1 <= k) /\ idx2[n] + 1 - k = at[n]
    BY <2>1
  <2> QED BY <2>1, <2>2, <2>3
<1>2. ASSUME NEW n \in N \ back
      PROVE  /\ idx2[n] = idx[n] /\ idx2[n] \in Nat \cup {-1}
             /\ idx2[n] >= 0 => idx2[n] + 1 \in 1 .. k + c /\ longer[idx2[n] + 1] = n
  <2>1. idx2[n] = idx[n] /\ idx[n] \in Nat \cup {-1}
    OBVIOUS
  <2>2. ASSUME idx[n] >= 0 PROVE idx[n] + 1 \in 1 .. k + c /\ longer[idx[n] + 1] = n
    <3>1. idx[n] + 1 \in 1 .. k /\ pool[idx[n] + 1] = n
      BY <2>2
    <3> QED BY <3>1
  <2> QED BY <2>1, <2>2
<1>3. ASSUME NEW i \in 1 .. k + c
      PROVE  longer[i] \in N /\ idx2[longer[i]] = i - 1
  <2>1. CASE i <= k
    BY <2>1
  <2>2. CASE ~(i <= k)
    <3>1. i - k \in 1 .. c /\ longer[i] = order[i - k]
      BY <2>2
    <3>2. order[i - k] \in back /\ at[order[i - k]] = i - k
      BY <3>1
    <3>3. idx2[longer[i]] = k - 1 + (i - k)
      BY <3>1, <3>2
    <3> QED BY <3>1, <3>2, <3>3
  <2> QED BY <2>1, <2>2
<1>4. \A n \in N : idx2[n] >= 0 <=> idx[n] >= 0 \/ n \in back
  BY <1>1, <1>2
<1> QED BY <1>1, <1>2, <1>3, <1>4

\* Appending the tasks of a set of nodes outside the pool, in any order, adds
\* exactly those (dial.go:245-251).
LEMMA PoolExtended ==
    ASSUME PoolTypeOK, PoolIndexed, NEW back \in SUBSET Nodes, IsFiniteSet(back),
           \A n \in back : staticPoolIndex[n] < 0,
           NEW order \in Bijection(1 .. Cardinality(back), back),
           staticPool' = staticPool \o order,
           staticPoolIndex' =
               [n \in Nodes |->
                   IF n \in back
                   THEN Len(staticPool) - 1 + CHOOSE i \in DOMAIN order : order[i] = n
                   ELSE staticPoolIndex[n]]
    PROVE  /\ PoolTypeOK' /\ PoolIndexed'
           /\ \A m \in Nodes : staticPoolIndex'[m] >= 0 <=> staticPoolIndex[m] >= 0 \/ m \in back
<1> DEFINE k == Len(staticPool)
           c == Cardinality(back)
           at == [n \in back |-> CHOOSE i \in DOMAIN order : order[i] = n]
<1>1. k \in Nat /\ DOMAIN staticPool = 1 .. k
  BY DEF PoolTypeOK
<1>2. c \in Nat
  BY FS_CardinalityType
<1>3. /\ order \in [1 .. c -> back]
      /\ \A i, j \in 1 .. c : order[i] = order[j] => i = j
      /\ \A n \in back : \E i \in 1 .. c : order[i] = n
  BY Zenon DEF Bijection, Injection, IsInjective, Surjection
<1>4. \A n \in back : at[n] \in 1 .. c /\ order[at[n]] = n
  BY <1>3
<1>5. order \in Seq(Nodes) /\ Len(order) = c
  BY <1>2, <1>3
<1>6. /\ staticPool' \in Seq(Nodes) /\ Len(staticPool') = k + c
      /\ DOMAIN staticPool' = 1 .. k + c
      /\ \A i \in 1 .. k + c : staticPool'[i] = IF i <= k THEN staticPool[i] ELSE order[i - k]
  <2>1. staticPool \in Seq(Nodes)
    BY DEF PoolTypeOK
  <2>2. /\ staticPool \o order \in Seq(Nodes)
        /\ Len(staticPool \o order) = k + c
        /\ \A i \in 1 .. k + c :
              (staticPool \o order)[i] = IF i <= k THEN staticPool[i] ELSE order[i - k]
    BY <1>5, <2>1, ConcatProperties
  <2>3. DOMAIN (staticPool \o order) = 1 .. k + c
    BY <2>2
  <2> QED BY <2>2, <2>3
<1>7. \A n \in Nodes : staticPoolIndex'[n] = IF n \in back THEN k - 1 + at[n] ELSE staticPoolIndex[n]
  OBVIOUS
<1>8. \A n \in Nodes : staticPoolIndex[n] \in Nat \cup {-1}
  BY DEF PoolTypeOK
<1>9. \A i \in 1 .. k : staticPool[i] \in Nodes \ back /\ staticPoolIndex[staticPool[i]] = i - 1
  <2>1. \A i \in 1 .. k : staticPool[i] \in Nodes
    BY <1>1 DEF PoolTypeOK
  <2>2. \A i \in 1 .. k : staticPoolIndex[staticPool[i]] = i - 1
    BY <1>1 DEF PoolIndexed
  <2> QED BY <1>1, <2>1, <2>2
<1>10. \A n \in Nodes : staticPoolIndex[n] >= 0 =>
          staticPoolIndex[n] + 1 \in 1 .. k /\ staticPool[staticPoolIndex[n] + 1] = n
  BY <1>1 DEF PoolIndexed
<1>11. DOMAIN staticPoolIndex' = Nodes /\ staticPoolIndex' = [n \in Nodes |-> staticPoolIndex'[n]]
  OBVIOUS
<1>12. \A i \in 1 .. c : order[i] \in back /\ at[order[i]] = i
  BY <1>3, <1>4
<1>13. \A n \in back : staticPoolIndex'[n] = k - 1 + at[n]
  BY <1>7
<1>14. \A n \in Nodes \ back : staticPoolIndex'[n] = staticPoolIndex[n]
  BY <1>7
<1> HIDE DEF k, c, at
<1>15. PICK p, x, p2, x2 : /\ p = staticPool /\ x = staticPoolIndex
                           /\ p2 = staticPool' /\ x2 = staticPoolIndex'
  OBVIOUS
<1>16. /\ \A n \in Nodes : x2[n] \in Nat \cup {-1}
       /\ \A i \in 1 .. k + c : p2[i] \in Nodes /\ x2[p2[i]] = i - 1
       /\ \A n \in Nodes : x2[n] >= 0 =>
             x2[n] + 1 \in 1 .. k + c /\ p2[x2[n] + 1] = n
       /\ \A n \in Nodes : x2[n] >= 0 <=> x[n] >= 0 \/ n \in back
  <2>1. Appended(Nodes, back, k, c, p, order, p2, x, x2, at)
    BY <1>1, <1>2, <1>4, <1>6, <1>8, <1>9, <1>10, <1>12, <1>13, <1>14, <1>15 DEF Appended
  <2> QED BY <2>1, AppendedIsIndexed
<1>17. PoolIndexed'
  BY <1>6, <1>15, <1>16 DEF PoolIndexed
<1>18. PoolTypeOK'
  BY <1>6, <1>11, <1>15, <1>16 DEF PoolTypeOK
<1> QED BY <1>15, <1>16, <1>17, <1>18

-----------------------------------------------------------------------------
(* The inductive invariant: PoolExact needs PoolIndexed, for which task a  *)
(* removal takes out, and DialBound that the sets counted are finite.      *)

DialInv ==
    /\ DialTypeOK
    /\ IsFiniteSet(dialing) /\ IsFiniteSet(history)
    /\ PoolIndexed
    /\ PoolExact
    /\ DialBound

\* The scheduler starts with nothing to do.
LEMMA DialInvInit == DialInit => DialInv
<1> SUFFICES ASSUME DialInit PROVE DialInv
  OBVIOUS
<1>1. IsFiniteSet(dialing) /\ IsFiniteSet(history) /\ Cardinality(dialing) = 0
  BY FS_EmptySet DEF DialInit
<1>2. DialTypeOK
  <2>1. staticPool = <<>> /\ staticPoolIndex = [n \in Nodes |-> -1]
    BY DEF DialInit
  <2>2. staticPool \in Seq(Nodes) /\ staticPoolIndex \in [Nodes -> Nat \cup {-1}]
    BY <2>1
  <2>3. /\ dialLoop \in {"off", "on"} /\ static \in SUBSET Nodes
        /\ dialing \in SUBSET Nodes /\ finished \in SUBSET dialing
        /\ connected \in SUBSET Nodes /\ history \in SUBSET Nodes
    BY DEF DialInit
  <2>4. dialPeers = 0 /\ 0 \in Int
    BY DEF DialInit
  <2>5. historyTimer \in BOOLEAN
    BY Zenon DEF DialInit
  <2> QED BY <2>2, <2>3, <2>4, <2>5 DEF DialTypeOK
<1>3. PoolIndexed
  <2>1. staticPool = <<>> /\ \A n \in Nodes : staticPoolIndex[n] = -1
    BY DEF DialInit
  <2>2. DOMAIN staticPool = {}
    BY <2>1
  <2>3. \A n \in Nodes : ~(staticPoolIndex[n] >= 0)
    BY <2>1
  <2> QED BY <2>2, <2>3 DEF PoolIndexed
<1>4. PoolExact
  BY DEF DialInit, PoolExact
<1>5. DialBound
  BY <1>1, DialAssumption DEF DialBound
<1> QED BY <1>1, <1>2, <1>3, <1>4, <1>5 DEF DialInv

\* Every step keeps the invariant.
LEMMA DialInvStep == DialInv /\ [DialNext]_dialVars => DialInv'
<1> SUFFICES ASSUME DialInv, [DialNext]_dialVars PROVE DialInv'
  OBVIOUS
<1> USE DEF DialInv
<1>1. PoolTypeOK /\ maxActiveDials \in Nat /\ Cardinality(dialing) \in Nat
  BY DialAssumption, FS_CardinalityType DEF DialTypeOK, PoolTypeOK
<1>2. CASE newDialScheduler
  <2>1. IsFiniteSet(dialing') /\ IsFiniteSet(history') /\ Cardinality(dialing') = 0
    BY <1>2, FS_EmptySet DEF newDialScheduler
  <2>2. DialTypeOK'
    BY <1>2 DEF newDialScheduler, DialTypeOK
  <2>3. PoolIndexed' /\ PoolExact'
    BY <1>2 DEF newDialScheduler, PoolIndexed, PoolExact
  <2>4. DialBound'
    BY <1>1, <2>1 DEF DialBound
  <2> QED BY <2>1, <2>2, <2>3, <2>4
<1>3. CASE ExpireHistory
  <2>1. PICK expired \in SUBSET history :
            LET back == {n \in expired \cap static :
                            /\ staticPoolIndex[n] < 0
                            /\ checkDial(n, dialing, connected, history \ expired)}
            IN  \E order \in Bijection(1 .. Cardinality(back), back) :
                   /\ history' = history \ expired
                   /\ staticPool' = staticPool \o order
                   /\ staticPoolIndex' =
                         [n \in Nodes |->
                             IF n \in back
                             THEN Len(staticPool) - 1 + CHOOSE i \in DOMAIN order : order[i] = n
                             ELSE staticPoolIndex[n]]
    BY <1>3 DEF ExpireHistory
  <2> DEFINE back == {n \in expired \cap static :
                         /\ staticPoolIndex[n] < 0
                         /\ checkDial(n, dialing, connected, history \ expired)}
  <2>2. /\ dialLoop' = dialLoop /\ static' = static /\ dialing' = dialing
        /\ finished' = finished /\ connected' = connected /\ dialPeers' = dialPeers
        /\ historyTimer' = FALSE /\ history' = history \ expired
    BY <1>3, <2>1 DEF ExpireHistory
  <2>3. back \in SUBSET Nodes /\ IsFiniteSet(back) /\ IsFiniteSet(history \ expired)
    <3>1. back \subseteq history /\ history \ expired \subseteq history /\ back \subseteq Nodes
      BY DEF DialTypeOK
    <3> QED BY <3>1, FS_Subset
  <2>4. /\ PoolTypeOK' /\ PoolIndexed'
        /\ \A m \in Nodes : staticPoolIndex'[m] >= 0 <=> staticPoolIndex[m] >= 0 \/ m \in back
    <3>1. \A n \in back : staticPoolIndex[n] < 0
      OBVIOUS
    <3>2. PICK order \in Bijection(1 .. Cardinality(back), back) :
              /\ staticPool' = staticPool \o order
              /\ staticPoolIndex' =
                    [n \in Nodes |->
                        IF n \in back
                        THEN Len(staticPool) - 1 + CHOOSE i \in DOMAIN order : order[i] = n
                        ELSE staticPoolIndex[n]]
      BY <2>1
    <3> HIDE DEF back
    <3> QED BY <1>1, <2>3, <3>1, <3>2, PoolExtended
  <2>5. DialTypeOK'
    BY <2>2, <2>4 DEF DialTypeOK, PoolTypeOK
  <2>6. PoolExact'
    <3> SUFFICES ASSUME NEW n \in Nodes
                 PROVE  staticPoolIndex'[n] >= 0
                           <=> n \in static /\ checkDial(n, dialing, connected, history \ expired)
      BY <2>2 DEF PoolExact, checkDial
    <3>1. staticPoolIndex'[n] >= 0 <=> staticPoolIndex[n] >= 0 \/ n \in back
      BY <2>4
    <3>2. staticPoolIndex[n] \in Nat \cup {-1}
      BY DEF DialTypeOK
    <3>3. staticPoolIndex[n] >= 0 <=> n \in static /\ checkDial(n, dialing, connected, history)
      BY DEF PoolExact
    <3>4. n \in back <=> /\ n \in expired /\ n \in static /\ ~(staticPoolIndex[n] >= 0)
                         /\ checkDial(n, dialing, connected, history \ expired)
      BY <3>2
    <3> QED BY <2>1, <3>1, <3>3, <3>4 DEF checkDial
  <2> QED BY <2>2, <2>3, <2>4, <2>5, <2>6 DEF DialBound
<1>4. CASE StopDialLoop
  <2>1. DialTypeOK'
    BY <1>4 DEF StopDialLoop, DialTypeOK, poolVars
  <2> QED BY <1>4, <2>1 DEF StopDialLoop, poolVars, PoolIndexed, PoolExact, checkDial, DialBound
<1>5. ASSUME NEW n \in Nodes, StartStaticDial(n) PROVE DialInv'
  <2>1. PICK idx \in 0 .. Len(staticPool) - 1 : n = staticPool[idx + 1] /\ removeFromStaticPool(idx)
    BY <1>5 DEF StartStaticDial
  <2>2. /\ history' = history \cup {n} /\ dialing' = dialing \cup {n}
        /\ dialLoop' = dialLoop /\ static' = static /\ finished' = finished
        /\ connected' = connected /\ dialPeers' = dialPeers /\ historyTimer' = historyTimer
    BY <1>5 DEF StartStaticDial
  <2>3. /\ PoolTypeOK' /\ PoolIndexed'
        /\ \A m \in Nodes : staticPoolIndex'[m] >= 0 <=> staticPoolIndex[m] >= 0 /\ m # n
    BY <1>1, <2>1, PoolShrinks
  <2>4. DialTypeOK'
    BY <2>2, <2>3 DEF DialTypeOK, PoolTypeOK
  <2>5. /\ IsFiniteSet(dialing') /\ IsFiniteSet(history')
        /\ Cardinality(dialing') \in {Cardinality(dialing), Cardinality(dialing) + 1}
    BY <2>2, FS_AddElement
  <2>6. PoolExact'
    BY <2>2, <2>3 DEF PoolExact, checkDial
  <2>7. Cardinality(dialing) < maxActiveDials
    <3>1. freeDialSlots > 0
      BY <1>5 DEF StartStaticDial, CanStart
    <3>2. dialPeers \in Int /\ maxDialPeers \in Nat
      BY DialAssumption DEF DialTypeOK
    <3> QED BY <1>1, <3>1, <3>2 DEF freeDialSlots
  <2>8. DialBound'
    <3>1. Cardinality(dialing') \in Nat
      BY <2>5, FS_CardinalityType
    <3>2. maxActiveDials' = maxActiveDials
      OBVIOUS
    <3> QED BY <1>1, <2>5, <2>7, <3>1 DEF DialBound
  <2> QED BY <2>3, <2>4, <2>5, <2>6, <2>8
<1>6. ASSUME NEW n \in Nodes, TaskReturned(n) PROVE DialInv'
  <2>1. DialTypeOK'
    BY <1>6 DEF TaskReturned, DialTypeOK, poolVars
  <2> QED BY <1>6, <2>1 DEF TaskReturned, poolVars, PoolIndexed, PoolExact, checkDial, DialBound
<1>7. ASSUME NEW n \in Nodes, DialDone(n) PROVE DialInv'
  <2>1. /\ dialing' = dialing \ {n} /\ finished' = finished \ {n}
        /\ dialLoop' = dialLoop /\ static' = static /\ history' = history
        /\ connected' = connected /\ dialPeers' = dialPeers /\ historyTimer' = historyTimer
        /\ updateStaticPool(n, dialing \ {n}, connected, history)
    BY <1>7 DEF DialDone
  <2>2. /\ PoolTypeOK' /\ PoolIndexed'
        /\ \A m \in Nodes : staticPoolIndex'[m] >= 0
              <=> \/ staticPoolIndex[m] >= 0
                  \/ /\ m = n /\ n \in static
                     /\ checkDial(n, dialing \ {n}, connected, history)
    BY <1>1, <2>1, PoolUpdated
  <2>3. DialTypeOK'
    BY <2>1, <2>2 DEF DialTypeOK, PoolTypeOK
  <2>4. IsFiniteSet(dialing') /\ Cardinality(dialing') <= Cardinality(dialing)
    BY <1>1, <2>1, FS_RemoveElement, FS_Subset
  <2>5. PoolExact'
    BY <2>1, <2>2 DEF PoolExact, checkDial
  <2>6. DialBound'
    <3>1. Cardinality(dialing') \in Nat
      BY <2>4, FS_CardinalityType
    <3> QED BY <1>1, <2>4, <3>1 DEF DialBound
  <2> QED BY <2>1, <2>2, <2>3, <2>4, <2>5, <2>6
<1>8. ASSUME NEW n \in Nodes, NEW dialed \in BOOLEAN, NEW returned \in BOOLEAN,
             PeerAdded(n, dialed, returned)
      PROVE  DialInv'
  <2>1. /\ connected' = connected \cup {n} /\ finished' \in SUBSET dialing /\ dialPeers' \in Int
        /\ dialLoop' = dialLoop /\ static' = static /\ history' = history
        /\ dialing' = dialing /\ historyTimer' = historyTimer
    BY <1>8 DEF PeerAdded, DialTypeOK
  <2>2. /\ PoolTypeOK' /\ PoolIndexed'
        /\ \A m \in Nodes : staticPoolIndex'[m] >= 0
              <=> staticPoolIndex[m] >= 0 /\ ~(m = n /\ n \in static)
    BY <1>1, <1>8, PoolDropped DEF PeerAdded
  <2>3. DialTypeOK'
    BY <2>1, <2>2 DEF DialTypeOK, PoolTypeOK
  <2>4. PoolExact'
    BY <2>1, <2>2 DEF PoolExact, checkDial
  <2> QED BY <2>1, <2>2, <2>3, <2>4 DEF DialBound
<1>9. ASSUME NEW n \in Nodes, NEW dialed \in BOOLEAN, PeerRemoved(n, dialed) PROVE DialInv'
  <2>1. /\ connected' = connected \ {n} /\ dialPeers' \in Int
        /\ dialLoop' = dialLoop /\ static' = static /\ history' = history
        /\ dialing' = dialing /\ finished' = finished /\ historyTimer' = historyTimer
        /\ updateStaticPool(n, dialing, connected \ {n}, history)
    BY <1>9 DEF PeerRemoved, DialTypeOK
  <2>2. /\ PoolTypeOK' /\ PoolIndexed'
        /\ \A m \in Nodes : staticPoolIndex'[m] >= 0
              <=> \/ staticPoolIndex[m] >= 0
                  \/ /\ m = n /\ n \in static
                     /\ checkDial(n, dialing, connected \ {n}, history)
    BY <1>1, <2>1, PoolUpdated
  <2>3. DialTypeOK'
    BY <2>1, <2>2 DEF DialTypeOK, PoolTypeOK
  <2>4. PoolExact'
    BY <2>1, <2>2 DEF PoolExact, checkDial
  <2> QED BY <2>1, <2>2, <2>3, <2>4 DEF DialBound
<1>10. ASSUME NEW n \in Nodes, AddStatic(n) PROVE DialInv'
  <2>1. /\ n \notin static /\ static' = static \cup {n}
        /\ connected' = connected /\ dialPeers' = dialPeers
        /\ dialLoop' = dialLoop /\ history' = history
        /\ dialing' = dialing /\ finished' = finished /\ historyTimer' = historyTimer
    BY <1>10 DEF AddStatic
  <2>2. staticPoolIndex[n] < 0
    BY <2>1 DEF PoolExact, DialTypeOK
  <2>3. CASE checkDial(n, dialing, connected, history)
    <3>1. addToStaticPool(n)
      BY <1>10, <2>3 DEF AddStatic
    <3>2. /\ PoolTypeOK' /\ PoolIndexed'
          /\ \A m \in Nodes : staticPoolIndex'[m] >= 0 <=> staticPoolIndex[m] >= 0 \/ m = n
      BY <1>1, <2>2, <3>1, PoolGrows
    <3>3. DialTypeOK'
      BY <2>1, <3>2 DEF DialTypeOK, PoolTypeOK
    <3>4. PoolExact'
      BY <2>1, <2>3, <3>2 DEF PoolExact, checkDial
    <3> QED BY <2>1, <3>2, <3>3, <3>4 DEF DialBound
  <2>4. CASE ~checkDial(n, dialing, connected, history)
    <3>1. staticPool' = staticPool /\ staticPoolIndex' = staticPoolIndex
      BY <1>10, <2>4 DEF AddStatic, poolVars
    <3>2. DialTypeOK' /\ PoolIndexed'
      BY <2>1, <3>1 DEF DialTypeOK, PoolIndexed
    <3>3. PoolExact'
      BY <2>1, <2>4, <3>1 DEF PoolExact, checkDial
    <3> QED BY <2>1, <3>2, <3>3 DEF DialBound
  <2> QED BY <2>3, <2>4
<1>11. ASSUME NEW n \in Nodes, RemoveStatic(n) PROVE DialInv'
  <2>1. /\ static' = static \ {n}
        /\ connected' = connected /\ dialPeers' = dialPeers
        /\ dialLoop' = dialLoop /\ history' = history
        /\ dialing' = dialing /\ finished' = finished /\ historyTimer' = historyTimer
    BY <1>11 DEF RemoveStatic
  <2>2. /\ PoolTypeOK' /\ PoolIndexed'
        /\ \A m \in Nodes : staticPoolIndex'[m] >= 0
              <=> staticPoolIndex[m] >= 0 /\ ~(m = n /\ n \in static)
    BY <1>1, <1>11, PoolDropped DEF RemoveStatic
  <2>3. DialTypeOK'
    BY <2>1, <2>2 DEF DialTypeOK, PoolTypeOK
  <2>4. PoolExact'
    BY <2>1, <2>2 DEF PoolExact, checkDial
  <2> QED BY <2>1, <2>2, <2>3, <2>4 DEF DialBound
<1>12. CASE UNCHANGED dialVars
  <2>1. DialTypeOK'
    BY <1>12 DEF dialVars, poolVars, DialTypeOK
  <2> QED BY <1>12, <2>1 DEF dialVars, poolVars, PoolIndexed, PoolExact, checkDial, DialBound
<1> QED BY <1>2, <1>3, <1>4, <1>5, <1>6, <1>7, <1>8, <1>9, <1>10, <1>11, <1>12 DEF DialNext

\* Every state of the scheduler, whatever the server tells it, satisfies the
\* invariant.
LEMMA DialInvHolds == DialSpec => []DialInv
  BY DialInvInit, DialInvStep, PTL DEF DialSpec

\* The scheduler's variables keep their types (dial.go:60-92).
THEOREM DialTypeCorrect == DialSpec => []DialTypeOK
<1>1. DialInv => DialTypeOK
  BY DEF DialInv
<1> QED BY <1>1, DialInvHolds, PTL

\* Every task knows its place in the pool, and the pool holds exactly the static
\* nodes that may be dialled, at any number of nodes and in any order of events
\* (dial.go:171-226, 261-313).
THEOREM PoolIsSound == DialSpec => []PoolSound
<1>1. DialInv => PoolSound
  BY DEF DialInv, PoolSound
<1> QED BY <1>1, DialInvHolds, PTL

\* No more dials run at once than configured, for any configuration
\* (dial.go:253-259, 280-288).
THEOREM DialsAreBounded == DialSpec => []DialBound
<1>1. DialInv => DialBound
  BY DEF DialInv
<1> QED BY <1>1, DialInvHolds, PTL
=============================================================================
