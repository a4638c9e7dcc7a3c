---------------------------- MODULE Peer_proofs ----------------------------
(***************************************************************************)
(* For any number of protocols, calls of Disconnect and buffered pings:    *)
(* the turn to write is neither doubled nor lost, and no goroutine of a    *)
(* peer waits to report its error.                                         *)
(*                                                                         *)
(* For any protocols and versions, in any order on either side: a message  *)
(* reaches the protocol that wrote it.  Placing the sorted capabilities    *)
(* one by one keeps a layout that fits what has been placed; what fits is  *)
(* decided by what the two sides have in common, so both arrive at the     *)
(* same; and in a layout that fits no two protocols share a code.          *)
(***************************************************************************)
EXTENDS PeerCodes, FiniteSetTheorems, TLAPS

\* The protocols and the ping loop that may still report, and the reports not
\* yet taken, fit protoErr; readErr is empty until the read loop ends.
Busy == {p \in Protocols : proto[p] # "done"}
Room == /\ protoErr + Cardinality(Busy) + (IF pingLoop = "done" THEN 0 ELSE 1)
              <= ProtoErrCapacity
        /\ readLoop # "done" => readErr = "none"
        /\ offered # {} => readLoop = "message"

PeerInv == PeerTypeOK /\ TurnConserved /\ Room

USE DEF Move, turnVars, errVars, readVars

\* The steps, one name each, for the case splits below (peer.go:205-318, 354-424).
LEMMA PeerCases ==
    ASSUME PeerNext
    PROVE  \/ RunStep \/ ReadStep \/ PingStep \/ WireBreaks \/ MessageDropped
           \/ \E p \in Protocols : ReadMessage(p) \/ Deliver(p)
           \/ \E p \in Protocols : \/ WriteMsg(p) \/ TakeTurn(p) \/ WriteClosed(p)
                                   \/ Write(p) \/ ReportWrite(p)
           \/ \E p \in Protocols : \/ ReadMsg(p) \/ ReadClosed(p)
                                   \/ ProtocolReturns(p) \/ ProtocolReports(p)
           \/ \E c \in Callers : CallerStep(c)
  BY Zenon DEF PeerNext, ProtocolStep, MessageStep

-----------------------------------------------------------------------------
\* Every step keeps the variables of the peer typed.
LEMMA PeerTypeStep ==
    ASSUME PeerTypeOK, [PeerNext]_peerVars
    PROVE  PeerTypeOK'
<1> USE PeerAssumption DEF PeerTypeOK, ProtoStates
<1>1. CASE RunStep
  <2>1. CASE PassTurn
    BY <2>1 DEF PassTurn
  <2>2. CASE Break
    BY <2>2 DEF Break
  <2>3. CASE CloseClosed
    BY <2>3 DEF CloseClosed
  <2>4. CASE CloseWire \/ Return
    BY <2>4 DEF CloseWire, Return
  <2> QED BY <1>1, <2>1, <2>2, <2>3, <2>4 DEF RunStep
<1>2. CASE ReadStep
  <2>1. CASE PutPing
    BY <2>1 DEF PutPing
  <2>2. CASE ReadPing \/ ReadEnds("failed") \/ ReadEnds("disc") \/ ReadFails
    BY <2>2 DEF ReadPing, ReadEnds, ReadFails
  <2> QED BY <1>2, <2>1, <2>2 DEF ReadStep
<1>3. CASE PingStep
  BY <1>3 DEF PingStep, SendPong, PingFails, PingReports, PingClosed
<1>4. CASE WireBreaks \/ MessageDropped
  BY <1>4 DEF WireBreaks, MessageDropped
<1>5. CASE \E p \in Protocols : ReadMessage(p) \/ Deliver(p)
  BY <1>5 DEF ReadMessage, Deliver
<1>6. ASSUME NEW p \in Protocols,
             WriteMsg(p) \/ TakeTurn(p) \/ WriteClosed(p) \/ Write(p) \/ ReportWrite(p)
      PROVE  PeerTypeOK'
  <2>1. CASE WriteMsg(p) \/ WriteClosed(p)
    BY <2>1 DEF WriteMsg, WriteClosed
  <2>2. CASE TakeTurn(p)
    BY <2>2 DEF TakeTurn
  <2>3. CASE Write(p)
    BY <2>3 DEF Write
  <2>4. CASE ReportWrite(p)
    BY <2>4 DEF ReportWrite
  <2> QED BY <1>6, <2>1, <2>2, <2>3, <2>4
<1>7. ASSUME NEW p \in Protocols,
             ReadMsg(p) \/ ReadClosed(p) \/ ProtocolReturns(p) \/ ProtocolReports(p)
      PROVE  PeerTypeOK'
  BY <1>7 DEF ReadMsg, ReadClosed, ProtocolReturns, ProtocolReports
<1>8. CASE \E c \in Callers : CallerStep(c)
  BY <1>8 DEF CallerStep, Disconnect, DisconnectTaken, DisconnectClosed
<1>9. CASE UNCHANGED peerVars
  BY <1>9 DEF peerVars
<1> QED BY <1>1, <1>2, <1>3, <1>4, <1>5, <1>6, <1>7, <1>8, <1>9, PeerCases

-----------------------------------------------------------------------------
\* A step that moves neither the turn nor run() back to its select keeps it
\* where it is.
LEMMA TurnUntouched ==
    ASSUME TurnConserved, UNCHANGED <<writeStart, writeErr>>,
           runLoop' = "select" => runLoop = "select",
           \A p \in Protocols : HoldsTurn(p)' <=> HoldsTurn(p)
    PROVE  TurnConserved'
  BY DEF TurnConserved

\* A protocol that moves between two places where it does not write, or two
\* where it does, leaves the turn with whoever has it.
LEMMA TurnMoves ==
    ASSUME PeerTypeOK, TurnConserved, UNCHANGED <<writeStart, writeErr, runLoop>>,
           NEW q \in Protocols, NEW s, proto' = [proto EXCEPT ![q] = s],
           s \in {"writing", "sent", "unsent"} <=> HoldsTurn(q)
    PROVE  TurnConserved'
<1>1. \A p \in Protocols : HoldsTurn(p)' <=> HoldsTurn(p)
  BY DEF HoldsTurn, PeerTypeOK
<1> QED BY <1>1, TurnUntouched

\* Every step conserves the turn.
LEMMA TurnStep ==
    ASSUME PeerTypeOK, TurnConserved, [PeerNext]_peerVars
    PROVE  TurnConserved'
<1>1. CASE PassTurn
  BY <1>1 DEF PassTurn, TurnConserved, HoldsTurn
<1>2. CASE Break
  <2>1. CASE writeErr = "failed" /\ writeErr' = "none" /\ UNCHANGED writeStart
    BY <1>2, <2>1 DEF Break, TurnConserved, HoldsTurn
  <2>2. CASE UNCHANGED <<writeStart, writeErr>>
    BY <1>2, <2>2, TurnUntouched DEF Break, HoldsTurn
  <2> QED BY <1>2, <2>1, <2>2 DEF Break
<1>3. CASE CloseClosed \/ CloseWire \/ Return
  BY <1>3, TurnUntouched DEF CloseClosed, CloseWire, Return, HoldsTurn
<1>4. CASE ReadStep
  BY <1>4, TurnUntouched
  DEF ReadStep, ReadPing, PutPing, ReadEnds, ReadFails, HoldsTurn
<1>5. CASE PingStep
  BY <1>5, TurnUntouched DEF PingStep, SendPong, PingFails, PingReports, PingClosed, HoldsTurn
<1>6. CASE WireBreaks \/ MessageDropped
  BY <1>6, TurnUntouched DEF WireBreaks, MessageDropped, HoldsTurn
<1>7. ASSUME NEW p \in Protocols, ReadMessage(p) \/ Deliver(p) PROVE TurnConserved'
  <2>1. CASE ReadMessage(p)
    BY <2>1, TurnUntouched DEF ReadMessage, HoldsTurn
  <2>2. CASE Deliver(p)
    BY <2>2, TurnMoves DEF Deliver, HoldsTurn
  <2> QED BY <1>7, <2>1, <2>2
<1>8. ASSUME NEW p \in Protocols,
             WriteMsg(p) \/ TakeTurn(p) \/ WriteClosed(p) \/ Write(p) \/ ReportWrite(p)
      PROVE  TurnConserved'
  <2>1. CASE WriteMsg(p) \/ WriteClosed(p)
    BY <2>1, TurnMoves DEF WriteMsg, WriteClosed, HoldsTurn
  <2>2. CASE TakeTurn(p)
    BY <2>2 DEF TakeTurn, TurnConserved, HoldsTurn, PeerTypeOK
  <2>3. CASE Write(p)
    BY <2>3, TurnMoves DEF Write, HoldsTurn
  <2>4. CASE ReportWrite(p)
    <3>1. \A q \in Protocols : ~HoldsTurn(q)'
      BY <2>4 DEF ReportWrite, TurnConserved, HoldsTurn, PeerTypeOK
    <3>2. ~writeStart'
      BY <2>4 DEF ReportWrite, TurnConserved, HoldsTurn
    <3> QED BY <2>4, <3>1, <3>2 DEF ReportWrite, TurnConserved
  <2> QED BY <1>8, <2>1, <2>2, <2>3, <2>4
<1>9. ASSUME NEW p \in Protocols,
             ReadMsg(p) \/ ReadClosed(p) \/ ProtocolReturns(p) \/ ProtocolReports(p)
      PROVE  TurnConserved'
  BY <1>9, TurnMoves DEF ReadMsg, ReadClosed, ProtocolReturns, ProtocolReports, HoldsTurn
<1>10. CASE \E c \in Callers : CallerStep(c)
  BY <1>10, TurnUntouched
  DEF CallerStep, Disconnect, DisconnectTaken, DisconnectClosed, HoldsTurn
<1>11. CASE UNCHANGED peerVars
  BY <1>11, TurnUntouched DEF peerVars, HoldsTurn
<1> QED BY <1>1, <1>2, <1>3, <1>4, <1>5, <1>6, <1>7, <1>8, <1>9, <1>10, <1>11, PeerCases
        DEF RunStep

-----------------------------------------------------------------------------
\* The goroutines that may still report can be counted.
LEMMA BusyFinite ==
    /\ IsFiniteSet(Protocols) /\ Cardinality(Protocols) \in Nat
    /\ IsFiniteSet(Busy) /\ Cardinality(Busy) \in Nat
<1>1. Busy \in SUBSET Protocols
  BY DEF Busy
<1> QED BY <1>1, PeerAssumption, FS_Subset, FS_CardinalityType

\* A protocol that moves on without being done leaves the count alone.
LEMMA BusyMoves ==
    ASSUME PeerTypeOK, NEW q \in Protocols, NEW s, s # "done", proto[q] # "done",
           proto' = [proto EXCEPT ![q] = s]
    PROVE  Busy' = Busy
  BY DEF Busy, PeerTypeOK

\* A step that changes neither the count nor a channel leaves the room alone.
LEMMA RoomUntouched ==
    ASSUME Room, Busy' = Busy, UNCHANGED <<protoErr, pingLoop, readErr, readLoop, offered>>
    PROVE  Room'
  BY DEF Room, ProtoErrCapacity

\* Every step keeps the room the remaining reports need.
LEMMA RoomStep ==
    ASSUME PeerTypeOK, Room, [PeerNext]_peerVars
    PROVE  Room'
<1> USE BusyFinite
<1>1. CASE RunStep
  <2>1. Busy' = Busy
    BY <1>1 DEF RunStep, PassTurn, Break, CloseClosed, CloseWire, Return, Busy
  <2>2. CASE Break
    BY <2>1, <2>2 DEF Break, Room, PeerTypeOK, ProtoErrCapacity
  <2>3. CASE PassTurn \/ CloseClosed \/ CloseWire \/ Return
    BY <2>1, <2>3, RoomUntouched DEF PassTurn, CloseClosed, CloseWire, Return
  <2> QED BY <1>1, <2>2, <2>3 DEF RunStep
<1>2. CASE ReadStep
  <2>1. Busy' = Busy
    BY <1>2 DEF ReadStep, ReadPing, PutPing, ReadEnds, ReadFails, Busy
  <2> QED BY <1>2, <2>1
          DEF ReadStep, ReadPing, PutPing, ReadEnds, ReadFails, Room, ProtoErrCapacity
<1>3. CASE PingStep
  <2>1. Busy' = Busy
    BY <1>3 DEF PingStep, SendPong, PingFails, PingReports, PingClosed, Busy
  <2> QED BY <1>3, <2>1
          DEF PingStep, SendPong, PingFails, PingReports, PingClosed,
              Room, PeerTypeOK, ProtoErrCapacity
<1>4. CASE WireBreaks \/ MessageDropped
  BY <1>4 DEF WireBreaks, MessageDropped, Busy, Room, ProtoErrCapacity
<1>5. ASSUME NEW p \in Protocols, ReadMessage(p) \/ Deliver(p) PROVE Room'
  <2>1. CASE ReadMessage(p)
    BY <2>1 DEF ReadMessage, Busy, Room, ProtoErrCapacity
  <2>2. CASE Deliver(p)
    <3>1. readLoop' # "done" => readErr' = "none"
      BY <2>2 DEF Deliver, Room
    <3> QED BY <2>2, <3>1, BusyMoves DEF Deliver, Room, ProtoErrCapacity
  <2> QED BY <1>5, <2>1, <2>2
<1>6. ASSUME NEW p \in Protocols,
             WriteMsg(p) \/ TakeTurn(p) \/ WriteClosed(p) \/ Write(p) \/ ReportWrite(p)
      PROVE  Room'
  <2>1. Busy' = Busy
    BY <1>6, BusyMoves DEF WriteMsg, TakeTurn, WriteClosed, Write, ReportWrite
  <2> QED BY <1>6, <2>1, RoomUntouched DEF WriteMsg, TakeTurn, WriteClosed, Write, ReportWrite
<1>7. ASSUME NEW p \in Protocols,
             ReadMsg(p) \/ ReadClosed(p) \/ ProtocolReturns(p) \/ ProtocolReports(p)
      PROVE  Room'
  <2>1. CASE ReadMsg(p) \/ ReadClosed(p) \/ ProtocolReturns(p)
    <3>1. Busy' = Busy
      BY <2>1, BusyMoves DEF ReadMsg, ReadClosed, ProtocolReturns
    <3> QED BY <2>1, <3>1, RoomUntouched DEF ReadMsg, ReadClosed, ProtocolReturns
  <2>2. CASE ProtocolReports(p)
    <3>1. Busy' = Busy \ {p} /\ p \in Busy
      BY <2>2 DEF ProtocolReports, Busy, PeerTypeOK
    <3>2. Cardinality(Busy') = Cardinality(Busy) - 1
      BY <3>1, FS_RemoveElement
    <3> QED BY <2>2, <3>2 DEF ProtocolReports, Room, PeerTypeOK, ProtoErrCapacity
  <2> QED BY <1>7, <2>1, <2>2
<1>8. CASE \E c \in Callers : CallerStep(c)
  BY <1>8, RoomUntouched DEF CallerStep, Disconnect, DisconnectTaken, DisconnectClosed, Busy
<1>9. CASE UNCHANGED peerVars
  BY <1>9, RoomUntouched DEF peerVars, Busy
<1> QED BY <1>1, <1>2, <1>3, <1>4, <1>5, <1>6, <1>7, <1>8, <1>9, PeerCases

-----------------------------------------------------------------------------
\* A reporter still counts, so its report has room; a writer holds the turn, so
\* writeErr is empty.
LEMMA RoomSuffices ==
    ASSUME PeerInv
    PROVE  ReportsNeverBlock
<1> USE BusyFinite DEF PeerInv
<1>1. pingLoop = "reporting" => protoErr < ProtoErrCapacity
  BY DEF Room, PeerTypeOK, ProtoErrCapacity
<1>2. ASSUME NEW p \in Protocols, proto[p] = "returned" PROVE protoErr < ProtoErrCapacity
  <2>1. Cardinality(Busy) >= 1
    BY <1>2, FS_EmptySet DEF Busy
  <2> QED BY <2>1 DEF Room, PeerTypeOK, ProtoErrCapacity
<1>3. ASSUME NEW p \in Protocols, proto[p] \in {"sent", "unsent"} PROVE writeErr = "none"
  BY <1>3 DEF TurnConserved, HoldsTurn
<1> QED BY <1>1, <1>2, <1>3 DEF ReportsNeverBlock, Room

\* The inductive invariant, for any protocols, callers and ping buffer.
THEOREM PeerSafe == PeerSpec => []PeerInv
<1>1. PeerInit => PeerInv
  <2> SUFFICES ASSUME PeerInit PROVE PeerInv
    OBVIOUS
  <2>1. PeerTypeOK
    <3>1. closed \in BOOLEAN /\ writeStart \in BOOLEAN
      BY Zenon DEF PeerInit
    <3>2. pings \in 0 .. PingBuffer /\ protoErr \in Nat
      BY PeerAssumption DEF PeerInit
    <3>3. /\ proto \in [Protocols -> ProtoStates]
          /\ caller \in [Callers -> {"idle", "calling", "returned"}]
      BY DEF PeerInit, ProtoStates
    <3> QED BY <3>1, <3>2, <3>3 DEF PeerInit, PeerTypeOK
  <2>2. TurnConserved
    BY DEF PeerInit, TurnConserved, HoldsTurn
  <2>3. Busy = Protocols
    BY DEF PeerInit, Busy
  <2> QED BY <2>1, <2>2, <2>3, BusyFinite DEF PeerInit, PeerInv, Room, ProtoErrCapacity
<1>2. PeerInv /\ [PeerNext]_peerVars => PeerInv'
  BY PeerTypeStep, TurnStep, RoomStep DEF PeerInv
<1> QED BY <1>1, <1>2, PTL DEF PeerSpec

\* The variables of a peer are typed (peer.go:205-424).
THEOREM PeerTyped == PeerSpec => []PeerTypeOK
<1>1. PeerInv => PeerTypeOK
  BY DEF PeerInv
<1> QED BY <1>1, PeerSafe, PTL

\* However many protocols write, fail and end, the turn to write is never in two
\* places, and in one as long as run() serves (peer.go:216-231, 397-414).
THEOREM PeerTurn == PeerSpec => []TurnConserved
<1>1. PeerInv => TurnConserved
  BY DEF PeerInv
<1> QED BY <1>1, PeerSafe, PTL

\* However many goroutines fail together, none waits to report it: protoErr needs
\* no more than one place per protocol and one (peer.go:192, 261, 373, 410).
THEOREM PeerReports == PeerSpec => []ReportsNeverBlock
<1>1. PeerInv => ReportsNeverBlock
  BY RoomSuffices
<1> QED BY <1>1, PeerSafe, PTL

-----------------------------------------------------------------------------
(* Induction                                                               *)

\* Every set of natural numbers that is not empty has a least one.
LEMMA LeastNat ==
    ASSUME NEW S \in SUBSET Nat, S # {}
    PROVE  \E n \in S : \A m \in S : n <= m
<1>0. S \subseteq Nat
  OBVIOUS
<1>1. \E n \in S : \A m \in S : ~ (<<m, n>> \in OpToRel(<, Nat))
  <2>1. IsWellFoundedOn(OpToRel(<, Nat), Nat)
    BY NatLessThanWellFounded
  <2> QED BY <2>1, <1>0, WFMin
<1>2. PICK n \in S : \A m \in S : ~ (<<m, n>> \in OpToRel(<, Nat))
  BY <1>1
<1>3. ASSUME NEW m \in S PROVE n <= m
  <2>1. ~ (<<m, n>> \in OpToRel(<, Nat))
    BY <1>2
  <2>2. m \in Nat /\ n \in Nat
    BY <1>0
  <2>3. m < n => <<m, n>> \in OpToRel(<, Nat)
    BY <2>2 DEF OpToRel
  <2>4. ~(m < n)
    BY <2>1, <2>3, Zenon
  <2> QED BY <2>2, <2>4
<1> QED BY <1>3

\* Induction up to N: a set that holds 0 and the successor of each of its
\* members below N holds all of 0 .. N.
LEMMA UpTo ==
    ASSUME NEW N \in Nat, NEW S, 0 \in S, \A i \in 1 .. N : i - 1 \in S => i \in S
    PROVE  \A i \in 0 .. N : i \in S
<1> DEFINE T == {i \in 0 .. N : i \notin S}
<1> SUFFICES ASSUME T # {} PROVE FALSE
  OBVIOUS
<1>1. PICK n \in T : \A m \in T : n <= m
  <2>1. T \in SUBSET Nat
    OBVIOUS
  <2> HIDE DEF T
  <2> QED BY <2>1, LeastNat
<1>2. n \in 1 .. N /\ n - 1 \in 0 .. N /\ n - 1 \notin T
  BY <1>1
<1> QED BY <1>1, <1>2

\* Functions from a value and a number up to N to the next value.
Steps(S, N) == [S \X (1 .. N) -> S]

\* A function given by its first value and by a step.
Recursive(S, N, s, F) ==
    \E f \in [0 .. N -> S] : f[0] = s /\ \A i \in 1 .. N : f[i] = F[<<f[i-1], i>>]

\* It exists.
LEMMA RecursionExists ==
    ASSUME NEW N \in Nat, NEW S, NEW s \in S, NEW F \in Steps(S, N)
    PROVE  Recursive(S, N, s, F)
<1> DEFINE Upto(n) == {f \in [0 .. n -> S] : f[0] = s /\ \A i \in 1 .. n : f[i] = F[<<f[i-1], i>>]}
           D == {n \in 0 .. N : Upto(n) # {}}
<1>1. 0 \in D
  <2> DEFINE f == [i \in 0 .. 0 |-> s]
  <2>1. f \in [0 .. 0 -> S] /\ f[0] = s /\ \A i \in 1 .. 0 : f[i] = F[<<f[i-1], i>>]
    OBVIOUS
  <2>2. f \in Upto(0)
    BY <2>1
  <2> QED BY <2>2
<1>2. ASSUME NEW n \in 1 .. N, n - 1 \in D PROVE n \in D
  <2>1. PICK f \in [0 .. n - 1 -> S] : f[0] = s /\ \A i \in 1 .. n - 1 : f[i] = F[<<f[i-1], i>>]
    BY <1>2
  <2>2. f[n-1] \in S
    OBVIOUS
  <2>3. F[<<f[n-1], n>>] \in S
    BY <2>2 DEF Steps
  <2> DEFINE g == [i \in 0 .. n |-> IF i = n THEN F[<<f[n-1], n>>] ELSE f[i]]
  <2>4. g \in [0 .. n -> S] /\ g[0] = s
    BY <2>1, <2>3
  <2>5. ASSUME NEW i \in 1 .. n PROVE g[i] = F[<<g[i-1], i>>]
    <3>1. CASE i = n
      <4>1. g[n] = F[<<f[n-1], n>>] /\ g[n-1] = f[n-1]
        OBVIOUS
      <4> QED BY <3>1, <4>1
    <3>2. CASE i \in 1 .. n - 1
      <4>1. g[i] = f[i] /\ g[i-1] = f[i-1]
        BY <3>2
      <4> QED BY <2>1, <3>2, <4>1
    <3> QED BY <3>1, <3>2
  <2> HIDE DEF g
  <2>6. g \in Upto(n)
    BY <2>4, <2>5
  <2> QED BY <2>6
<1> HIDE DEF D
<1>3. N \in D
  BY <1>1, <1>2, UpTo
<1> QED BY <1>3 DEF D, Recursive

-----------------------------------------------------------------------------
(* The layout of the protocols                                             *)

Entry   == [offset : Int, length : Nat, version : Nat]
Layouts == [offset : Int, result : UNION {[D -> Entry] : D \in SUBSET Nat}]

\* What is listed at some places of a sequence of protocols or capabilities.
Listed(specs, I) == {<<specs[i].name, specs[i].version>> : i \in I}

\* A layout fits a set of capabilities, M, that the protocols have: it has the
\* greatest version of each name, one above the other in the order of the names
\* and with nothing between.
Greatest(M, r) ==
    /\ DOMAIN r = {m[1] : m \in M}
    /\ \A n \in DOMAIN r : /\ <<n, r[n].version>> \in M
                           /\ \A m \in M : m[1] = n => m[2] <= r[n].version
Long(protocols, r) ==
    \A n \in DOMAIN r :
        \E i \in DOMAIN protocols : /\ protocols[i].name = n
                                    /\ protocols[i].version = r[n].version
                                    /\ protocols[i].length = r[n].length
End(r, n) == r[n].offset + r[n].length
Apart(r)  == \A n, m \in DOMAIN r : n < m => End(r, n) <= r[m].offset
Beneath(r, n, offset) ==
    \/ (\A m \in DOMAIN r : n <= m) /\ offset = baseProtocolLength
    \/ \E m \in DOMAIN r : /\ m < n /\ offset = End(r, m)
                           /\ \A k \in DOMAIN r : k < n => k <= m
Packed(r) == \A n \in DOMAIN r : Beneath(r, n, r[n].offset)
Topmost(layout) ==
    LET r == layout.result
    IN  \/ DOMAIN r = {} /\ layout.offset = baseProtocolLength
        \/ \E m \in DOMAIN r : /\ layout.offset = End(r, m)
                               /\ \A k \in DOMAIN r : k <= m

Fits(protocols, M, layout) ==
    /\ layout \in Layouts
    /\ Greatest(M, layout.result) /\ Long(protocols, layout.result)
    /\ Apart(layout.result) /\ Packed(layout.result) /\ Topmost(layout)

LEMMA LayoutFields ==
    ASSUME NEW layout \in Layouts
    PROVE  /\ layout.offset \in Int /\ DOMAIN layout.result \in SUBSET Nat
           /\ \A n \in DOMAIN layout.result :
                 /\ layout.result[n] \in Entry
                 /\ n \in Nat /\ layout.result[n].offset \in Int
                 /\ layout.result[n].length \in Nat /\ layout.result[n].version \in Nat
<1>1. PICK D \in SUBSET Nat : layout.result \in [D -> Entry]
  BY DEF Layouts
<1>2. DOMAIN layout.result = D
  BY <1>1
<1>3. ASSUME NEW n \in D PROVE layout.result[n] \in Entry
  BY <1>1
<1>4. layout.offset \in Int
  BY DEF Layouts
<1> QED BY <1>2, <1>3, <1>4 DEF Entry

\* The protocol that has the name and version of a capability.
Match(protocols, cap) ==
    protocols[CHOOSE i \in Same(protocols, cap) : \A j \in Same(protocols, cap) : i <= j]

LEMMA MatchFound ==
    ASSUME NEW protocols \in Seq(ProtocolSpec), NEW cap, Same(protocols, cap) # {}
    PROVE  \E i \in DOMAIN protocols :
              /\ Match(protocols, cap) = protocols[i]
              /\ protocols[i] \in ProtocolSpec
              /\ protocols[i].name = cap.name /\ protocols[i].version = cap.version
<1> DEFINE S == Same(protocols, cap)
           i == CHOOSE n \in S : \A m \in S : n <= m
<1>1. S \in SUBSET Nat /\ S # {}
  BY DEF Same
<1>2. i \in S
  <2>1. \E n \in S : \A m \in S : n <= m
    <3> HIDE DEF S
    <3> QED BY <1>1, LeastNat
  <2> HIDE DEF S
  <2> QED BY <2>1
<1>3. Match(protocols, cap) = protocols[i]
  BY DEF Match
<1> HIDE DEF i
<1>4. /\ i \in DOMAIN protocols
      /\ protocols[i].name = cap.name /\ protocols[i].version = cap.version
  BY <1>2 DEF Same
<1> QED BY <1>3, <1>4

\* What Place does, field by field.
PlaceAt(layout, cap) ==
    IF cap.name \in DOMAIN layout.result
    THEN layout.offset - layout.result[cap.name].length ELSE layout.offset

LEMMA PlaceFields ==
    ASSUME NEW protocols \in Seq(ProtocolSpec), NEW layout \in Layouts,
           NEW cap \in ProtocolSpec, Same(protocols, cap) # {},
           NEW l, l = Place(protocols, layout, cap)
    PROVE  LET at == PlaceAt(layout, cap)
           IN  /\ at \in Int
               /\ DOMAIN l.result = DOMAIN layout.result \cup {cap.name}
               /\ \A n \in DOMAIN layout.result \ {cap.name} : l.result[n] = layout.result[n]
               /\ l.result[cap.name].offset = at
               /\ l.result[cap.name].version = cap.version
               /\ l.offset = at + l.result[cap.name].length
               /\ l \in Layouts
               /\ \E i \in DOMAIN protocols :
                     /\ protocols[i].name = cap.name /\ protocols[i].version = cap.version
                     /\ protocols[i].length = l.result[cap.name].length
<1> DEFINE at == PlaceAt(layout, cap)
           match == Match(protocols, cap)
           placed == [offset |-> at, length |-> match.length, version |-> cap.version]
           r == [n \in DOMAIN layout.result \cup {cap.name} |->
                    IF n = cap.name THEN placed ELSE layout.result[n]]
<1>1. PICK i \in DOMAIN protocols :
              /\ match = protocols[i]
              /\ protocols[i] \in ProtocolSpec
              /\ protocols[i].name = cap.name /\ protocols[i].version = cap.version
  BY MatchFound
<1>2. match.length \in Nat /\ cap.name \in Nat /\ cap.version \in Nat
  BY <1>1 DEF ProtocolSpec
<1>3. l = [offset |-> at + match.length, result |-> r]
  BY DEF Place, PlaceAt, Match
<1>4. at \in Int
  BY LayoutFields DEF PlaceAt
<1> HIDE DEF at, match
<1>5. placed \in Entry
  BY <1>2, <1>4 DEF Entry
<1>6. l \in Layouts
  <2>1. DOMAIN r \in SUBSET Nat
    BY <1>2, LayoutFields
  <2>2. \A n \in DOMAIN r : r[n] \in Entry
    BY <1>5, LayoutFields
  <2>3. r \in [DOMAIN r -> Entry]
    BY <2>2
  <2> HIDE DEF r
  <2>4. r \in UNION {[D -> Entry] : D \in SUBSET Nat}
    BY <2>1, <2>3
  <2> QED BY <1>2, <1>3, <1>4, <2>4 DEF Layouts
<1>7. r[cap.name] = placed
  OBVIOUS
<1>8. \A n \in DOMAIN layout.result \ {cap.name} : r[n] = layout.result[n]
  OBVIOUS
<1>9. DOMAIN r = DOMAIN layout.result \cup {cap.name}
  OBVIOUS
<1> HIDE DEF r
<1>10. /\ l.result = r /\ l.offset = at + match.length
       /\ l.result[cap.name].length = match.length
  BY <1>3, <1>7
<1>11. at = PlaceAt(layout, cap)
  BY DEF at
<1>12. l.result[cap.name].offset = at /\ l.result[cap.name].version = cap.version
  BY <1>7, <1>10
<1> QED BY <1>1, <1>4, <1>6, <1>8, <1>9, <1>10, <1>11, <1>12

LEMMA PlaceTyped ==
    ASSUME NEW protocols \in Seq(ProtocolSpec), NEW layout \in Layouts, NEW cap \in ProtocolSpec
    PROVE  Place(protocols, layout, cap) \in Layouts
<1>1. CASE Same(protocols, cap) = {}
  BY <1>1 DEF Place
<1>2. CASE Same(protocols, cap) # {}
  BY <1>2, PlaceFields
<1> QED BY <1>1, <1>2

\* Capabilities that came before cap in the order they are sorted in.
UpToCap(M, cap) ==
    \A m \in M : /\ m \in Nat \X Nat
                 /\ m[1] < cap.name \/ (m[1] = cap.name /\ m[2] <= cap.version)

\* A capability that comes last in the order is placed on top, or where an
\* earlier version of it was, and that was on top (peer.go:338-349).
LEMMA FitsStep ==
    ASSUME NEW protocols \in Seq(ProtocolSpec), NEW M, NEW layout, NEW cap \in ProtocolSpec,
           Fits(protocols, M, layout), UpToCap(M, cap), Same(protocols, cap) # {}
    PROVE  Fits(protocols, M \cup {<<cap.name, cap.version>>}, Place(protocols, layout, cap))
<1> DEFINE r == layout.result
           l == Place(protocols, layout, cap)
           s == l.result
           c == cap.name
           at == PlaceAt(layout, cap)
           D == DOMAIN r
<1>1. /\ layout \in Layouts /\ Greatest(M, r) /\ Long(protocols, r)
      /\ Apart(r) /\ Packed(r) /\ Topmost(layout)
  BY DEF Fits
<1>2. c \in Nat /\ cap.version \in Nat
  BY DEF ProtocolSpec
<1>3. /\ at \in Int
      /\ DOMAIN s = D \cup {c}
      /\ \A n \in D \ {c} : s[n] = r[n]
      /\ s[c].offset = at /\ s[c].version = cap.version
      /\ l.offset = at + s[c].length
      /\ l \in Layouts
      /\ \E i \in DOMAIN protocols :
            /\ protocols[i].name = c /\ protocols[i].version = cap.version
            /\ protocols[i].length = s[c].length
  <2> HIDE DEF at, s, r, D, c
  <2> QED BY <1>1, PlaceFields DEF at, s, r, D, c
<1>4. /\ layout.offset \in Int /\ D \in SUBSET Nat
      /\ \A n \in D : /\ n \in Nat /\ r[n].offset \in Int
                      /\ r[n].length \in Nat /\ r[n].version \in Nat
  BY <1>1, LayoutFields
<1>5. \A n \in DOMAIN s : /\ n \in Nat /\ s[n].offset \in Int
                          /\ s[n].length \in Nat /\ s[n].version \in Nat
  BY <1>3, LayoutFields
<1>6. \A n \in D : n <= c
  <2>1. D = {m[1] : m \in M}
    BY <1>1 DEF Greatest
  <2> QED BY <2>1, <1>2 DEF UpToCap
\* Where the capability goes, whether or not an earlier version was there.
<1>7. /\ \A n \in D : n < c => End(r, n) <= at
      /\ Beneath(r, c, at)
  <2>1. CASE c \notin D
    <3>1. at = layout.offset
      BY <2>1 DEF PlaceAt
    <3>2. CASE D = {} /\ layout.offset = baseProtocolLength
      BY <3>1, <3>2 DEF Beneath
    <3>3. ASSUME NEW m \in D, layout.offset = End(r, m), \A k \in D : k <= m
          PROVE  /\ \A n \in D : n < c => End(r, n) <= at
                 /\ Beneath(r, c, at)
      <4>1. m < c
        BY <1>2, <1>4, <1>6, <2>1
      <4>2. Beneath(r, c, at)
        BY <3>1, <3>3, <4>1 DEF Beneath
      <4>3. ASSUME NEW n \in D PROVE End(r, n) <= at
        <5>1. CASE n = m
          BY <5>1, <3>1, <3>3, <1>4 DEF End
        <5>2. CASE n < m
          <6>1. End(r, n) <= r[m].offset
            BY <5>2, <1>1 DEF Apart
          <6>2. r[m].offset <= End(r, m) /\ End(r, n) \in Int
            BY <1>4 DEF End
          <6> HIDE DEF at, r
          <6> QED BY <6>1, <6>2, <3>1, <3>3, <1>3, <1>4
        <5>3. n <= m
          BY <3>3
        <5> QED BY <5>1, <5>2, <5>3, <1>4
      <4> QED BY <4>2, <4>3
    <3> QED BY <3>2, <3>3, <1>1 DEF Topmost
  <2>2. CASE c \in D
    <3>1. PICK m \in D : layout.offset = End(r, m) /\ \A k \in D : k <= m
      BY <2>2, <1>1 DEF Topmost
    <3>2. m = c
      BY <3>1, <2>2, <1>2, <1>4, <1>6
    <3>3. at = r[c].offset
      BY <3>1, <3>2, <2>2, <1>4 DEF PlaceAt, End
    <3>4. Beneath(r, c, at)
      BY <3>3, <2>2, <1>1 DEF Packed
    <3>5. \A n \in D : n < c => End(r, n) <= at
      BY <3>3, <2>2, <1>1 DEF Apart
    <3> QED BY <3>4, <3>5
  <2> QED BY <2>1, <2>2
<1> HIDE DEF at, s, r, D, l, c
<1>8. Greatest(M \cup {<<c, cap.version>>}, s)
  <2>1. D = {m[1] : m \in M} /\ \A n \in D : /\ <<n, r[n].version>> \in M
                                             /\ \A m \in M : m[1] = n => m[2] <= r[n].version
    BY <1>1 DEF Greatest, D
  <2>2. \A m \in M : m[1] = c => m[2] <= cap.version
    BY <1>2 DEF UpToCap, c
  <2>3. DOMAIN s = {m[1] : m \in M \cup {<<c, cap.version>>}}
    <3> DEFINE x == <<c, cap.version>>
    <3>1. x[1] = c
      OBVIOUS
    <3> HIDE DEF x
    <3>2. {m[1] : m \in M \cup {x}} = {m[1] : m \in M} \cup {x[1]}
      OBVIOUS
    <3> QED BY <3>1, <3>2, <2>1, <1>3 DEF x
  <2>4. ASSUME NEW n \in DOMAIN s
        PROVE  /\ <<n, s[n].version>> \in M \cup {<<c, cap.version>>}
               /\ \A m \in M \cup {<<c, cap.version>>} : m[1] = n => m[2] <= s[n].version
    <3>1. CASE n = c
      BY <3>1, <1>2, <1>3, <2>2
    <3>2. CASE n # c
      BY <3>2, <1>3, <2>1
    <3> QED BY <3>1, <3>2
  <2> QED BY <2>3, <2>4 DEF Greatest
<1>9. Long(protocols, s)
  <2>1. ASSUME NEW n \in DOMAIN s
        PROVE  \E i \in DOMAIN protocols : /\ protocols[i].name = n
                                           /\ protocols[i].version = s[n].version
                                           /\ protocols[i].length = s[n].length
    <3>1. CASE n = c
      BY <3>1, <1>3
    <3>2. CASE n # c
      BY <3>2, <1>1, <1>3 DEF Long, D
    <3> QED BY <3>1, <3>2
  <2> QED BY <2>1 DEF Long
<1>10. \A n \in D \ {c} : End(s, n) = End(r, n)
  BY <1>3 DEF End
<1>11. Apart(s)
  <2>1. ASSUME NEW n \in DOMAIN s, NEW m \in DOMAIN s, n < m
        PROVE  End(s, n) <= s[m].offset
    <3>1. n \in D \ {c} /\ (m \in D \ {c} \/ m = c)
      BY <2>1, <1>3, <1>5, <1>6
    <3>2. CASE m = c
      BY <3>1, <3>2, <2>1, <1>3, <1>7, <1>10
    <3>3. CASE m # c
      BY <3>1, <3>3, <2>1, <1>1, <1>3, <1>10 DEF Apart, D
    <3> QED BY <3>2, <3>3
  <2> QED BY <2>1 DEF Apart
<1>12. Packed(s)
  <2>1. ASSUME NEW n \in DOMAIN s PROVE Beneath(s, n, s[n].offset)
    <3>1. Beneath(r, n, s[n].offset)
      <4>1. CASE n = c
        BY <4>1, <1>3, <1>7
      <4>2. CASE n # c
        BY <4>2, <1>1, <1>3 DEF Packed, D
      <4> QED BY <4>1, <4>2
    <3>2. \A k \in DOMAIN s : k < n => k \in D \ {c}
      BY <1>2, <1>3, <1>5, <1>6
    <3>3. CASE (\A m \in D : n <= m) /\ s[n].offset = baseProtocolLength
      <4>1. \A m \in DOMAIN s : n <= m
        BY <3>2, <3>3, <1>5
      <4> QED BY <4>1, <3>3 DEF Beneath
    <3>4. ASSUME NEW m \in D, m < n, s[n].offset = End(r, m),
                 \A k \in D : k < n => k <= m
          PROVE  Beneath(s, n, s[n].offset)
      <4>1. m \in D \ {c} /\ m \in DOMAIN s
        BY <3>2, <3>4, <1>3
      <4>2. s[n].offset = End(s, m)
        BY <4>1, <3>4, <1>10
      <4> QED BY <4>1, <4>2, <3>2, <3>4 DEF Beneath
    <3> QED BY <3>1, <3>3, <3>4 DEF Beneath, D
  <2> QED BY <2>1 DEF Packed
<1>13. Topmost(l)
  <2>1. l.offset = End(s, c)
    BY <1>3 DEF End
  <2>2. \A k \in DOMAIN s : k <= c
    BY <1>2, <1>3, <1>6
  <2>3. c \in DOMAIN s
    BY <1>3
  <2> QED BY <2>1, <2>2, <2>3 DEF Topmost, s
<1> QED BY <1>3, <1>8, <1>9, <1>11, <1>12, <1>13 DEF Fits, s, l, c

\* The capabilities that two lists have in common.
Common(protocols, caps) == Listed(protocols, DOMAIN protocols) \cap Listed(caps, DOMAIN caps)

Sorted(caps) == \A i, j \in DOMAIN caps : i < j => ~Before(caps[j], caps[i])

\* Sorting loses nothing and adds nothing (peer.go:333).
LEMMA SortsOf ==
    ASSUME NEW caps \in Seq(ProtocolSpec), NEW s \in Sorts(caps)
    PROVE  /\ s \in Seq(ProtocolSpec) /\ Sorted(s)
           /\ Listed(s, DOMAIN s) = Listed(caps, DOMAIN caps)
<1>1. PICK p \in Bijection(DOMAIN caps, DOMAIN caps) : s = [i \in DOMAIN caps |-> caps[p[i]]]
  BY DEF Sorts
<1>2. /\ p \in [DOMAIN caps -> DOMAIN caps]
      /\ \A i \in DOMAIN caps : \E j \in DOMAIN caps : p[j] = i
  BY DEF Bijection, Injection, Surjection
<1>3. DOMAIN caps = 1 .. Len(caps) /\ Len(caps) \in Nat
  OBVIOUS
<1>4. \A i \in DOMAIN caps : caps[i] \in ProtocolSpec
  OBVIOUS
<1>5. \A i \in DOMAIN caps : s[i] = caps[p[i]] /\ s[i] \in ProtocolSpec
  BY <1>1, <1>2, <1>4
<1>6. s \in Seq(ProtocolSpec)
  <2>1. s \in [1 .. Len(caps) -> ProtocolSpec]
    BY <1>1, <1>3, <1>5
  <2> QED BY <2>1, <1>3
<1>7. DOMAIN s = DOMAIN caps
  BY <1>1
<1>8. Listed(s, DOMAIN s) = Listed(caps, DOMAIN caps)
  BY <1>2, <1>5, <1>7 DEF Listed
<1>9. Sorted(s)
  BY DEF Sorts, Sorted
<1> QED BY <1>6, <1>8, <1>9

\* The layout after each of the capabilities.
LEMMA LayoutRun ==
    ASSUME NEW protocols \in Seq(ProtocolSpec), NEW caps \in Seq(ProtocolSpec)
    PROVE  \E after \in [0 .. Len(caps) -> Layouts] :
              /\ after[0] = NoLayout /\ Layout(protocols, caps) = after[Len(caps)]
              /\ \A i \in 1 .. Len(caps) : after[i] = Place(protocols, after[i-1], caps[i])
<1> DEFINE N == Len(caps)
           S == Layouts
           F == [p \in S \X (1 .. N) |-> Place(protocols, p[1], caps[p[2]])]
           IsRun(g) == g = [i \in 0 .. N |->
                              IF i = 0 THEN NoLayout ELSE Place(protocols, g[i-1], caps[i])]
<1>1. N \in Nat /\ \A i \in 1 .. N : caps[i] \in ProtocolSpec
  OBVIOUS
<1>2. \A a \in S, i \in 1 .. N : Place(protocols, a, caps[i]) \in S
  BY <1>1, PlaceTyped
<1>3. NoLayout \in S
  <2>1. <<>> \in [{} -> Entry]
    OBVIOUS
  <2>2. {} \in SUBSET Nat
    OBVIOUS
  <2>3. <<>> \in UNION {[D -> Entry] : D \in SUBSET Nat}
    BY <2>1, <2>2
  <2> QED BY <2>3 DEF NoLayout, Layouts, baseProtocolLength
<1>4. F \in Steps(S, N)
  BY <1>2 DEF Steps
<1>5. Recursive(S, N, NoLayout, F)
  <2> HIDE DEF S, F, N
  <2> QED BY <1>1, <1>3, <1>4, RecursionExists
<1>6. PICK f \in [0 .. N -> S] : f[0] = NoLayout /\ \A i \in 1 .. N : f[i] = F[<<f[i-1], i>>]
  BY <1>5 DEF Recursive
<1>7. \E g : IsRun(g)
  <2>1. ASSUME NEW i \in 1 .. N PROVE f[i] = Place(protocols, f[i-1], caps[i])
    <3>1. f[i-1] \in S
      BY <1>1
    <3>2. F[<<f[i-1], i>>] = Place(protocols, f[i-1], caps[i])
      <4> HIDE DEF S
      <4> QED BY <3>1
    <3> QED BY <1>6, <3>2
  <2>2. IsRun(f)
    BY <1>1, <1>6, <2>1
  <2> QED BY <2>2
<1> DEFINE after == CHOOSE g : IsRun(g)
<1>8. Layout(protocols, caps) = after[N]
  BY DEF Layout
<1>9. IsRun(after)
  <2> HIDE DEF IsRun
  <2> QED BY <1>7
<1> HIDE DEF after
<1>10. after[0] = NoLayout /\ \A i \in 1 .. N : after[i] = Place(protocols, after[i-1], caps[i])
  BY <1>1, <1>9
<1>11. \A i \in 0 .. N : after[i] \in S
  <2> DEFINE T == {i \in 0 .. N : after[i] \in S}
  <2>1. 0 \in T /\ \A i \in 1 .. N : i - 1 \in T => i \in T
    BY <1>1, <1>2, <1>3, <1>10
  <2> HIDE DEF T, N
  <2>2. \A i \in 0 .. N : i \in T
    BY <1>1, <2>1, UpTo
  <2> QED BY <2>2 DEF T
<1>12. after \in [0 .. N -> S]
  BY <1>9, <1>11
<1> HIDE DEF IsRun
<1> QED BY <1>8, <1>10, <1>12

\* Whatever the protocols and the capabilities, the layout fits what they have in
\* common (peer.go:332-352).
LEMMA LayoutFits ==
    ASSUME NEW protocols \in Seq(ProtocolSpec), NEW caps \in Seq(ProtocolSpec), Sorted(caps)
    PROVE  Fits(protocols, Common(protocols, caps), Layout(protocols, caps))
<1> DEFINE N == Len(caps)
           M(i) == Listed(protocols, DOMAIN protocols) \cap Listed(caps, 1 .. i)
<1>1. N \in Nat /\ DOMAIN caps = 1 .. N /\ \A i \in 1 .. N : caps[i] \in ProtocolSpec
  OBVIOUS
<1>2. PICK after \in [0 .. N -> Layouts] :
              /\ after[0] = NoLayout /\ Layout(protocols, caps) = after[N]
              /\ \A i \in 1 .. N : after[i] = Place(protocols, after[i-1], caps[i])
  BY LayoutRun
<1> DEFINE T == {i \in 0 .. N : Fits(protocols, M(i), after[i])}
<1>3. 0 \in T
  <2>1. after[0] \in Layouts
    BY <1>1
  <2>2. M(0) = {}
    BY DEF Listed
  <2>3. DOMAIN NoLayout.result = {} /\ NoLayout.offset = baseProtocolLength
    BY DEF NoLayout
  <2> HIDE DEF M
  <2> QED BY <1>1, <1>2, <2>1, <2>2, <2>3
          DEF Fits, Greatest, Long, Apart, Packed, Topmost
<1>4. ASSUME NEW i \in 1 .. N, i - 1 \in T PROVE i \in T
  <2> DEFINE cap == caps[i]
             here == <<cap.name, cap.version>>
  <2>1. cap \in ProtocolSpec /\ Fits(protocols, M(i - 1), after[i - 1])
    BY <1>1, <1>4
  <2>2. UpToCap(M(i - 1), cap)
    <3>1. ASSUME NEW m \in M(i - 1)
          PROVE  /\ m \in Nat \X Nat
                 /\ m[1] < cap.name \/ (m[1] = cap.name /\ m[2] <= cap.version)
      <4>1. PICK j \in 1 .. i - 1 : m = <<caps[j].name, caps[j].version>>
        BY DEF Listed
      <4>2. j \in DOMAIN caps /\ i \in DOMAIN caps /\ j < i
        BY <1>1
      <4>3. ~Before(cap, caps[j])
        BY <4>2 DEF Sorted
      <4>4. cap \in ProtocolSpec /\ caps[j] \in ProtocolSpec
        BY <1>1, <4>2
      <4>5. /\ cap.name \in Nat /\ cap.version \in Nat
            /\ caps[j].name \in Nat /\ caps[j].version \in Nat
        BY <4>4 DEF ProtocolSpec
      <4>6. m \in Nat \X Nat /\ m[1] = caps[j].name /\ m[2] = caps[j].version
        BY <4>1, <4>5
      <4> HIDE DEF cap
      <4> QED BY <4>3, <4>5, <4>6 DEF Before
    <3> QED BY <3>1 DEF UpToCap
  <2>3. Listed(caps, 1 .. i) = Listed(caps, 1 .. i - 1) \cup {here}
    BY DEF Listed
  <2>4. CASE Same(protocols, cap) = {}
    <3>1. here \notin Listed(protocols, DOMAIN protocols)
      BY <2>4 DEF Same, Listed
    <3>2. M(i) = M(i - 1)
      BY <2>3, <3>1
    <3>3. after[i] = after[i - 1]
      BY <2>4, <1>2 DEF Place
    <3> HIDE DEF M
    <3> QED BY <2>1, <3>2, <3>3
  <2>5. CASE Same(protocols, cap) # {}
    <3>1. here \in Listed(protocols, DOMAIN protocols)
      BY <2>5 DEF Same, Listed
    <3>2. M(i) = M(i - 1) \cup {here}
      BY <2>3, <3>1
    <3>3. Fits(protocols, M(i - 1) \cup {here}, Place(protocols, after[i - 1], cap))
      <4> HIDE DEF M, cap
      <4> QED BY <2>1, <2>2, <2>5, FitsStep
    <3>4. after[i] = Place(protocols, after[i - 1], cap)
      BY <1>2
    <3> HIDE DEF M, here
    <3> QED BY <3>2, <3>3, <3>4
  <2> QED BY <2>4, <2>5
<1>5. \A i \in 0 .. N : i \in T
  <2> HIDE DEF T, N
  <2> QED BY <1>1, <1>3, <1>4, UpTo
<1>6. Fits(protocols, M(N), after[N])
  BY <1>1, <1>5
<1>7. M(N) = Common(protocols, caps)
  BY <1>1 DEF Common
<1> QED BY <1>2, <1>6, <1>7

\* What is in common decides the layout, whoever made it.
LEMMA OneLayout ==
    ASSUME NEW ours \in Seq(ProtocolSpec), NEW theirs \in Seq(ProtocolSpec),
           SameLengths(ours, theirs), NEW M, NEW a, NEW b,
           Fits(ours, M, a), Fits(theirs, M, b)
    PROVE  a.result = b.result
<1> DEFINE r == a.result
           s == b.result
           D == {m[1] : m \in M}
<1>1. /\ a \in Layouts /\ Greatest(M, r) /\ Long(ours, r) /\ Packed(r)
      /\ b \in Layouts /\ Greatest(M, s) /\ Long(theirs, s) /\ Packed(s)
  BY DEF Fits
<1>2. DOMAIN r = D /\ DOMAIN s = D /\ D \in SUBSET Nat
  BY <1>1, LayoutFields DEF Greatest
<1>3. \A n \in D : /\ r[n] \in Entry /\ s[n] \in Entry
                   /\ r[n].version \in Nat /\ s[n].version \in Nat
  BY <1>1, <1>2, LayoutFields
<1> HIDE DEF r, s, D
<1>4. ASSUME NEW n \in D PROVE r[n].version = s[n].version
  <2>1. <<n, r[n].version>> \in M /\ \A m \in M : m[1] = n => m[2] <= r[n].version
    BY <1>1, <1>2 DEF Greatest
  <2>2. <<n, s[n].version>> \in M /\ \A m \in M : m[1] = n => m[2] <= s[n].version
    BY <1>1, <1>2 DEF Greatest
  <2>3. \A v : <<n, v>>[1] = n /\ <<n, v>>[2] = v
    OBVIOUS
  <2>4. r[n].version <= s[n].version /\ s[n].version <= r[n].version
    BY <2>1, <2>2, <2>3
  <2> QED BY <2>4, <1>3
<1>5. ASSUME NEW n \in D PROVE r[n].length = s[n].length
  <2>1. PICK i \in DOMAIN ours : /\ ours[i].name = n /\ ours[i].version = r[n].version
                                 /\ ours[i].length = r[n].length
    BY <1>1, <1>2 DEF Long
  <2>2. PICK j \in DOMAIN theirs : /\ theirs[j].name = n /\ theirs[j].version = s[n].version
                                   /\ theirs[j].length = s[n].length
    BY <1>1, <1>2 DEF Long
  <2> QED BY <2>1, <2>2, <1>4 DEF SameLengths
<1>6. \A n \in D : r[n].offset = s[n].offset
  <2> DEFINE T == {n \in D : r[n].offset # s[n].offset}
  <2> SUFFICES ASSUME T # {} PROVE FALSE
    OBVIOUS
  <2>1. PICK n \in T : \A m \in T : n <= m
    <3>1. T \in SUBSET Nat
      BY <1>2
    <3> HIDE DEF T
    <3> QED BY <3>1, LeastNat
  <2>2. n \in D /\ n \in Nat /\ \A m \in D : m \in Nat
    BY <1>2
  <2>3. \A m \in D : m < n => End(r, m) = End(s, m)
    BY <2>1, <2>2, <1>5 DEF End
  <2>4. Beneath(r, n, r[n].offset) /\ Beneath(s, n, s[n].offset)
    BY <2>2, <1>1, <1>2 DEF Packed
  <2>5. CASE \A m \in D : n <= m
    <3>1. \A m \in D : ~(m < n)
      BY <2>2, <2>5
    <3> QED BY <3>1, <2>4, <1>2 DEF Beneath
  <2>6. CASE ~ \A m \in D : n <= m
    <3>1. PICK m \in D : /\ m < n /\ r[n].offset = End(r, m)
                         /\ \A k \in D : k < n => k <= m
      BY <2>4, <2>6, <1>2 DEF Beneath
    <3>2. PICK p \in D : /\ p < n /\ s[n].offset = End(s, p)
                         /\ \A k \in D : k < n => k <= p
      BY <2>4, <2>6, <1>2 DEF Beneath
    <3>3. m = p
      BY <3>1, <3>2, <2>2
    <3> QED BY <3>1, <3>2, <3>3, <2>3
  <2> QED BY <2>5, <2>6
<1>7. \A n \in D : r[n] = s[n]
  BY <1>3, <1>4, <1>5, <1>6 DEF Entry
<1>8. r = [n \in D |-> r[n]] /\ s = [n \in D |-> s[n]]
  <2>1. r \in UNION {[X -> Entry] : X \in SUBSET Nat}
    BY <1>1 DEF Layouts, r
  <2>2. s \in UNION {[X -> Entry] : X \in SUBSET Nat}
    BY <1>1 DEF Layouts, s
  <2> QED BY <1>2, <2>1, <2>2
<1>9. r = s
  BY <1>7, <1>8
<1> QED BY <1>9 DEF r, s

\* The two sides arrive at one layout, in whatever order each had configured its
\* protocols and received the capabilities, and no two protocols share a code.
LEMMA LayoutsAgree ==
    ASSUME LengthsAgree, NEW s \in Setups,
           NEW r \in matchProtocols(s.ours, s.theirs), NEW t \in matchProtocols(s.theirs, s.ours)
    PROVE  /\ r = t /\ Apart(r)
           /\ \E layout \in Layouts : r = layout.result
<1>1. s.ours \in Seq(ProtocolSpec) /\ s.theirs \in Seq(ProtocolSpec)
  BY SetupAssumption
<1>2. PICK x \in Sorts(s.theirs) : r = Layout(s.ours, x).result
  BY DEF matchProtocols
<1>3. PICK y \in Sorts(s.ours) : t = Layout(s.theirs, y).result
  BY DEF matchProtocols
<1>4. /\ x \in Seq(ProtocolSpec) /\ Sorted(x)
      /\ Listed(x, DOMAIN x) = Listed(s.theirs, DOMAIN s.theirs)
  BY <1>1, SortsOf
<1>5. /\ y \in Seq(ProtocolSpec) /\ Sorted(y)
      /\ Listed(y, DOMAIN y) = Listed(s.ours, DOMAIN s.ours)
  BY <1>1, SortsOf
<1> DEFINE M == Common(s.ours, s.theirs)
<1>6. Common(s.ours, x) = M /\ Common(s.theirs, y) = M
  BY <1>4, <1>5 DEF Common
<1>7. Fits(s.ours, M, Layout(s.ours, x))
  BY <1>1, <1>4, <1>6, LayoutFits
<1>8. Fits(s.theirs, M, Layout(s.theirs, y))
  BY <1>1, <1>5, <1>6, LayoutFits
<1>9. SameLengths(s.ours, s.theirs)
  BY DEF LengthsAgree
<1> HIDE DEF M
<1>10. r = t
  BY <1>1, <1>2, <1>3, <1>7, <1>8, <1>9, OneLayout
<1> QED BY <1>2, <1>7, <1>10 DEF Fits

\* A layout as getProto reads it.
Readable(r) ==
    /\ DOMAIN r \in SUBSET Nat
    /\ \A n \in DOMAIN r : r[n].offset \in Int /\ r[n].length \in Nat
    /\ Apart(r)

\* A code of a protocol is a code of no other (peer.go:378-385).
LEMMA OneProto ==
    ASSUME NEW r, Readable(r), NEW n \in DOMAIN r, NEW c \in 0 .. r[n].length - 1,
           NEW p \in DOMAIN r
    PROVE  (r[p].offset <= c + r[n].offset /\ c + r[n].offset < r[p].offset + r[p].length)
              <=> p = n
<1>1. /\ n \in Nat /\ r[n].offset \in Int /\ r[n].length \in Nat
      /\ p \in Nat /\ r[p].offset \in Int /\ r[p].length \in Nat
      /\ c \in Nat /\ c < r[n].length
  BY DEF Readable
<1>2. CASE p = n
  BY <1>1, <1>2
<1>3. CASE p < n
  <2>1. r[p].offset + r[p].length <= r[n].offset
    BY <1>3 DEF Readable, Apart, End
  <2> QED BY <2>1, <1>1, <1>3
<1>4. CASE n < p
  <2>1. r[n].offset + r[n].length <= r[p].offset
    BY <1>4 DEF Readable, Apart, End
  <2> QED BY <2>1, <1>1, <1>4
<1> QED BY <1>1, <1>2, <1>3, <1>4

LayoutInv == running = remote /\ Readable(running)
CodesInv  == LayoutInv /\ CodesAgree

\* Whatever the two sides have configured, with the lengths they agree on, and
\* however often a name or a version comes up: a message is handed to the
\* protocol that wrote it and reads the code that was written
\* (peer.go:332-352, 378-385, 404, 419).
THEOREM PeerCodesAgree ==
    ASSUME LengthsAgree
    PROVE  CodesSpec => []CodesAgree
<1>1. CodesInit => CodesInv
  <2> SUFFICES ASSUME CodesInit PROVE CodesInv
    OBVIOUS
  <2>1. PICK s \in Setups : /\ running \in matchProtocols(s.ours, s.theirs)
                            /\ remote \in matchProtocols(s.theirs, s.ours)
    BY DEF CodesInit
  <2>2. /\ running = remote /\ Apart(running)
        /\ \E layout \in Layouts : running = layout.result
    BY <2>1, LayoutsAgree
  <2>3. LayoutInv
    BY <2>2, LayoutFields DEF LayoutInv, Readable
  <2>4. CodesAgree
    BY DEF CodesInit, CodesAgree
  <2> QED BY <2>3, <2>4 DEF CodesInv
<1>2. CodesInv /\ [CodesNext]_codesVars => CodesInv'
  <2> SUFFICES ASSUME CodesInv, [CodesNext]_codesVars PROVE CodesInv'
    OBVIOUS
  <2>1. running' = running /\ remote' = remote
    BY DEF CodesNext, MessageArrives, MessageLeaves, OtherStep, codesVars
  <2>2. LayoutInv'
    BY <2>1 DEF CodesInv, LayoutInv, Readable, Apart, End
  <2>3. CodesAgree'
    <3>1. CASE \E m \in Sendable : MessageArrives(m)
      <4>1. PICK m \in Sendable : MessageArrives(m)
        BY <3>1
      <4>2. message' = m
        BY <4>1 DEF MessageArrives
      <4> SUFFICES ASSUME m # NoMessage, m.name # NoMessage
                   PROVE  /\ offered' = {m.name}
                          /\ m.wire - running[m.name].offset = m.code
                          /\ running[m.name].version = remote[m.name].version
        BY <4>2, <2>1 DEF CodesAgree
      <4>3. PICK n \in DOMAIN running : \E c \in 0 .. running[n].length - 1 :
                m = [name |-> n, code |-> c, wire |-> c + running[n].offset]
        <5>1. m # NobodysCode
          <6>1. NobodysCode.name = NoMessage
            BY DEF NobodysCode
          <6> QED BY <6>1, Zenon
        <5>2. m \in UNION {Sent(q) : q \in DOMAIN remote}
          <6>1. m \in Sendable
            BY <4>1
          <6> QED BY <5>1, <6>1 DEF Sendable
        <5>3. PICK n \in DOMAIN remote : m \in Sent(n)
          BY <5>2, Zenon
        <5>4. running = remote
          BY DEF CodesInv, LayoutInv
        <5> QED BY <5>3, <5>4 DEF Sent
      <4>4. PICK c \in 0 .. running[n].length - 1 :
                m = [name |-> n, code |-> c, wire |-> c + running[n].offset]
        BY <4>3
      <4>5. m.name = n /\ m.code = c /\ m.wire = c + running[n].offset
        BY <4>4
      <4>6. Readable(running) /\ running = remote
        BY DEF CodesInv, LayoutInv
      <4>7. getProto(m.wire) = {n}
        BY <4>5, <4>6, OneProto DEF getProto
      <4>8. offered' = {n}
        BY <4>1, <4>7 DEF MessageArrives, ReadMessage
      <4>9. m.wire - running[n].offset = c
        BY <4>5, <4>6 DEF Readable
      <4> QED BY <4>5, <4>6, <4>8, <4>9
    <3>2. CASE MessageLeaves
      BY <3>2 DEF MessageLeaves, CodesAgree
    <3>3. CASE OtherStep
      <4>1. offered' = offered
        BY <3>3 DEF OtherStep, RunStep, ReadStep, PingStep, WireBreaks, ProtocolStep,
              CallerStep, PassTurn, Break, CloseClosed, CloseWire, Return,
              ReadPing, PutPing, ReadEnds, ReadFails, SendPong, PingFails, PingReports,
              PingClosed, WriteMsg, TakeTurn, WriteClosed, Write, ReportWrite, ReadMsg,
              ReadClosed, ProtocolReturns, ProtocolReports,
              Disconnect, DisconnectTaken, DisconnectClosed
      <4>2. message' = message
        BY <3>3 DEF OtherStep
      <4> QED BY <4>1, <4>2, <2>1 DEF CodesInv, CodesAgree
    <3>4. CASE UNCHANGED codesVars
      BY <3>4 DEF codesVars, peerVars, CodesInv, CodesAgree
    <3> QED BY <3>1, <3>2, <3>3, <3>4 DEF CodesNext
  <2> QED BY <2>2, <2>3 DEF CodesInv
<1>3. CodesInv => CodesAgree
  BY DEF CodesInv
<1> QED BY <1>1, <1>2, <1>3, PTL DEF CodesSpec
=============================================================================
