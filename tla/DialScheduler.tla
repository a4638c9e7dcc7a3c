--------------------------- MODULE DialScheduler ---------------------------
(***************************************************************************)
(* The outgoing half of the network, internal/p2p/dial.go: one goroutine,  *)
(* loop(), owns the set of static nodes and the pool of those that can be  *)
(* dialled now, and starts a goroutine per dial.  It learns from the       *)
(* server which nodes are connected.  It starts dials until its slots or   *)
(* its pool are used up, and only then waits for an event.                 *)
(***************************************************************************)
EXTENDS Integers, Sequences, FiniteSets, SequencesExt

CONSTANTS
    Nodes,           \* node IDs
    self,            \* our own
    NoPort,          \* nodes known without a TCP port
    maxDialPeers,    \* dialConfig
    maxActiveDials

ASSUME DialAssumption ==
    /\ NoPort \subseteq Nodes
    /\ maxDialPeers \in Nat /\ maxActiveDials \in Nat

VARIABLES
    dialLoop,         \* loop(): "off" or "on"
    static,           \* keys of d.static
    staticPool,       \* tasks that can be started, by node
    staticPoolIndex,  \* task.staticPoolIndex: place in the pool from 0, or -1
    dialing,          \* keys of d.dialing
    finished,         \* those of them whose goroutine waits to send on doneCh
    connected,        \* d.peers
    dialPeers,        \* counter of connected nodes we dialled
    history,          \* nodes in d.history
    historyTimer      \* whether the timer has not fired yet

poolVars == <<staticPool, staticPoolIndex>>
dialVars == <<dialLoop, static, poolVars, dialing, finished, connected, dialPeers,
              history, historyTimer>>

DialTypeOK ==
    /\ dialLoop \in {"off", "on"}
    /\ static \in SUBSET Nodes
    /\ staticPool \in Seq(Nodes)
    /\ staticPoolIndex \in [Nodes -> Nat \cup {-1}]
    /\ dialing \in SUBSET Nodes
    /\ finished \in SUBSET dialing
    /\ connected \in SUBSET Nodes
    /\ dialPeers \in Int
    /\ history \in SUBSET Nodes
    /\ historyTimer \in BOOLEAN

DialInit ==
    /\ dialLoop = "off"
    /\ static = {} /\ staticPool = <<>> /\ staticPoolIndex = [n \in Nodes |-> -1]
    /\ dialing = {} /\ finished = {} /\ connected = {} /\ dialPeers = 0
    /\ history = {} /\ historyTimer = FALSE

newDialScheduler ==
    /\ dialLoop = "off" /\ dialLoop' = "on"
    /\ static' = {} /\ staticPool' = <<>> /\ staticPoolIndex' = [n \in Nodes |-> -1]
    /\ dialing' = {} /\ finished' = {} /\ connected' = {} /\ dialPeers' = 0
    /\ history' = {} /\ historyTimer' = TRUE

-----------------------------------------------------------------------------
(* The static pool                                                         *)

\* The reasons not to dial a node, for given contents of the three tables.
checkDial(n, inDialing, inPeers, inHistory) ==
    /\ n # self
    /\ n \notin NoPort
    /\ n \notin inDialing
    /\ n \notin inPeers
    /\ n \notin inHistory

addToStaticPool(n) ==
    /\ staticPool' = Append(staticPool, n)
    /\ staticPoolIndex' = [staticPoolIndex EXCEPT ![n] = Len(staticPool)]

\* The last task takes the place of the removed one.
removeFromStaticPool(idx) ==
    LET task == staticPool[idx + 1]
        last == Last(staticPool)
    IN  /\ staticPool' = Front([staticPool EXCEPT ![idx + 1] = last])
        /\ staticPoolIndex' = [staticPoolIndex EXCEPT ![last] = idx, ![task] = -1]

updateStaticPool(n, inDialing, inPeers, inHistory) ==
    IF /\ n \in static /\ staticPoolIndex[n] < 0
       /\ checkDial(n, inDialing, inPeers, inHistory)
    THEN addToStaticPool(n)
    ELSE UNCHANGED poolVars

-----------------------------------------------------------------------------
(* Dials                                                                   *)

freeDialSlots ==
    LET slots == (maxDialPeers - dialPeers) * 2
    IN  (IF slots > maxActiveDials THEN maxActiveDials ELSE slots) - Cardinality(dialing)

CanStart == freeDialSlots > 0 /\ staticPool # <<>>

\* loop() is at its select.
Selecting == dialLoop = "on" /\ ~CanStart

\* One round of startStaticDials: any task of the pool.
StartStaticDial(n) ==
    /\ dialLoop = "on" /\ CanStart
    /\ \E idx \in 0 .. Len(staticPool) - 1 :
          /\ n = staticPool[idx + 1]
          /\ removeFromStaticPool(idx)
    /\ history' = history \cup {n}
    /\ dialing' = dialing \cup {n}
    /\ UNCHANGED <<dialLoop, static, finished, connected, dialPeers, historyTimer>>

\* task.run ended, with a connection or not: the goroutine sends on doneCh.
TaskReturned(n) ==
    /\ n \in dialing \ finished
    /\ finished' = finished \cup {n}
    /\ UNCHANGED <<dialLoop, static, poolVars, dialing, connected, dialPeers, history,
                   historyTimer>>

-----------------------------------------------------------------------------
(* The events of loop()                                                    *)

DialDone(n) ==
    /\ Selecting /\ n \in finished
    /\ dialing' = dialing \ {n} /\ finished' = finished \ {n}
    /\ updateStaticPool(n, dialing \ {n}, connected, history)
    /\ UNCHANGED <<dialLoop, static, connected, dialPeers, history, historyTimer>>

\* returned: the node was dialled, and its task ends with the connection.
PeerAdded(n, dialed, returned) ==
    /\ Selecting
    /\ returned => n \in dialing \ finished
    /\ finished' = IF returned THEN finished \cup {n} ELSE finished
    /\ dialPeers' = IF dialed THEN dialPeers + 1 ELSE dialPeers
    /\ connected' = connected \cup {n}
    /\ IF n \in static /\ staticPoolIndex[n] >= 0
       THEN removeFromStaticPool(staticPoolIndex[n])
       ELSE UNCHANGED poolVars
    /\ UNCHANGED <<dialLoop, static, dialing, history, historyTimer>>

\* Mutant: the pool is updated before the peer is taken out.
PeerRemovedLate(n, dialed) ==
    /\ Selecting
    /\ dialPeers' = IF dialed THEN dialPeers - 1 ELSE dialPeers
    /\ connected' = connected \ {n}
    /\ updateStaticPool(n, dialing, connected, history)
    /\ UNCHANGED <<dialLoop, static, dialing, finished, history, historyTimer>>

PeerRemoved(n, dialed) ==
    /\ Selecting
    /\ dialPeers' = IF dialed THEN dialPeers - 1 ELSE dialPeers
    /\ connected' = connected \ {n}
    /\ updateStaticPool(n, dialing, connected \ {n}, history)
    /\ UNCHANGED <<dialLoop, static, dialing, finished, history, historyTimer>>

AddStatic(n) ==
    /\ Selecting /\ n \notin static
    /\ static' = static \cup {n}
    /\ IF checkDial(n, dialing, connected, history)
       THEN addToStaticPool(n)
       ELSE UNCHANGED poolVars
    /\ UNCHANGED <<dialLoop, dialing, finished, connected, dialPeers, history, historyTimer>>

RemoveStatic(n) ==
    /\ Selecting
    /\ static' = static \ {n}
    /\ IF n \in static /\ staticPoolIndex[n] >= 0
       THEN removeFromStaticPool(staticPoolIndex[n])
       ELSE UNCHANGED poolVars
    /\ UNCHANGED <<dialLoop, dialing, finished, connected, dialPeers, history, historyTimer>>

\* The timer is set once, to an hour, and never again; by then any of the
\* entries may be older than dialHistoryExpiration.
ExpireHistory ==
    /\ Selecting /\ historyTimer
    /\ historyTimer' = FALSE
    /\ \E expired \in SUBSET history :
          LET back == {n \in expired \cap static :
                          /\ staticPoolIndex[n] < 0
                          /\ checkDial(n, dialing, connected, history \ expired)}
          IN  \E order \in Bijection(1 .. Cardinality(back), back) :
                 /\ history' = history \ expired
                 /\ staticPool' = staticPool \o order
                 /\ staticPoolIndex' =
                       [n \in Nodes |->
                           IF n \in back
                           THEN Len(staticPool) - 1 + CHOOSE i \in DOMAIN order : order[i] = n
                           ELSE staticPoolIndex[n]]
    /\ UNCHANGED <<dialLoop, static, dialing, finished, connected, dialPeers>>

\* stop() cancels the context and waits for the loop, not for the dials.
StopDialLoop ==
    /\ Selecting
    /\ dialLoop' = "off"
    /\ UNCHANGED <<static, poolVars, dialing, finished, connected, dialPeers, history,
                   historyTimer>>

-----------------------------------------------------------------------------
DialNext ==
    \/ newDialScheduler \/ ExpireHistory \/ StopDialLoop
    \/ \E n \in Nodes :
          \/ StartStaticDial(n) \/ TaskReturned(n) \/ DialDone(n)
          \/ AddStatic(n) \/ RemoveStatic(n)
          \/ \E dialed, returned \in BOOLEAN : PeerAdded(n, dialed, returned)
          \/ \E dialed \in BOOLEAN : PeerRemoved(n, dialed)

DialSpec == DialInit /\ [][DialNext]_dialVars

-----------------------------------------------------------------------------
\* A task knows its place in the pool: the panic "attempt to add task to
\* staticPool twice" and a removal of the wrong task are out of reach
\* (dial.go:297-313).
PoolIndexed ==
    /\ \A i \in DOMAIN staticPool : staticPoolIndex[staticPool[i]] = i - 1
    /\ \A n \in Nodes : staticPoolIndex[n] >= 0 =>
          /\ staticPoolIndex[n] + 1 \in DOMAIN staticPool
          /\ staticPool[staticPoolIndex[n] + 1] = n

\* The pool, which five events adjust one node at a time, holds exactly the
\* static nodes that checkDial lets through: none is forgotten, none is
\* dialled while it is dialled already, connected or in the history
\* (dial.go:171-226, 261-295).
PoolExact ==
    \A n \in Nodes :
        staticPoolIndex[n] >= 0
          <=> n \in static /\ checkDial(n, dialing, connected, history)

\* The two together: the pool by its tasks and by its nodes (dial.go:261-313).
PoolSound == PoolIndexed /\ PoolExact

\* No more dials run at once than configured (dial.go:253-259, 280-288).
DialBound == Cardinality(dialing) <= maxActiveDials
=============================================================================
