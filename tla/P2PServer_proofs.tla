-------------------------- MODULE P2PServer_proofs --------------------------
(***************************************************************************)
(* The network server drives its dial scheduler as any server may, so what *)
(* is proved of the scheduler by itself holds inside the server.  Then     *)
(* what the server keeps count of: peers, listener slots, dials.           *)
(***************************************************************************)
EXTENDS P2PServer, DialScheduler_proofs

ConnTypeOK == conn \in [Conns -> ConnType] /\ starts \in 0 .. MaxStarts

\* A connection that ends leaves the table typed, and its task, if it has one,
\* ends as the scheduler expects (p2p.go:718-726, dial.go:320-323).
LEMMA ClosedStep ==
    ASSUME ConnTypeOK, NEW c \in Conns, Closed(c)
    PROVE  /\ conn' \in [Conns -> ConnType]
           /\ DialNext \/ UNCHANGED dialVars
<1>1. Free \in ConnType
  BY ServerAssumption DEF Free, ConnType, Steps
<1>2. conn[c].node \in Nodes
  BY DEF ConnTypeOK, ConnType
<1>3. conn' \in [Conns -> ConnType]
  BY <1>1 DEF Closed, ConnTypeOK
<1>4. TaskReturned(conn[c].node) \/ UNCHANGED dialVars
  BY Zenon DEF Closed
<1>5. TaskReturned(conn[c].node) => DialNext
  BY <1>2, Zenon DEF DialNext
<1> QED BY <1>3, <1>4, <1>5

\* A fresh connection of the right type leaves the table typed.
LEMMA NewConnStep ==
    ASSUME ConnTypeOK, NEW k \in ConnType, NewConn(k)
    PROVE  conn' \in [Conns -> ConnType]
  BY DEF NewConn, ConnTypeOK

\* A change of the step of one connection leaves the table typed.
LEMMA StepChanges ==
    ASSUME ConnTypeOK, NEW c, NEW s \in Steps, conn' = [conn EXCEPT ![c].step = s]
    PROVE  conn' \in [Conns -> ConnType]
  BY DEF ConnTypeOK, ConnType

\* Whether the peer was dialled or not, and by which scheduler, PeerAdded is a
\* step of the scheduler (p2p.go:589).
LEMMA PeerAddedIsStep ==
    ASSUME NEW n \in Nodes, NEW c \in Conns,
           PeerAdded(n, ~conn[c].inbound, HasTask(c))
    PROVE  DialNext
<1>1. \/ PeerAdded(n, TRUE, TRUE) \/ PeerAdded(n, TRUE, FALSE)
      \/ PeerAdded(n, FALSE, TRUE) \/ PeerAdded(n, FALSE, FALSE)
  <2>1. CASE conn[c].inbound /\ HasTask(c)
    BY <2>1, Zenon DEF PeerAdded
  <2>2. CASE conn[c].inbound /\ ~HasTask(c)
    BY <2>2, Zenon DEF PeerAdded
  <2>3. CASE ~conn[c].inbound /\ HasTask(c)
    BY <2>3, Zenon DEF PeerAdded
  <2>4. CASE ~conn[c].inbound /\ ~HasTask(c)
    BY <2>4, Zenon DEF PeerAdded
  <2> QED BY <2>1, <2>2, <2>3, <2>4
<1>2. ASSUME NEW d \in BOOLEAN, NEW r \in BOOLEAN, PeerAdded(n, d, r) PROVE DialNext
  BY <1>2, Zenon DEF DialNext
<1> QED BY <1>1, <1>2

\* The same for PeerRemoved (p2p.go:604).
LEMMA PeerRemovedIsStep ==
    ASSUME NEW n \in Nodes, NEW c \in Conns, PeerRemoved(n, ~conn[c].inbound)
    PROVE  DialNext
<1>1. PeerRemoved(n, TRUE) \/ PeerRemoved(n, FALSE)
  <2>1. CASE conn[c].inbound
    BY <2>1, Zenon DEF PeerRemoved
  <2>2. CASE ~conn[c].inbound
    BY <2>2, Zenon DEF PeerRemoved
  <2> QED BY <2>1, <2>2
<1>2. ASSUME NEW d \in BOOLEAN, PeerRemoved(n, d) PROVE DialNext
  BY <1>2, Zenon DEF DialNext
<1> QED BY <1>1, <1>2

\* A connection that goes on within SetupConn, or ends as a peer, changes nothing
\* but its step (p2p.go:736-789, peer.go:241-295).
ConnMoves(c, t) ==
    /\ conn' = [conn EXCEPT ![c] = [conn[c] EXCEPT !.step = t]]
    /\ UNCHANGED <<dialVars, callVars, serverLoop, peerVars, listenVars>>
    /\ \/ t \in SetupSteps /\ conn[c].step \in {"dialing"} \cup SetupSteps
       \/ t = "closing" /\ conn[c].step = "peer"

LEMMA Moves ==
    ASSUME NEW c \in Conns, SetupConn(c) \/ HandshakeDone(c) \/ PeerEnds(c)
    PROVE  \E t \in Steps : ConnMoves(c, t)
<1>1. CASE SetupConn(c)
  BY <1>1 DEF SetupConn, ConnMoves, SetupSteps, Steps
<1>2. CASE HandshakeDone(c)
  <2>1. CASE conn[c].step = "enc"
    BY <1>2, <2>1 DEF HandshakeDone, ConnMoves, SetupSteps, Steps
  <2>2. CASE conn[c].step = "proto"
    BY <1>2, <2>2 DEF HandshakeDone, ConnMoves, SetupSteps, Steps
  <2> QED BY <1>2, <2>1, <2>2 DEF HandshakeDone, InHandshake
<1>3. CASE PeerEnds(c)
  BY <1>3 DEF PeerEnds, ConnMoves, Steps
<1> QED BY <1>1, <1>2, <1>3

\* What is shown of each step: the table stays typed, and the scheduler takes a
\* step of its own or none.
Good == ConnTypeOK' /\ (DialNext \/ UNCHANGED dialVars)

\* One step of a connection's goroutine.
LEMMA ConnGood ==
    ASSUME ConnTypeOK, NEW c \in Conns, ConnStep(c)
    PROVE  Good
<1>1. /\ conn[c].node \in Nodes /\ conn[c].inbound \in BOOLEAN
      /\ conn[c] \in ConnType /\ conn \in [Conns -> ConnType]
  BY DEF ConnTypeOK, ConnType
<1>2. Free \in ConnType
  BY ServerAssumption DEF Free, ConnType, Steps
<1>3. starts' = starts
  BY Zenon DEF ConnStep, DialFails, SetupConn, NotRunning, HandshakeDone, HandshakeFails,
     CheckpointQuits, PostHandshake, PeerRefused, AddPeerCheckpoint, PeerEnds, DelPeer, DrainPeer, callVars
<1>4. CASE Closed(c)
  BY <1>3, <1>4, ClosedStep DEF Good, ConnTypeOK
<1>5. CASE SetupConn(c) \/ HandshakeDone(c) \/ PeerEnds(c)
  <2>1. PICK t \in Steps : conn' = [conn EXCEPT ![c].step = t] /\ UNCHANGED dialVars
    BY <1>5, Moves DEF ConnMoves
  <2>2. conn' \in [Conns -> ConnType]
    BY <2>1, StepChanges
  <2> QED BY <1>3, <2>1, <2>2 DEF Good, ConnTypeOK
<1>6. CASE PostHandshake(c)
  <2> DEFINE k == [conn[c] EXCEPT !.trusted = @ \/ conn[c].node \in trusted]
  <2>1. CASE /\ conn' = [conn EXCEPT ![c] = [k EXCEPT !.step = "proto"]]
             /\ UNCHANGED <<dialVars, slots>>
    <3>1. [k EXCEPT !.step = "proto"] \in ConnType
      BY <1>1, Zenon DEF ConnType, Steps
    <3>2. conn' \in [Conns -> ConnType]
      BY <1>1, <2>1, <3>1
    <3> QED BY <1>3, <2>1, <3>2 DEF Good, ConnTypeOK
  <2> QED BY <1>4, <1>6, <2>1 DEF PostHandshake
<1>7. CASE AddPeerCheckpoint(c)
  <2>1. conn' = [conn EXCEPT ![c].step = "peer"]
    BY <1>7, Zenon DEF AddPeerCheckpoint
  <2>2. conn' \in [Conns -> ConnType]
    BY <2>1, StepChanges DEF Steps
  <2>3. PeerAdded(conn[c].node, ~conn[c].inbound, HasTask(c))
    BY <1>7, Zenon DEF AddPeerCheckpoint
  <2>5. DialNext
    BY <1>1, <2>3, PeerAddedIsStep
  <2> QED BY <1>3, <2>2, <2>5 DEF Good, ConnTypeOK
<1>9. CASE DelPeer(c)
  <2>1. conn' = [conn EXCEPT ![c] = Free] /\ PeerRemoved(conn[c].node, ~conn[c].inbound)
    BY <1>9, Zenon DEF DelPeer, PeerGone
  <2>2. conn' \in [Conns -> ConnType]
    BY <1>1, <1>2, <2>1
  <2>4. DialNext
    BY <1>1, <2>1, PeerRemovedIsStep
  <2> QED BY <1>3, <2>2, <2>4 DEF Good, ConnTypeOK
<1>10. CASE DrainPeer(c)
  <2>1. conn' = [conn EXCEPT ![c] = Free] /\ UNCHANGED dialVars
    BY <1>10 DEF DrainPeer, PeerGone
  <2>2. conn' \in [Conns -> ConnType]
    BY <1>1, <1>2, <2>1
  <2> QED BY <1>3, <2>1, <2>2 DEF Good, ConnTypeOK
<1> QED BY <1>4, <1>5, <1>6, <1>7, <1>9, <1>10, Zenon
        DEF ConnStep, DialFails, NotRunning, HandshakeFails, CheckpointQuits, PeerRefused

\* Every step of the server is one of the dial scheduler, or none.
LEMMA ServerGood ==
    ASSUME ConnTypeOK, [ServerNext]_serverVars
    PROVE  Good
<1>1. CASE Start \/ StartFails
  <2>1. starts' = starts + 1 /\ starts < MaxStarts /\ conn' = conn
    BY <1>1, Zenon DEF Start, StartFails, StartCalled
  <2>2. starts' \in 0 .. MaxStarts
    BY <2>1, ServerAssumption DEF ConnTypeOK
  <2>3. newDialScheduler \/ UNCHANGED dialVars
    BY <1>1, Zenon DEF Start, StartFails
  <2> QED BY <2>1, <2>2, <2>3 DEF Good, ConnTypeOK, DialNext
<1>2. CASE Stop \/ Stopped \/ TakeSlot \/ AcceptFails \/ ListenLoopDone
  BY <1>2 DEF Stop, Stopped, TakeSlot, AcceptFails, ListenLoopDone, callVars, Good, ConnTypeOK
<1>3. ASSUME NEW a \in Addrs, RefuseInbound(a) \/ ThrottleExpires(a) PROVE Good
  BY <1>3 DEF RefuseInbound, ThrottleExpires, callVars, Good, ConnTypeOK
<1>4. ASSUME NEW a \in Addrs, NEW n \in Remotes, AcceptInbound(a, n) PROVE Good
  <2>1. [Free EXCEPT !.step = "setup", !.inbound = TRUE, !.node = n] \in ConnType
    <3>1. n \in Nodes /\ 0 \in 0 .. MaxStarts
      BY ServerAssumption
    <3>2. "setup" \in Steps /\ TRUE \in BOOLEAN /\ FALSE \in BOOLEAN
      BY DEF Steps
    <3> QED BY <3>1, <3>2 DEF Free, ConnType
  <2>2. /\ NewConn([Free EXCEPT !.step = "setup", !.inbound = TRUE, !.node = n])
        /\ starts' = starts /\ UNCHANGED dialVars
    BY <1>4 DEF AcceptInbound, callVars
  <2>3. conn' \in [Conns -> ConnType]
    BY <2>1, <2>2, NewConnStep
  <2> QED BY <2>2, <2>3 DEF Good, ConnTypeOK
<1>5. CASE DialLoopStep
  BY <1>5 DEF DialLoopStep, callVars, Good, ConnTypeOK, DialNext
<1>6. CASE Quit
  <2>1. /\ starts' = starts /\ UNCHANGED dialVars
        /\ conn' = [c \in Conns |->
                      IF \E n \in PeerNodes : peers[n] = c
                      THEN [conn[c] EXCEPT !.step = "closing"] ELSE conn[c]]
    BY <1>6 DEF Quit, callVars
  <2>2. \A c \in Conns : conn[c] \in ConnType /\ [conn[c] EXCEPT !.step = "closing"] \in ConnType
    BY DEF ConnTypeOK, ConnType, Steps
  <2>3. conn' \in [Conns -> ConnType]
    BY <2>1, <2>2, Zenon
  <2> QED BY <2>1, <2>3 DEF Good, ConnTypeOK
<1>7. CASE ServerLoopDone
  BY <1>7 DEF ServerLoopDone, callVars, Good, ConnTypeOK, DialNext
<1>8. ASSUME NEW c \in Conns, ConnStep(c) PROVE Good
  BY <1>8, ConnGood
<1>9. ASSUME NEW n \in Nodes, StartDial(n) PROVE Good
  <2>1. [Free EXCEPT !.step = "dialing", !.node = n, !.dialer = starts] \in ConnType
    BY ServerAssumption DEF Free, ConnType, Steps, ConnTypeOK
  <2>2. /\ NewConn([Free EXCEPT !.step = "dialing", !.node = n, !.dialer = starts])
        /\ starts' = starts /\ StartStaticDial(n)
    BY <1>9 DEF StartDial, callVars
  <2>3. conn' \in [Conns -> ConnType]
    BY <2>1, <2>2, NewConnStep
  <2> QED BY <2>2, <2>3 DEF Good, ConnTypeOK, DialNext
<1>10. ASSUME NEW n \in Statics, AddPeer(n) PROVE Good
  <2>1. n \in Nodes
    BY ServerAssumption
  <2> QED BY <1>10, <2>1 DEF AddPeer, callVars, Good, ConnTypeOK, DialNext
<1>11. ASSUME NEW n \in Removable, RemovePeer(n) PROVE Good
  <2>1. n \in Nodes
    BY ServerAssumption
  <2>2. RemoveStatic(n) /\ starts' = starts
    BY <1>11 DEF RemovePeer, callVars
  <2>3. conn' = conn \/ conn' = [conn EXCEPT ![peers[n]].step = "closing"]
    BY <1>11 DEF RemovePeer
  <2>4. conn' \in [Conns -> ConnType]
    BY <2>3, StepChanges DEF ConnTypeOK, Steps
  <2> QED BY <2>1, <2>2, <2>4 DEF Good, ConnTypeOK, DialNext
<1>12. ASSUME NEW n \in MayTrust, AddTrusted(n) \/ RemoveTrusted(n) PROVE Good
  BY <1>12 DEF AddTrusted, RemoveTrusted, callVars, Good, ConnTypeOK
<1>13. CASE UNCHANGED serverVars
  BY <1>13 DEF serverVars, callVars, Good, ConnTypeOK
<1> QED BY <1>1, <1>2, <1>3, <1>4, <1>5, <1>6, <1>7, <1>8, <1>9, <1>10, <1>11, <1>12, <1>13, Zenon
        DEF ServerNext, ListenLoopStep

\* The server, at any number of nodes, connections and restarts, is a server
\* such as the dial scheduler expects (p2p.go:439-459, 584-605).
LEMMA ServerDials == ServerSpec => DialSpec
<1>1. ServerInit => ConnTypeOK /\ DialInit
  <2> SUFFICES ASSUME ServerInit PROVE ConnTypeOK /\ DialInit
    OBVIOUS
  <2>1. Free \in ConnType
    BY ServerAssumption DEF Free, ConnType, Steps
  <2> QED BY <2>1, ServerAssumption DEF ServerInit, ConnTypeOK
<1>2. ConnTypeOK /\ [ServerNext]_serverVars => ConnTypeOK' /\ [DialNext]_dialVars
  BY ServerGood DEF Good
<1> QED BY <1>1, <1>2, PTL DEF ServerSpec, DialSpec

\* So the pool is sound inside the server too (dial.go:171-226, 261-313).
THEOREM ServerPoolSound == ServerSpec => []PoolSound
  BY ServerDials, PoolIsSound, PTL

\* And no more dials run at once than the server configures.
THEOREM ServerDialsBounded == ServerSpec => []DialBound
  BY ServerDials, DialsAreBounded, PTL

-----------------------------------------------------------------------------
(* The peer set                                                            *)

\* The set is empty while run() is not there, and only then may Start be called.
PeersInv ==
    /\ ConnTypeOK
    /\ peers \in [Nodes -> Conns \cup {NoConn}]
    /\ PeersExact
    /\ caller = "down" => serverLoop = "off"
    /\ serverLoop = "off" => PeerNodes = {}

Live(k) == k.step \in {"peer", "closing"}

\* One connection changes, but neither enters nor leaves runPeer.
LEMMA SamePeers ==
    ASSUME PeersInv, peers' = peers, NEW c \in Conns, NEW k,
           conn' = [conn EXCEPT ![c] = k],
           Live(k) <=> Live(conn[c]), Live(k) => k.node = conn[c].node
    PROVE  PeersExact' /\ PeerNodes' = PeerNodes
<1>1. conn'[c] = k /\ \A d \in Conns \ {c} : conn'[d] = conn[d]
  BY DEF PeersInv, ConnTypeOK
<1>2. LivePeers' = LivePeers /\ \A d \in LivePeers : conn'[d].node = conn[d].node
  BY <1>1 DEF LivePeers, Live
<1>3. PeerNodes' = PeerNodes
  BY DEF PeerNodes
<1> QED BY <1>2, <1>3 DEF PeersInv, PeersExact

\* A connection that is refused was not a peer.
LEMMA ClosedKeepsPeers ==
    ASSUME PeersInv, peers' = peers, NEW c \in Conns, Closed(c), ~Live(conn[c])
    PROVE  PeersExact' /\ PeerNodes' = PeerNodes
<1>1. conn' = [conn EXCEPT ![c] = Free] /\ ~Live(Free)
  BY DEF Closed, Free, Live
<1> QED BY <1>1, SamePeers

LEMMA NewKeepsPeers ==
    ASSUME PeersInv, peers' = peers, NEW k, NewConn(k), ~Live(k)
    PROVE  PeersExact' /\ PeerNodes' = PeerNodes
<1>1. PICK c \in Conns : conn[c].step = "free" /\ conn' = [conn EXCEPT ![c] = k]
  BY DEF NewConn
<1>2. ~Live(conn[c])
  BY <1>1 DEF Live
<1> QED BY <1>1, <1>2, SamePeers

\* addPeerChecks leaves no second connection to a node (p2p.go:584-601).
LEMMA AddKeepsPeers ==
    ASSUME PeersInv, NEW c \in Conns, AddPeerCheckpoint(c)
    PROVE  PeersExact' /\ peers' \in [Nodes -> Conns \cup {NoConn}]
<1> DEFINE n == conn[c].node
<1>1. /\ peers' = [peers EXCEPT ![n] = c] /\ conn' = [conn EXCEPT ![c].step = "peer"]
      /\ conn[c].step = "add" /\ peers[n] = NoConn
  BY Zenon DEF AddPeerCheckpoint, addPeerChecks, postHandshakeChecks
<1>2. n \in Nodes /\ conn[c] \in ConnType /\ NoConn \notin Conns
  BY ServerAssumption DEF PeersInv, ConnTypeOK, ConnType
<1>3. /\ conn'[c].step = "peer" /\ conn'[c].node = n
      /\ \A d \in Conns \ {c} : conn'[d] = conn[d]
  BY <1>1, <1>2 DEF PeersInv, ConnTypeOK, ConnType
<1>4. peers'[n] = c /\ \A m \in Nodes \ {n} : peers'[m] = peers[m]
  BY <1>1, <1>2 DEF PeersInv
<1>5. LivePeers' = LivePeers \cup {c} /\ PeerNodes' = PeerNodes \cup {n} /\ n \notin PeerNodes
  BY <1>1, <1>2, <1>3, <1>4 DEF LivePeers, PeerNodes
<1>6. c \notin LivePeers /\ \A m \in PeerNodes : m \in Nodes /\ m # n
  BY <1>1, <1>5 DEF LivePeers, PeerNodes
<1>7. \A d \in LivePeers : d \in Conns /\ d # c /\ conn[d].node \in Nodes /\ conn[d].node # n
  BY <1>1, <1>2, <1>6 DEF LivePeers, PeersInv, PeersExact, ConnTypeOK, ConnType
<1>8. \A m \in PeerNodes' : peers'[m] \in LivePeers' /\ conn'[peers'[m]].node = m
  BY <1>3, <1>4, <1>5, <1>6, <1>7 DEF PeersInv, PeersExact
<1>9. \A d \in LivePeers' : peers'[conn'[d].node] = d
  BY <1>3, <1>4, <1>5, <1>7 DEF PeersInv, PeersExact
<1>10. peers' \in [Nodes -> Conns \cup {NoConn}]
  BY <1>1, <1>2 DEF PeersInv
<1> QED BY <1>8, <1>9, <1>10 DEF PeersExact

\* The peer that leaves is the one listed under its node (p2p.go:602-605, 621-627).
LEMMA GoneKeepsPeers ==
    ASSUME PeersInv, NEW c \in Conns, PeerGone(c)
    PROVE  PeersExact' /\ peers' \in [Nodes -> Conns \cup {NoConn}]
<1> DEFINE n == conn[c].node
<1>1. /\ peers' = [peers EXCEPT ![n] = NoConn] /\ conn' = [conn EXCEPT ![c] = Free]
      /\ conn[c].step = "closing"
  BY DEF PeerGone
<1>2. n \in Nodes /\ c \in LivePeers /\ peers[n] = c
  BY <1>1 DEF PeersInv, PeersExact, ConnTypeOK, ConnType, LivePeers
<1>3. conn'[c] = Free /\ \A d \in Conns \ {c} : conn'[d] = conn[d]
  BY <1>1 DEF PeersInv, ConnTypeOK
<1>4. peers'[n] = NoConn /\ \A m \in Nodes \ {n} : peers'[m] = peers[m]
  BY <1>1, <1>2 DEF PeersInv
<1>5. LivePeers' = LivePeers \ {c} /\ PeerNodes' = PeerNodes \ {n}
  BY <1>3, <1>4 DEF LivePeers, PeerNodes, Free
<1>6. \A d \in LivePeers \ {c} : d \in Conns /\ conn[d].node \in Nodes /\ conn[d].node # n
  BY <1>2 DEF LivePeers, PeersInv, PeersExact, ConnTypeOK, ConnType
<1>7. \A m \in PeerNodes \ {n} : m \in Nodes /\ peers[m] \in Conns \ {c}
  BY <1>2 DEF PeerNodes, LivePeers, PeersInv, PeersExact
<1>8. \A m \in PeerNodes' : peers'[m] \in LivePeers' /\ conn'[peers'[m]].node = m
  BY <1>3, <1>4, <1>5, <1>7 DEF PeersInv, PeersExact
<1>9. \A d \in LivePeers' : peers'[conn'[d].node] = d
  BY <1>3, <1>4, <1>5, <1>6 DEF PeersInv, PeersExact
<1>10. peers' \in [Nodes -> Conns \cup {NoConn}]
  BY <1>1 DEF PeersInv
<1> QED BY <1>8, <1>9, <1>10 DEF PeersExact

\* The last three conjuncts of PeersInv, when only the peer set is changed.
LEMMA ConnPeers ==
    ASSUME PeersInv, NEW c \in Conns, ConnStep(c)
    PROVE  PeersExact' /\ peers' \in [Nodes -> Conns \cup {NoConn}]
           /\ UNCHANGED <<caller, serverLoop>> /\ (serverLoop = "off" => PeerNodes' = PeerNodes)
<1>1. UNCHANGED <<caller, serverLoop>>
  BY Zenon DEF ConnStep, DialFails, SetupConn, NotRunning, HandshakeDone, HandshakeFails,
     CheckpointQuits, PostHandshake, PeerRefused, AddPeerCheckpoint, PeerEnds, DelPeer, DrainPeer, callVars
<1>2. peers \in [Nodes -> Conns \cup {NoConn}] /\ conn \in [Conns -> ConnType]
  BY DEF PeersInv, ConnTypeOK
<1>3. CASE Closed(c) /\ peers' = peers /\ conn[c].step \in {"dialing"} \cup SetupSteps
  BY <1>1, <1>2, <1>3, ClosedKeepsPeers DEF Live, SetupSteps
<1>4. CASE SetupConn(c) \/ HandshakeDone(c) \/ PeerEnds(c)
  <2>1. PICK t \in Steps :
          /\ conn' = [conn EXCEPT ![c] = [conn[c] EXCEPT !.step = t]] /\ peers' = peers
          /\ \/ t \in SetupSteps /\ conn[c].step \in {"dialing"} \cup SetupSteps
             \/ t = "closing" /\ conn[c].step = "peer"
    BY <1>4, Moves DEF ConnMoves, peerVars
  <2> DEFINE k == [conn[c] EXCEPT !.step = t]
  <2>2. k.step = t /\ k.node = conn[c].node
    BY <1>2 DEF ConnType
  <2>3. Live(k) <=> Live(conn[c])
    BY <2>1, <2>2 DEF Live, SetupSteps
  <2> HIDE DEF k
  <2> QED BY <1>1, <1>2, <2>1, <2>2, <2>3, SamePeers DEF k
<1>5. CASE PostHandshake(c)
  <2> DEFINE h == [conn[c] EXCEPT !.trusted = @ \/ conn[c].node \in trusted]
             k == [h EXCEPT !.step = "proto"]
  <2>1. conn[c].step = "post" /\ peers' = peers
    BY <1>5 DEF PostHandshake, peerVars
  <2>2. CASE conn' = [conn EXCEPT ![c] = k]
    <3>1. k.step = "proto"
      BY <1>2 DEF ConnType
    <3>2. ~Live(k) /\ ~Live(conn[c])
      BY <2>1, <3>1 DEF Live
    <3> HIDE DEF h, k
    <3> QED BY <1>1, <1>2, <2>1, <2>2, <3>2, SamePeers
  <2> QED BY <1>3, <1>5, <2>1, <2>2 DEF PostHandshake, SetupSteps
<1>6. CASE AddPeerCheckpoint(c)
  <2>1. serverLoop = "on"
    BY <1>6, Zenon DEF AddPeerCheckpoint
  <2> QED BY <1>1, <1>6, <2>1, AddKeepsPeers
<1>7. CASE DelPeer(c) \/ DrainPeer(c)
  <2>1. serverLoop # "off" /\ PeerGone(c)
    BY <1>7 DEF DelPeer, DrainPeer
  <2> QED BY <1>1, <2>1, GoneKeepsPeers
<1>8. CASE DialFails(c) \/ NotRunning(c) \/ HandshakeFails(c) \/ CheckpointQuits(c) \/ PeerRefused(c)
  BY <1>3, <1>8 DEF DialFails, NotRunning, HandshakeFails, CheckpointQuits,
                     PeerRefused, peerVars, InHandshake, SetupSteps
<1> QED BY <1>4, <1>5, <1>6, <1>7, <1>8, Zenon DEF ConnStep

LEMMA PeersInvStep ==
    ASSUME PeersInv, [ServerNext]_serverVars
    PROVE  PeersInv'
<1> USE DEF PeersInv
<1>1. ConnTypeOK'
  BY ServerGood DEF Good
<1>2. peers \in [Nodes -> Conns \cup {NoConn}] /\ conn \in [Conns -> ConnType] /\ NoConn \notin Conns
  BY ServerAssumption DEF ConnTypeOK
<1>3. CASE Start
  <2>1. /\ caller' = "up" /\ serverLoop' = "on" /\ conn' = conn
        /\ peers' = [n \in Nodes |-> NoConn] /\ PeerNodes = {}
    BY <1>3, Zenon DEF Start, StartCalled
  <2>2. LivePeers = {}
    BY <1>2, <2>1 DEF LivePeers, PeerNodes, PeersExact, ConnType
  <2>3. LivePeers' = {} /\ PeerNodes' = {}
    BY <2>1, <2>2 DEF LivePeers, PeerNodes
  <2> QED BY <1>1, <2>1, <2>3 DEF PeersExact
<1>4. ASSUME UNCHANGED <<peers, conn>>,
             \/ serverLoop' = serverLoop /\ (caller' = "down" => serverLoop = "off")
             \/ serverLoop # "off" /\ caller' = caller /\ (serverLoop' = "off" => PeerNodes = {})
      PROVE  PeersInv'
  <2>1. LivePeers' = LivePeers /\ PeerNodes' = PeerNodes
    BY <1>4 DEF LivePeers, PeerNodes
  <2> QED BY <1>1, <1>4, <2>1 DEF PeersExact
<1>5. CASE StartFails \/ Stop \/ Stopped
  BY <1>4, <1>5 DEF StartFails, StartCalled, Stop, Stopped, peerVars
<1>6. CASE TakeSlot \/ AcceptFails \/ ListenLoopDone
  BY <1>4, <1>6 DEF TakeSlot, AcceptFails, ListenLoopDone, callVars, peerVars
<1>7. ASSUME NEW a \in Addrs, RefuseInbound(a) \/ ThrottleExpires(a) PROVE PeersInv'
  BY <1>4, <1>7 DEF RefuseInbound, ThrottleExpires, callVars, peerVars
<1>8. CASE DialLoopStep
  BY <1>4, <1>8 DEF DialLoopStep, callVars, peerVars
<1>9. CASE ServerLoopDone
  <2>1. UNCHANGED <<peers, conn, caller>> /\ serverLoop = "draining" /\ PeerNodes = {}
    BY <1>9 DEF ServerLoopDone, callVars, peerVars
  <2> QED BY <1>4, <2>1
<1>10. ASSUME NEW n \in Statics, AddPeer(n) PROVE PeersInv'
  BY <1>4, <1>10 DEF AddPeer, callVars, peerVars
<1>11. ASSUME NEW n \in MayTrust, AddTrusted(n) \/ RemoveTrusted(n) PROVE PeersInv'
  BY <1>4, <1>11 DEF AddTrusted, RemoveTrusted, callVars
<1>12. CASE UNCHANGED serverVars
  BY <1>4, <1>12 DEF serverVars, callVars, peerVars
<1>13. ASSUME NEW k, NewConn(k), k.step \in {"setup", "dialing"},
              UNCHANGED <<peers, caller, serverLoop>>
       PROVE  PeersInv'
  <2>1. PeersExact' /\ PeerNodes' = PeerNodes
    BY <1>13, NewKeepsPeers DEF Live
  <2> QED BY <1>1, <1>13, <2>1
<1>14. ASSUME NEW a \in Addrs, NEW m \in Remotes, AcceptInbound(a, m) PROVE PeersInv'
  <2> DEFINE k == [Free EXCEPT !.step = "setup", !.inbound = TRUE, !.node = m]
  <2>1. NewConn(k) /\ UNCHANGED <<peers, caller, serverLoop>>
    BY <1>14 DEF AcceptInbound, callVars, peerVars
  <2>2. k.step = "setup"
    BY DEF Free
  <2> HIDE DEF k
  <2> QED BY <1>13, <2>1, <2>2
<1>15. ASSUME NEW n \in Nodes, StartDial(n) PROVE PeersInv'
  <2> DEFINE k == [Free EXCEPT !.step = "dialing", !.node = n, !.dialer = starts]
  <2>1. NewConn(k) /\ UNCHANGED <<peers, caller, serverLoop>>
    BY <1>15 DEF StartDial, callVars, peerVars
  <2>2. k.step = "dialing"
    BY DEF Free
  <2> HIDE DEF k
  <2> QED BY <1>13, <2>1, <2>2
<1>16. ASSUME UNCHANGED <<peers, caller>>, serverLoop' = "off" => serverLoop = "off",
              serverLoop = "off" => serverLoop' = "off",
              \A c \in Conns : \/ conn'[c] = conn[c]
                               \/ c \in LivePeers /\ conn'[c] = [conn[c] EXCEPT !.step = "closing"]
       PROVE  PeersInv'
  <2>1. \A c \in Conns : /\ Live(conn'[c]) <=> Live(conn[c])
                         /\ conn'[c].node = conn[c].node
    <3> SUFFICES ASSUME NEW c \in Conns
                 PROVE  (Live(conn'[c]) <=> Live(conn[c])) /\ conn'[c].node = conn[c].node
      OBVIOUS
    <3>1. CASE conn'[c] = conn[c]
      BY <3>1
    <3>2. CASE c \in LivePeers /\ conn'[c] = [conn[c] EXCEPT !.step = "closing"]
      <4>1. conn'[c].step = "closing" /\ conn'[c].node = conn[c].node
        BY <1>2, <3>2 DEF ConnType
      <4> QED BY <3>2, <4>1 DEF LivePeers, Live
    <3> QED BY <1>16, <3>1, <3>2
  <2>2. LivePeers' = LivePeers /\ PeerNodes' = PeerNodes
    BY <1>16, <2>1 DEF LivePeers, PeerNodes, Live
  <2>3. PeersExact'
    BY <1>2, <1>16, <2>1, <2>2 DEF PeersExact, LivePeers
  <2> QED BY <1>1, <1>16, <2>2, <2>3
<1>17. CASE Quit
  <2>1. \A c \in Conns : (\E n \in PeerNodes : peers[n] = c) => c \in LivePeers
    BY DEF PeersExact
  <2>2. UNCHANGED <<peers, caller>> /\ serverLoop = "on" /\ serverLoop' = "draining"
    BY <1>17 DEF Quit, callVars, peerVars
  <2>3. conn' = [c \in Conns |-> IF \E n \in PeerNodes : peers[n] = c
                                 THEN [conn[c] EXCEPT !.step = "closing"] ELSE conn[c]]
    BY <1>17 DEF Quit
  <2>4. \A c \in Conns : \/ conn'[c] = conn[c]
                         \/ c \in LivePeers /\ conn'[c] = [conn[c] EXCEPT !.step = "closing"]
    BY <2>1, <2>3, Zenon
  <2> QED BY <1>16, <2>2, <2>4
<1>18. ASSUME NEW n \in Removable, RemovePeer(n) PROVE PeersInv'
  <2>1. UNCHANGED <<peers, caller, serverLoop>>
    BY <1>18 DEF RemovePeer, callVars
  <2>2. CASE conn' = conn
    BY <1>16, <2>1, <2>2
  <2>3. CASE peers[n] # NoConn /\ conn' = [conn EXCEPT ![peers[n]] = [conn[peers[n]] EXCEPT !.step = "closing"]]
    <3>1. peers[n] \in LivePeers /\ peers[n] \in Conns
      BY <2>3, ServerAssumption DEF PeersExact, PeerNodes, LivePeers
    <3>2. \A c \in Conns : \/ conn'[c] = conn[c]
                           \/ c = peers[n] /\ conn'[c] = [conn[c] EXCEPT !.step = "closing"]
      BY <1>2, <2>3, <3>1
    <3> QED BY <1>16, <2>1, <3>1, <3>2
  <2> QED BY <1>18, <2>2, <2>3 DEF RemovePeer
<1>19. ASSUME NEW c \in Conns, ConnStep(c) PROVE PeersInv'
  BY <1>1, <1>19, ConnPeers
<1> HIDE DEF PeersInv
<1> QED BY <1>3, <1>5, <1>6, <1>7, <1>8, <1>9, <1>10, <1>11, <1>12, <1>14, <1>15, <1>17, <1>18, <1>19,
           Zenon DEF ServerNext, ListenLoopStep

LEMMA ServerPeersInv == ServerSpec => []PeersInv
<1>1. ServerInit => PeersInv
  <2> SUFFICES ASSUME ServerInit PROVE PeersInv
    OBVIOUS
  <2>1. Free \in ConnType /\ 0 \in 0 .. MaxStarts
    BY ServerAssumption DEF Free, ConnType, Steps
  <2>2. ConnTypeOK /\ LivePeers = {} /\ PeerNodes = {}
    BY <2>1 DEF ServerInit, ConnTypeOK, LivePeers, PeerNodes, Free
  <2> QED BY <2>2 DEF ServerInit, PeersInv, PeersExact
<1>2. PeersInv /\ [ServerNext]_serverVars => PeersInv'
  BY PeersInvStep
<1> QED BY <1>1, <1>2, PTL DEF ServerSpec

\* The peer set is exact for any number of nodes, connections and restarts: what
\* run() waits for when it quits is what will come (p2p.go:590-627).
THEOREM ServerPeersExact == ServerSpec => []PeersExact
<1>1. PeersInv => PeersExact
  BY DEF PeersInv
<1> QED BY <1>1, ServerPeersInv, PTL

\* What the other lemmas say nothing of.
CountersTyped ==
    /\ running \in BOOLEAN /\ caller \in {"down", "up", "stopping"}
    /\ serverLoop \in {"off", "on", "draining"}
    /\ inboundCount \in Int /\ slots \in Int
    /\ trusted \in SUBSET MayTrust
    /\ listenLoop \in {"off", "waiting", "accepting", "draining"}
    /\ inboundHistory \in SUBSET Addrs
    /\ removing \in Nodes \cup {NoNode}

LEMMA CountersStep ==
    ASSUME CountersTyped, [ServerNext]_serverVars
    PROVE  CountersTyped'
<1> USE ServerAssumption DEF CountersTyped, callVars, peerVars, listenVars
<1>1. CASE Start \/ StartFails
  <2>1. listenLoop' \in {"waiting", "off"} /\ slots' \in {MaxPendingPeers, 0}
    BY <1>1, Zenon DEF Start, StartFails, Listening
  <2>2. /\ running' = TRUE /\ caller' = "up" /\ UNCHANGED <<inboundHistory, removing>>
        /\ serverLoop' \in {"on", serverLoop} /\ inboundCount' \in {0, inboundCount}
        /\ trusted' \in {TrustedNodes, trusted}
    BY <1>1, Zenon DEF Start, StartFails, StartCalled
  <2> QED BY <2>1, <2>2
<1>2. CASE Stop \/ Stopped \/ Quit \/ ServerLoopDone \/ DialLoopStep
  BY <1>2 DEF Stop, Stopped, Quit, ServerLoopDone, DialLoopStep
<1>3. CASE TakeSlot \/ AcceptFails \/ ListenLoopDone
  BY <1>3 DEF TakeSlot, AcceptFails, ListenLoopDone
<1>4. ASSUME NEW a \in Addrs, \/ RefuseInbound(a) \/ ThrottleExpires(a)
                              \/ \E n \in Remotes : AcceptInbound(a, n)
      PROVE  CountersTyped'
  <2>1. /\ UNCHANGED <<callVars, serverLoop, peerVars>>
        /\ listenLoop' \in {"waiting", listenLoop} /\ slots' \in {slots, slots + 1}
    BY <1>4, Zenon DEF RefuseInbound, ThrottleExpires, AcceptInbound
  <2>2. inboundHistory' \subseteq inboundHistory \cup {a}
    BY <1>4 DEF RefuseInbound, ThrottleExpires, AcceptInbound
  <2> QED BY <2>1, <2>2
<1>5. ASSUME NEW c \in Conns, Closed(c),
             UNCHANGED <<callVars, serverLoop, peerVars, listenLoop, inboundHistory>>
      PROVE  CountersTyped'
  BY <1>5 DEF Closed
<1>6. ASSUME NEW c \in Conns, \/ DialFails(c) \/ NotRunning(c) \/ HandshakeFails(c)
                              \/ CheckpointQuits(c) \/ PeerRefused(c) \/ PostHandshake(c)
      PROVE  CountersTyped'
  <2>1. UNCHANGED <<callVars, serverLoop, peerVars, listenLoop, inboundHistory>>
    BY <1>6 DEF DialFails, NotRunning, HandshakeFails, CheckpointQuits, PeerRefused, PostHandshake
  <2>2. Closed(c) \/ slots' = slots
    BY <1>6, Zenon DEF DialFails, NotRunning, HandshakeFails, CheckpointQuits, PeerRefused,
                       PostHandshake
  <2> QED BY <1>5, <2>1, <2>2
<1>7. ASSUME NEW c \in Conns, SetupConn(c) \/ HandshakeDone(c) \/ PeerEnds(c)
      PROVE  CountersTyped'
  BY <1>7, Moves DEF ConnMoves
<1>8. ASSUME NEW c \in Conns, AddPeerCheckpoint(c)
      PROVE  CountersTyped'
  <2>1. /\ UNCHANGED <<callVars, serverLoop, trusted, removing, listenLoop, inboundHistory>>
        /\ inboundCount' = IF conn[c].inbound THEN inboundCount + 1 ELSE inboundCount
        /\ slots' = IF conn[c].inbound THEN slots + 1 ELSE slots
    BY <1>8, Zenon DEF AddPeerCheckpoint
  <2> QED BY <2>1
<1>9. ASSUME NEW c \in Conns, DelPeer(c) \/ DrainPeer(c)
      PROVE  CountersTyped'
  BY <1>9 DEF DelPeer, DrainPeer, PeerGone
<1>10. ASSUME NEW n \in Nodes, StartDial(n) PROVE CountersTyped'
  BY <1>10 DEF StartDial
<1>11. ASSUME NEW n \in Statics, AddPeer(n) PROVE CountersTyped'
  BY <1>11 DEF AddPeer
<1>12. ASSUME NEW n \in Removable, RemovePeer(n) PROVE CountersTyped'
  BY <1>12 DEF RemovePeer
<1>13. ASSUME NEW n \in MayTrust, AddTrusted(n) \/ RemoveTrusted(n) PROVE CountersTyped'
  BY <1>13 DEF AddTrusted, RemoveTrusted
<1>14. CASE UNCHANGED serverVars
  BY <1>14 DEF serverVars
<1> HIDE DEF CountersTyped
<1> QED BY <1>1, <1>2, <1>3, <1>4, <1>6, <1>7, <1>8, <1>9, <1>10, <1>11, <1>12, <1>13, <1>14,
           Zenon DEF ServerNext, ListenLoopStep, ConnStep

\* Every variable of the server keeps its type (p2p.go:58-93).
THEOREM ServerTypes == ServerSpec => []ServerTypeOK
<1>1. ServerInit => CountersTyped
  <2> SUFFICES ASSUME ServerInit PROVE CountersTyped
    OBVIOUS
  <2>1. /\ running = FALSE /\ caller = "down" /\ serverLoop = "off" /\ listenLoop = "off"
        /\ inboundCount = 0 /\ slots = 0 /\ trusted = {} /\ inboundHistory = {}
        /\ removing = NoNode
    BY Zenon DEF ServerInit
  <2>2. running \in BOOLEAN /\ caller \in {"down", "up", "stopping"}
    BY <2>1, Zenon
  <2>3. /\ serverLoop \in {"off", "on", "draining"}
        /\ listenLoop \in {"off", "waiting", "accepting", "draining"}
        /\ removing \in Nodes \cup {NoNode}
    BY <2>1, Zenon
  <2>4. inboundCount \in Int /\ slots \in Int /\ trusted \subseteq MayTrust /\ inboundHistory \subseteq Addrs
    BY <2>1
  <2> QED BY <2>2, <2>3, <2>4, Zenon DEF CountersTyped
<1>2. CountersTyped /\ [ServerNext]_serverVars => CountersTyped'
  BY CountersStep
<1>3. ServerSpec => []DialTypeOK
  BY ServerDials, DialTypeCorrect, PTL
<1>4. CountersTyped /\ PeersInv /\ DialTypeOK => ServerTypeOK
  BY DEF CountersTyped, PeersInv, ConnTypeOK, ServerTypeOK
<1> QED BY <1>1, <1>2, <1>3, <1>4, ServerPeersInv, PTL DEF ServerSpec
-----------------------------------------------------------------------------
(* The slots of listenLoop                                                 *)

\* Slots are conserved while the loop is there; while it is not, and so whenever
\* Start may be called, no incoming connection waits for the slot it holds.
SlotInv ==
    /\ IsFiniteSet(PendingInbound)
    /\ SlotsConserved
    /\ listenLoop = "off" => PendingInbound = {}
    /\ caller = "down" => listenLoop = "off"
    /\ \A c \in Conns : conn[c].step = "dialing" => ~conn[c].inbound

SlotTyped == CountersTyped /\ ConnTypeOK

\* A connection that holds a slot.
Pending(k) == k.inbound /\ k.step \in SetupSteps

\* No connection takes a slot and none gives one back; the caller may only be
\* ready to start when the loop is not there.
LEMMA SlotsKept ==
    ASSUME SlotInv, UNCHANGED <<listenLoop, slots>>, caller' = "down" => listenLoop = "off",
           \A c \in Conns : /\ Pending(conn'[c]) <=> Pending(conn[c])
                            /\ conn'[c].step = "dialing" => ~conn'[c].inbound
    PROVE  SlotInv'
<1>1. PendingInbound' = PendingInbound
  BY DEF PendingInbound, Pending, SetupSteps
<1> QED BY <1>1 DEF SlotInv, SlotsConserved

LEMMA SlotsSameConns ==
    ASSUME SlotInv, UNCHANGED <<conn, listenLoop, slots>>, caller' = "down" => listenLoop = "off"
    PROVE  SlotInv'
  BY SlotsKept DEF SlotInv

\* One connection changes and holds a slot as before, or none.
LEMMA SlotsOneConn ==
    ASSUME SlotInv, SlotTyped, NEW c \in Conns, NEW k, conn' = [conn EXCEPT ![c] = k],
           UNCHANGED <<listenLoop, slots, caller>>,
           Pending(k) <=> Pending(conn[c]), k.step = "dialing" => ~k.inbound
    PROVE  SlotInv'
<1>1. conn'[c] = k /\ \A d \in Conns \ {c} : conn'[d] = conn[d]
  BY DEF SlotTyped, ConnTypeOK
<1>2. \A d \in Conns : /\ Pending(conn'[d]) <=> Pending(conn[d])
                       /\ conn'[d].step = "dialing" => ~conn'[d].inbound
  BY <1>1 DEF SlotInv
<1> QED BY <1>2, SlotsKept DEF SlotInv

\* A pending incoming connection is refused or becomes a peer, and its slot
\* goes back to the channel (p2p.go:686-688).
LEMMA SlotGivenBack ==
    ASSUME SlotInv, SlotTyped, NEW c \in Conns, NEW k, conn' = [conn EXCEPT ![c] = k],
           UNCHANGED <<listenLoop, caller>>, slots' = slots + 1,
           Pending(conn[c]), ~Pending(k), k.step # "dialing"
    PROVE  SlotInv'
<1>1. conn'[c] = k /\ \A d \in Conns \ {c} : conn'[d] = conn[d]
  BY DEF SlotTyped, ConnTypeOK
<1>2. c \in PendingInbound /\ PendingInbound' = PendingInbound \ {c}
  BY <1>1 DEF PendingInbound, Pending, SetupSteps
<1>3. IsFiniteSet(PendingInbound') /\ Cardinality(PendingInbound') = Cardinality(PendingInbound) - 1
  BY <1>2, FS_RemoveElement DEF SlotInv
<1>4. Cardinality(PendingInbound) \in Nat
  BY FS_CardinalityType DEF SlotInv
<1>5. slots \in Int /\ MaxPendingPeers \in Nat
  BY ServerAssumption DEF SlotTyped, CountersTyped
<1>6. SlotsConserved'
  BY <1>3, <1>4, <1>5 DEF SlotInv, SlotsConserved
<1>7. \A d \in Conns : conn'[d].step = "dialing" => ~conn'[d].inbound
  BY <1>1 DEF SlotInv
<1> QED BY <1>2, <1>3, <1>6, <1>7 DEF SlotInv

\* SetupConn returns an error, at any of its steps (p2p.go:686-688, 718-726).
LEMMA ClosedKeepsSlots ==
    ASSUME SlotInv, SlotTyped, NEW c \in Conns, Closed(c), UNCHANGED <<listenLoop, caller>>,
           conn[c].step \in {"dialing"} \cup SetupSteps
    PROVE  SlotInv'
<1>1. conn' = [conn EXCEPT ![c] = Free] /\ ~Pending(Free) /\ Free.step # "dialing"
  BY DEF Closed, Free, Pending, SetupSteps
<1>2. CASE conn[c].inbound
  <2>1. Pending(conn[c]) /\ slots' = slots + 1
    BY <1>2 DEF Pending, SetupSteps, Closed, SlotInv
  <2> QED BY <1>1, <2>1, SlotGivenBack
<1>3. CASE ~conn[c].inbound
  <2>1. ~Pending(conn[c]) /\ slots' = slots
    BY <1>3 DEF Pending, SetupSteps, Closed
  <2> QED BY <1>1, <2>1, SlotsOneConn
<1> QED BY <1>2, <1>3

\* The loop hands its token to the connection it accepted (p2p.go:681-685).
LEMMA AcceptKeepsSlots ==
    ASSUME SlotInv, SlotTyped, NEW a \in Addrs, NEW n \in Remotes, AcceptInbound(a, n)
    PROVE  SlotInv'
<1> DEFINE k == [Free EXCEPT !.step = "setup", !.inbound = TRUE, !.node = n]
<1>1. /\ NewConn(k) /\ UNCHANGED <<slots, caller>>
      /\ listenLoop = "accepting" /\ listenLoop' = "waiting"
  BY DEF AcceptInbound, callVars
<1>2. Pending(k) /\ k.step = "setup"
  BY DEF Pending, SetupSteps, Free
<1> HIDE DEF k
<1>3. PICK c \in Conns : conn[c].step = "free" /\ conn' = [conn EXCEPT ![c] = k]
  BY <1>1 DEF NewConn
<1>4. conn'[c] = k /\ \A d \in Conns \ {c} : conn'[d] = conn[d]
  BY <1>3 DEF SlotTyped, ConnTypeOK
<1>5. c \notin PendingInbound /\ PendingInbound' = PendingInbound \cup {c}
  BY <1>2, <1>3, <1>4 DEF PendingInbound, Pending, SetupSteps
<1>6. IsFiniteSet(PendingInbound') /\ Cardinality(PendingInbound') = Cardinality(PendingInbound) + 1
  BY <1>5, FS_AddElement DEF SlotInv
<1>7. Cardinality(PendingInbound) \in Nat
  BY FS_CardinalityType DEF SlotInv
<1>8. slots \in Int /\ MaxPendingPeers \in Nat
  BY ServerAssumption DEF SlotTyped, CountersTyped
<1>9. SlotsConserved'
  BY <1>1, <1>6, <1>7, <1>8 DEF SlotInv, SlotsConserved
<1>10. \A d \in Conns : conn'[d].step = "dialing" => ~conn'[d].inbound
  BY <1>2, <1>4 DEF SlotInv
<1> QED BY <1>1, <1>6, <1>9, <1>10 DEF SlotInv

\* One step of a connection's goroutine.
LEMMA ConnKeepsSlots ==
    ASSUME SlotInv, SlotTyped, NEW c \in Conns, ConnStep(c)
    PROVE  SlotInv'
<1>1. UNCHANGED <<listenLoop, caller>>
  BY Zenon DEF ConnStep, DialFails, SetupConn, NotRunning, HandshakeDone, HandshakeFails,
     CheckpointQuits, PostHandshake, PeerRefused, AddPeerCheckpoint, PeerEnds, DelPeer, DrainPeer, callVars, listenVars
<1>2. conn[c] \in ConnType /\ conn \in [Conns -> ConnType]
  BY DEF SlotTyped, ConnTypeOK
<1>3. CASE DialFails(c) \/ NotRunning(c) \/ HandshakeFails(c) \/ CheckpointQuits(c) \/ PeerRefused(c)
  BY <1>1, <1>3, ClosedKeepsSlots DEF DialFails, NotRunning, HandshakeFails, CheckpointQuits, PeerRefused,
     InHandshake, SetupSteps
<1>4. ASSUME NEW t \in Steps \ {"dialing"}, UNCHANGED slots,
             conn' = [conn EXCEPT ![c] = [conn[c] EXCEPT !.step = t]],
             Pending([conn[c] EXCEPT !.step = t]) <=> Pending(conn[c])
      PROVE  SlotInv'
  <2> DEFINE k == [conn[c] EXCEPT !.step = t]
  <2>1. k.step # "dialing"
    BY <1>2 DEF ConnType
  <2> HIDE DEF k
  <2> QED BY <1>1, <1>4, <2>1, SlotsOneConn DEF k
<1>5. CASE SetupConn(c) \/ HandshakeDone(c) \/ PeerEnds(c)
  <2>1. PICK t \in Steps :
          /\ conn' = [conn EXCEPT ![c] = [conn[c] EXCEPT !.step = t]] /\ UNCHANGED slots
          /\ \/ t \in SetupSteps /\ conn[c].step \in {"dialing"} \cup SetupSteps
             \/ t = "closing" /\ conn[c].step = "peer"
    BY <1>5, Moves DEF ConnMoves, listenVars
  <2>2. conn[c].step = "dialing" => ~conn[c].inbound
    BY DEF SlotInv
  <2>3. Pending([conn[c] EXCEPT !.step = t]) <=> Pending(conn[c])
    BY <1>2, <2>1, <2>2 DEF Pending, ConnType, SetupSteps
  <2>4. t # "dialing"
    BY <2>1 DEF SetupSteps
  <2> QED BY <1>4, <2>1, <2>3, <2>4
<1>7. CASE PostHandshake(c)
  <2> DEFINE h == [conn[c] EXCEPT !.trusted = @ \/ conn[c].node \in trusted]
             k == [h EXCEPT !.step = "proto"]
  <2>1. conn[c].step = "post"
    BY <1>7 DEF PostHandshake
  <2>2. CASE conn' = [conn EXCEPT ![c] = k] /\ UNCHANGED slots
    <3>1. k.step = "proto" /\ k.inbound = conn[c].inbound
      BY <1>2 DEF ConnType
    <3>2. Pending(k) <=> Pending(conn[c])
      BY <2>1, <3>1 DEF Pending, SetupSteps
    <3> HIDE DEF h, k
    <3> QED BY <1>1, <2>2, <3>1, <3>2, SlotsOneConn
  <2>3. CASE Closed(c)
    BY <1>1, <2>1, <2>3, ClosedKeepsSlots DEF SetupSteps
  <2> QED BY <1>7, <2>2, <2>3 DEF PostHandshake
<1>8. CASE AddPeerCheckpoint(c)
  <2> DEFINE k == [conn[c] EXCEPT !.step = "peer"]
  <2>1. /\ conn' = [conn EXCEPT ![c] = k] /\ conn[c].step = "add"
        /\ slots' = IF conn[c].inbound THEN slots + 1 ELSE slots
    BY <1>8, Zenon DEF AddPeerCheckpoint
  <2>2. k.step = "peer" /\ ~Pending(k)
    BY <1>2 DEF Pending, SetupSteps, ConnType
  <2>3. Pending(conn[c]) <=> conn[c].inbound
    BY <2>1 DEF Pending, SetupSteps
  <2> HIDE DEF k
  <2>4. CASE conn[c].inbound
    BY <1>1, <2>1, <2>2, <2>3, <2>4, SlotGivenBack
  <2>5. CASE ~conn[c].inbound
    BY <1>1, <2>1, <2>2, <2>3, <2>5, SlotsOneConn
  <2> QED BY <2>4, <2>5
<1>9. CASE DelPeer(c) \/ DrainPeer(c)
  <2>1. conn' = [conn EXCEPT ![c] = Free] /\ conn[c].step = "closing" /\ UNCHANGED slots
    BY <1>9 DEF DelPeer, DrainPeer, PeerGone, listenVars
  <2>2. ~Pending(Free) /\ Free.step # "dialing" /\ ~Pending(conn[c])
    BY <2>1 DEF Pending, SetupSteps, Free
  <2> QED BY <1>1, <2>1, <2>2, SlotsOneConn
<1> QED BY <1>3, <1>5, <1>7, <1>8, <1>9, Zenon DEF ConnStep

\* A peer told to disconnect held no slot.
LEMMA SlotsWhenClosing ==
    ASSUME SlotInv, SlotTyped, UNCHANGED <<listenLoop, slots, caller>>,
           \A c \in Conns : \/ conn'[c] = conn[c]
                            \/ c \in LivePeers /\ conn'[c] = [conn[c] EXCEPT !.step = "closing"]
    PROVE  SlotInv'
<1>1. ASSUME NEW c \in Conns
      PROVE  /\ Pending(conn'[c]) <=> Pending(conn[c])
             /\ conn'[c].step = "dialing" => ~conn'[c].inbound
  <2>1. CASE conn'[c] = conn[c]
    BY <2>1 DEF SlotInv
  <2>2. CASE c \in LivePeers /\ conn'[c] = [conn[c] EXCEPT !.step = "closing"]
    <3>1. conn'[c].step = "closing" /\ conn[c].step \in {"peer", "closing"}
      BY <2>2 DEF SlotTyped, ConnTypeOK, ConnType, LivePeers
    <3> QED BY <3>1 DEF Pending, SetupSteps
  <2> QED BY <2>1, <2>2
<1> QED BY <1>1, SlotsKept DEF SlotInv

\* Which connections are told to disconnect when quit is closed (p2p.go:613-618).
LEMMA QuitCloses ==
    ASSUME PeersInv, Quit, NEW c \in Conns
    PROVE  \/ conn'[c] = conn[c] /\ \A n \in PeerNodes : peers[n] # c
           \/ c \in LivePeers /\ conn'[c] = [conn[c] EXCEPT !.step = "closing"]
<1>1. (\E n \in PeerNodes : peers[n] = c) => c \in LivePeers
  BY DEF PeersInv, PeersExact
<1>2. conn' = [d \in Conns |-> IF \E n \in PeerNodes : peers[n] = d
                               THEN [conn[d] EXCEPT !.step = "closing"] ELSE conn[d]]
  BY DEF Quit
<1> QED BY <1>1, <1>2, Zenon

\* And by RemovePeer: the peer of the node, if there is one (p2p.go:212-222).
LEMMA RemoveCloses ==
    ASSUME PeersInv, NEW n \in Nodes, RemovePeer(n), NEW c \in Conns
    PROVE  \/ conn'[c] = conn[c]
           \/ c \in LivePeers /\ conn'[c] = [conn[c] EXCEPT !.step = "closing"]
<1>1. CASE conn' = conn
  BY <1>1
<1>2. CASE peers[n] # NoConn /\ conn' = [conn EXCEPT ![peers[n]] = [conn[peers[n]] EXCEPT !.step = "closing"]]
  <2>1. peers[n] \in LivePeers /\ peers[n] \in Conns
    BY <1>2, ServerAssumption DEF PeersInv, PeersExact, PeerNodes, LivePeers
  <2> QED BY <1>2, <2>1 DEF PeersInv, ConnTypeOK
<1> QED BY <1>1, <1>2 DEF RemovePeer

LEMMA SlotInvStep ==
    ASSUME SlotInv, SlotTyped, PeersInv, [ServerNext]_serverVars
    PROVE  SlotInv'
<1> USE DEF callVars, listenVars
<1>1. CASE Start \/ StartFails
  <2>1. /\ caller = "down" /\ caller' = "up" /\ conn' = conn
        /\ \E on \in BOOLEAN : Listening(on)
    BY <1>1, ServerAssumption, Zenon DEF Start, StartFails, StartCalled
  <2>2. PendingInbound = {} /\ PendingInbound' = {}
    BY <2>1 DEF SlotInv, PendingInbound
  <2>3. \/ listenLoop' = "off" /\ slots' = 0
        \/ listenLoop' = "waiting" /\ slots' = MaxPendingPeers
    BY <2>1 DEF Listening
  <2>4. MaxPendingPeers + 0 + 0 = MaxPendingPeers
    BY ServerAssumption
  <2>5. SlotsConserved'
    BY <2>2, <2>3, <2>4, FS_EmptySet DEF SlotsConserved
  <2> QED BY <2>1, <2>2, <2>5, FS_EmptySet DEF SlotInv
<1>2. CASE Stop \/ Stopped \/ ServerLoopDone
  BY <1>2, SlotsSameConns DEF Stop, Stopped, ServerLoopDone, SlotInv
<1>3. CASE TakeSlot \/ AcceptFails \/ \E a \in Addrs : RefuseInbound(a)
  <2>1. /\ UNCHANGED <<conn, caller>> /\ listenLoop' # "off" /\ listenLoop # "off"
        /\ \/ listenLoop = "waiting" /\ listenLoop' = "accepting" /\ slots' = slots - 1
           \/ listenLoop = "accepting" /\ listenLoop' \in {"waiting", "draining"} /\ slots' = slots + 1
    BY <1>3 DEF TakeSlot, AcceptFails, RefuseInbound
  <2>2. PendingInbound' = PendingInbound
    BY <2>1 DEF PendingInbound
  <2>3. /\ slots \in Int /\ Cardinality(PendingInbound) \in Nat
        /\ slots + Cardinality(PendingInbound) + (IF listenLoop = "accepting" THEN 1 ELSE 0)
               = MaxPendingPeers
    BY <2>1, FS_CardinalityType DEF SlotTyped, CountersTyped, SlotInv, SlotsConserved
  <2>4. slots' + Cardinality(PendingInbound) + (IF listenLoop' = "accepting" THEN 1 ELSE 0)
               = MaxPendingPeers
    BY <2>1, <2>3
  <2> QED BY <2>1, <2>2, <2>4 DEF SlotInv, SlotsConserved
<1>4. CASE ListenLoopDone
  <2>1. /\ UNCHANGED <<conn, caller>> /\ listenLoop = "draining" /\ slots = MaxPendingPeers
        /\ listenLoop' = "off"
    BY <1>4 DEF ListenLoopDone
  <2>2. Cardinality(PendingInbound) \in Nat /\ MaxPendingPeers \in Nat
    BY FS_CardinalityType, ServerAssumption DEF SlotInv
  <2>3. Cardinality(PendingInbound) = 0
    BY <2>1, <2>2 DEF SlotInv, SlotsConserved
  <2>4. PendingInbound = {}
    BY <2>3, FS_EmptySet DEF SlotInv
  <2>5. PendingInbound' = PendingInbound
    BY <2>1 DEF PendingInbound
  <2> QED BY <2>1, <2>4, <2>5 DEF SlotInv, SlotsConserved
<1>5. CASE DialLoopStep
  BY <1>5, SlotsSameConns DEF DialLoopStep, SlotInv
<1>6. ASSUME NEW a \in Addrs, ThrottleExpires(a) PROVE SlotInv'
  BY <1>6, SlotsSameConns DEF ThrottleExpires, SlotInv
<1>7. ASSUME NEW a \in Addrs, NEW n \in Remotes, AcceptInbound(a, n) PROVE SlotInv'
  BY <1>7, AcceptKeepsSlots
<1>8. CASE Quit
  <2>1. UNCHANGED <<listenLoop, slots, caller>>
    BY <1>8 DEF Quit
  <2> QED BY <1>8, <2>1, QuitCloses, SlotsWhenClosing
<1>9. ASSUME NEW c \in Conns, ConnStep(c) PROVE SlotInv'
  BY <1>9, ConnKeepsSlots
<1>10. ASSUME NEW n \in Nodes, StartDial(n) PROVE SlotInv'
  <2> DEFINE k == [Free EXCEPT !.step = "dialing", !.node = n, !.dialer = starts]
  <2>1. NewConn(k) /\ UNCHANGED <<listenLoop, slots, caller>>
    BY <1>10 DEF StartDial
  <2>2. ~Pending(k) /\ ~k.inbound
    BY DEF Pending, SetupSteps, Free
  <2> HIDE DEF k
  <2>3. PICK c \in Conns : conn[c].step = "free" /\ conn' = [conn EXCEPT ![c] = k]
    BY <2>1 DEF NewConn
  <2>4. ~Pending(conn[c])
    BY <2>3 DEF Pending, SetupSteps
  <2> QED BY <2>1, <2>2, <2>3, <2>4, SlotsOneConn
<1>11. ASSUME NEW n \in Statics, AddPeer(n) PROVE SlotInv'
  BY <1>11, SlotsSameConns DEF AddPeer, SlotInv
<1>12. ASSUME NEW n \in Removable, RemovePeer(n) PROVE SlotInv'
  <2>1. UNCHANGED <<listenLoop, slots, caller>> /\ n \in Nodes
    BY <1>12, ServerAssumption DEF RemovePeer
  <2> QED BY <1>12, <2>1, RemoveCloses, SlotsWhenClosing
<1>13. ASSUME NEW n \in MayTrust, AddTrusted(n) \/ RemoveTrusted(n) PROVE SlotInv'
  BY <1>13, SlotsSameConns DEF AddTrusted, RemoveTrusted, SlotInv
<1>14. CASE UNCHANGED serverVars
  BY <1>14, SlotsSameConns DEF serverVars, SlotInv
<1> QED BY <1>1, <1>2, <1>3, <1>4, <1>5, <1>6, <1>7, <1>8, <1>9, <1>10, <1>11, <1>12, <1>13, <1>14,
           Zenon DEF ServerNext, ListenLoopStep

LEMMA ServerSlotInv == ServerSpec => []SlotInv
<1>1. ServerInit => SlotInv
  <2> SUFFICES ASSUME ServerInit PROVE SlotInv
    OBVIOUS
  <2>1. PendingInbound = {} /\ \A c \in Conns : conn[c].step # "dialing"
    BY DEF ServerInit, PendingInbound, Free
  <2>2. listenLoop = "off"
    BY Zenon DEF ServerInit
  <2> QED BY <2>1, <2>2, FS_EmptySet DEF SlotInv, SlotsConserved
<1>2. ServerTypeOK /\ PeersInv => SlotTyped
  BY DEF SlotTyped, CountersTyped, ServerTypeOK, PeersInv
<1>3. SlotInv /\ SlotTyped /\ PeersInv /\ [ServerNext]_serverVars => SlotInv'
  BY SlotInvStep
<1> QED BY <1>1, <1>2, <1>3, ServerTypes, ServerPeersInv, PTL DEF ServerSpec

\* No slot is lost or made, in any interleaving of the loop with the goroutines
\* that set connections up: the loop that ends finds them all (p2p.go:652-691).
THEOREM ServerSlotsConserved == ServerSpec => []SlotsConserved
<1>1. SlotInv => SlotsConserved
  BY DEF SlotInv
<1> QED BY <1>1, ServerSlotInv, PTL

\* The scheduler's loop runs exactly while run() is there (p2p.go:454, 541).
LoopsTogether == serverLoop = "off" <=> dialLoop = "off"

\* One step of a connection's goroutine starts and ends neither.
LEMMA ConnKeepsLoops ==
    ASSUME NEW c \in Conns, ConnStep(c)
    PROVE  UNCHANGED <<serverLoop, dialLoop>>
<1>1. UNCHANGED serverLoop
  BY Zenon DEF ConnStep, DialFails, SetupConn, NotRunning, HandshakeDone, HandshakeFails,
     CheckpointQuits, PostHandshake, PeerRefused, AddPeerCheckpoint, PeerEnds, DelPeer, DrainPeer, callVars
<1>2. CASE Closed(c)
  BY <1>1, <1>2, Zenon DEF Closed, TaskReturned, dialVars
<1>3. CASE SetupConn(c) \/ HandshakeDone(c) \/ PeerEnds(c) \/ DrainPeer(c)
  BY <1>1, <1>3, Zenon DEF SetupConn, HandshakeDone, PeerEnds, DrainPeer, dialVars
<1>4. CASE PostHandshake(c)
  BY <1>1, <1>2, <1>4, Zenon DEF PostHandshake, dialVars
<1>5. CASE AddPeerCheckpoint(c)
  BY <1>1, <1>5, Zenon DEF AddPeerCheckpoint, PeerAdded
<1>6. CASE DelPeer(c)
  BY <1>1, <1>6, Zenon DEF DelPeer, PeerRemoved
<1> QED BY <1>2, <1>3, <1>4, <1>5, <1>6, Zenon
        DEF ConnStep, DialFails, NotRunning, HandshakeFails, CheckpointQuits, PeerRefused

LEMMA LoopsStep ==
    ASSUME LoopsTogether, [ServerNext]_serverVars
    PROVE  LoopsTogether'
<1> USE DEF LoopsTogether
<1>1. CASE Start
  BY <1>1, Zenon DEF Start, newDialScheduler
<1>2. CASE StartFails \/ Stop \/ Stopped \/ TakeSlot \/ AcceptFails \/ ListenLoopDone
  BY <1>2, Zenon DEF StartFails, Stop, Stopped, TakeSlot, AcceptFails, ListenLoopDone, dialVars
<1>3. ASSUME NEW a \in Addrs, \/ RefuseInbound(a) \/ ThrottleExpires(a)
                              \/ \E n \in Remotes : AcceptInbound(a, n)
      PROVE  LoopsTogether'
  BY <1>3, Zenon DEF RefuseInbound, ThrottleExpires, AcceptInbound, dialVars
<1>4. CASE DialLoopStep
  BY <1>4, Zenon DEF DialLoopStep, ExpireHistory, DialDone
<1>5. CASE Quit
  BY <1>5 DEF Quit, dialVars
<1>6. CASE ServerLoopDone
  BY <1>6, Zenon DEF ServerLoopDone, StopDialLoop
<1>7. ASSUME NEW c \in Conns, ConnStep(c) PROVE LoopsTogether'
  BY <1>7, ConnKeepsLoops
<1>8. ASSUME NEW n \in Nodes, StartDial(n) PROVE LoopsTogether'
  BY <1>8, Zenon DEF StartDial, StartStaticDial
<1>9. ASSUME NEW n \in Nodes, AddPeer(n) \/ RemovePeer(n) PROVE LoopsTogether'
  BY <1>9, Zenon DEF AddPeer, RemovePeer, AddStatic, RemoveStatic
<1>10. ASSUME NEW n, AddTrusted(n) \/ RemoveTrusted(n) PROVE LoopsTogether'
  BY <1>10, Zenon DEF AddTrusted, RemoveTrusted, dialVars
<1>11. CASE UNCHANGED serverVars
  BY <1>11, Zenon DEF serverVars, dialVars
<1>12. Statics \subseteq Nodes /\ Removable \subseteq Nodes
  BY ServerAssumption
<1> HIDE DEF LoopsTogether
<1>13. ASSUME NEW n \in Statics, AddPeer(n) PROVE LoopsTogether'
  BY <1>9, <1>12, <1>13
<1>14. ASSUME NEW n \in Removable, RemovePeer(n) PROVE LoopsTogether'
  BY <1>9, <1>12, <1>14
<1> QED BY <1>1, <1>2, <1>3, <1>4, <1>5, <1>6, <1>7, <1>8, <1>10, <1>11, <1>13, <1>14, Zenon
        DEF ServerNext, ListenLoopStep

LEMMA ServerLoops == ServerSpec => []LoopsTogether
<1>1. ServerInit => LoopsTogether
  BY DEF ServerInit, DialInit, LoopsTogether
<1>2. LoopsTogether /\ [ServerNext]_serverVars => LoopsTogether'
  BY LoopsStep
<1> QED BY <1>1, <1>2, PTL DEF ServerSpec

\* After Stop nothing of the server is left but dials on their way out: no peer,
\* no incoming connection, none of the three loops (p2p.go:265-278).
THEOREM ServerStopJoins == ServerSpec => []StopJoins
<1>1. PeersInv /\ SlotInv /\ LoopsTogether => StopJoins
  <2> SUFFICES ASSUME PeersInv, SlotInv, LoopsTogether, caller = "down"
               PROVE  /\ LivePeers = {} /\ PendingInbound = {}
                      /\ dialLoop = "off" /\ serverLoop = "off" /\ listenLoop = "off"
    BY DEF StopJoins
  <2>1. serverLoop = "off" /\ dialLoop = "off" /\ listenLoop = "off" /\ PendingInbound = {}
    BY DEF PeersInv, SlotInv, LoopsTogether
  <2>2. PeerNodes = {} /\ NoConn \notin Conns
    BY <2>1, ServerAssumption DEF PeersInv
  <2>3. ASSUME NEW c \in LivePeers PROVE FALSE
    BY <2>2 DEF LivePeers, PeerNodes, PeersInv, PeersExact, ConnTypeOK, ConnType
  <2> QED BY <2>1, <2>3
<1> QED BY <1>1, ServerPeersInv, ServerSlotInv, ServerLoops, PTL

-----------------------------------------------------------------------------
(* The copies of the peer set, and the limits                              *)

InboundPeers   == {n \in PeerNodes : conn[peers[n]].inbound}
DialedPeers    == {n \in PeerNodes : ~conn[peers[n]].inbound}
OrdinaryPeers  == {n \in PeerNodes : ~conn[peers[n]].trusted}
OrdinaryInward == {n \in OrdinaryPeers : conn[peers[n]].inbound}

\* The books and the limits by the sets they count.  Kept together: the limits
\* hold because the counter that is compared with them agrees with the peer set
\* whenever a peer is let in.
BooksInv ==
    /\ IsFiniteSet(PeerNodes)
    /\ serverLoop = "on" => /\ connected = PeerNodes
                            /\ inboundCount = Cardinality(InboundPeers)
                            /\ dialPeers = Cardinality(DialedPeers)
    /\ Cardinality(OrdinaryPeers) <= MaxPeers
    /\ Cardinality(OrdinaryInward) <= maxInboundConns

\* maxDialedConns leaves no negative number of places for incoming connections
\* (p2p.go:467-480).
LEMMA InboundLimit == maxInboundConns \in Nat /\ MaxPeers \in Nat
<1>1. MaxPeers \in Nat /\ DialRatio \in Nat \ {0}
  BY ServerAssumption
<1>2. ASSUME NEW m \in Nat, NEW d \in Nat \ {0} PROVE m \div d \in 0 .. m
  OBVIOUS
<1>3. MaxPeers \div DialRatio \in 0 .. MaxPeers
  BY <1>1, <1>2
<1> HIDE DEF maxDialedConns
<1>4. maxDialedConns \in 0 .. MaxPeers
  BY <1>1, <1>3 DEF maxDialedConns
<1> QED BY <1>1, <1>4 DEF maxInboundConns

LEMMA PeerSetsFinite ==
    ASSUME IsFiniteSet(PeerNodes)
    PROVE  /\ IsFiniteSet(InboundPeers) /\ IsFiniteSet(DialedPeers)
           /\ IsFiniteSet(OrdinaryPeers) /\ IsFiniteSet(OrdinaryInward)
           /\ Cardinality(PeerNodes) \in Nat
           /\ Cardinality(InboundPeers) \in Nat /\ Cardinality(DialedPeers) \in Nat
           /\ Cardinality(OrdinaryPeers) \in Nat /\ Cardinality(OrdinaryInward) \in Nat
           /\ Cardinality(OrdinaryPeers) <= Cardinality(PeerNodes)
           /\ Cardinality(OrdinaryInward) <= Cardinality(InboundPeers)
<1>1. /\ InboundPeers \subseteq PeerNodes /\ DialedPeers \subseteq PeerNodes
      /\ OrdinaryPeers \subseteq PeerNodes /\ OrdinaryInward \subseteq PeerNodes
      /\ OrdinaryInward \subseteq InboundPeers
  BY DEF InboundPeers, DialedPeers, OrdinaryPeers, OrdinaryInward
<1>2. /\ IsFiniteSet(InboundPeers) /\ IsFiniteSet(DialedPeers)
      /\ IsFiniteSet(OrdinaryPeers) /\ IsFiniteSet(OrdinaryInward)
  BY <1>1, FS_Subset
<1>3. /\ Cardinality(OrdinaryPeers) <= Cardinality(PeerNodes)
      /\ Cardinality(OrdinaryInward) <= Cardinality(InboundPeers)
  BY <1>1, <1>2, FS_Subset
<1> QED BY <1>2, <1>3, FS_CardinalityType

LEMMA BooksInvIs == BooksInv => BookkeepingAgrees /\ PeerLimits
  BY DEF BooksInv, BookkeepingAgrees, PeerLimits, InboundPeers, DialedPeers, OrdinaryPeers,
         OrdinaryInward

\* Neither the peers nor what is known of them changes.
LEMMA BooksKept ==
    ASSUME BooksInv, UNCHANGED <<peers, connected, inboundCount, dialPeers>>,
           serverLoop' = "on" => serverLoop = "on",
           \A n \in PeerNodes : /\ conn'[peers[n]].inbound = conn[peers[n]].inbound
                                /\ conn'[peers[n]].trusted = conn[peers[n]].trusted
    PROVE  BooksInv'
<1>1. PeerNodes' = PeerNodes
  BY DEF PeerNodes
<1>2. /\ InboundPeers' = InboundPeers /\ DialedPeers' = DialedPeers
      /\ OrdinaryPeers' = OrdinaryPeers /\ OrdinaryInward' = OrdinaryInward
  BY <1>1 DEF InboundPeers, DialedPeers, OrdinaryPeers, OrdinaryInward
<1> QED BY <1>1, <1>2 DEF BooksInv

\* One connection changes that is no peer, or in what the books say nothing of.
LEMMA BooksOneConn ==
    ASSUME BooksInv, PeersInv, UNCHANGED <<peers, connected, inboundCount, dialPeers>>,
           serverLoop' = "on" => serverLoop = "on",
           NEW c \in Conns, NEW k, conn' = [conn EXCEPT ![c] = k],
           ~Live(conn[c]) \/ (k.inbound = conn[c].inbound /\ k.trusted = conn[c].trusted)
    PROVE  BooksInv'
<1>1. conn'[c] = k /\ \A d \in Conns \ {c} : conn'[d] = conn[d]
  BY DEF PeersInv, ConnTypeOK
<1>2. \A n \in PeerNodes : peers[n] \in Conns /\ Live(conn[peers[n]])
  BY DEF PeersInv, PeersExact, LivePeers, Live
<1> QED BY <1>1, <1>2, BooksKept

LEMMA ClosedKeepsBooks ==
    ASSUME BooksInv, PeersInv, NEW c \in Conns, Closed(c), ~Live(conn[c]),
           UNCHANGED <<peers, inboundCount, serverLoop>>
    PROVE  BooksInv'
<1>1. UNCHANGED <<connected, dialPeers>> /\ conn' = [conn EXCEPT ![c] = Free]
  BY Zenon DEF Closed, TaskReturned, dialVars
<1> QED BY <1>1, BooksOneConn

LEMMA NewKeepsBooks ==
    ASSUME BooksInv, PeersInv, NEW k, NewConn(k),
           UNCHANGED <<peers, connected, inboundCount, dialPeers, serverLoop>>
    PROVE  BooksInv'
<1>1. PICK c \in Conns : conn[c].step = "free" /\ conn' = [conn EXCEPT ![c] = k]
  BY DEF NewConn
<1>2. ~Live(conn[c])
  BY <1>1 DEF Live
<1> QED BY <1>1, <1>2, BooksOneConn

\* What run() and the scheduler count goes up by the peer that is let in, within
\* the limits (p2p.go:584-601, 636-650, dial.go:182-190).
LEMMA AddKeepsBooks ==
    ASSUME BooksInv, PeersInv, NEW c \in Conns, AddPeerCheckpoint(c)
    PROVE  BooksInv'
<1> DEFINE n == conn[c].node
           k == [conn[c] EXCEPT !.step = "peer"]
<1>1. /\ serverLoop = "on" /\ conn[c].step = "add"
      /\ peers' = [peers EXCEPT ![n] = c] /\ conn' = [conn EXCEPT ![c] = k]
      /\ inboundCount' = IF conn[c].inbound THEN inboundCount + 1 ELSE inboundCount
      /\ addPeerChecks(conn[c], conn[c].trusted)
      /\ PeerAdded(n, ~conn[c].inbound, HasTask(c))
  BY Zenon DEF AddPeerCheckpoint
<1>2. /\ peers[n] = NoConn
      /\ conn[c].trusted \/ Cardinality(PeerNodes) < MaxPeers
      /\ conn[c].trusted \/ ~conn[c].inbound \/ inboundCount < maxInboundConns
  BY <1>1, Zenon DEF addPeerChecks, postHandshakeChecks
<1>3. /\ connected' = connected \cup {n}
      /\ dialPeers' = IF ~conn[c].inbound THEN dialPeers + 1 ELSE dialPeers
  BY <1>1, Zenon DEF PeerAdded
<1>4. n \in Nodes /\ conn[c] \in ConnType /\ c # NoConn
  BY ServerAssumption DEF PeersInv, ConnTypeOK, ConnType
<1>5. conn'[c] = k /\ \A d \in Conns \ {c} : conn'[d] = conn[d]
  BY <1>1 DEF PeersInv, ConnTypeOK
<1>6. k.inbound = conn[c].inbound /\ k.trusted = conn[c].trusted
  BY <1>4 DEF ConnType
<1>7. peers'[n] = c /\ \A m \in Nodes \ {n} : peers'[m] = peers[m]
  BY <1>1, <1>4 DEF PeersInv
<1>8. \A m \in PeerNodes : m \in Nodes \ {n} /\ peers[m] \in Conns \ {c}
  BY <1>1, <1>2 DEF PeerNodes, PeersInv, PeersExact, LivePeers
<1>9. PeerNodes' = PeerNodes \cup {n} /\ n \notin PeerNodes
  BY <1>2, <1>4, <1>7 DEF PeerNodes
<1>10. \A m \in PeerNodes : conn'[peers'[m]] = conn[peers[m]]
  BY <1>5, <1>7, <1>8
<1> HIDE DEF n, k
<1>11. /\ InboundPeers' = IF conn[c].inbound THEN InboundPeers \cup {n} ELSE InboundPeers
       /\ DialedPeers' = IF ~conn[c].inbound THEN DialedPeers \cup {n} ELSE DialedPeers
       /\ OrdinaryPeers' = IF ~conn[c].trusted THEN OrdinaryPeers \cup {n} ELSE OrdinaryPeers
       /\ OrdinaryInward' = IF ~conn[c].trusted /\ conn[c].inbound
                            THEN OrdinaryInward \cup {n} ELSE OrdinaryInward
  <2>1. conn'[peers'[n]].inbound = conn[c].inbound /\ conn'[peers'[n]].trusted = conn[c].trusted
    BY <1>5, <1>6, <1>7
  <2>2. InboundPeers' = IF conn[c].inbound THEN InboundPeers \cup {n} ELSE InboundPeers
    BY <1>9, <1>10, <2>1 DEF InboundPeers
  <2>3. DialedPeers' = IF ~conn[c].inbound THEN DialedPeers \cup {n} ELSE DialedPeers
    BY <1>9, <1>10, <2>1 DEF DialedPeers
  <2>4. OrdinaryPeers' = IF ~conn[c].trusted THEN OrdinaryPeers \cup {n} ELSE OrdinaryPeers
    BY <1>9, <1>10, <2>1 DEF OrdinaryPeers
  <2>5. OrdinaryInward' = IF ~conn[c].trusted /\ conn[c].inbound
                          THEN OrdinaryInward \cup {n} ELSE OrdinaryInward
    BY <1>9, <1>10, <2>1, <2>4 DEF OrdinaryInward, OrdinaryPeers
  <2> QED BY <2>2, <2>3, <2>4, <2>5
<1>12. /\ n \notin InboundPeers /\ n \notin DialedPeers
       /\ n \notin OrdinaryPeers /\ n \notin OrdinaryInward
  BY <1>9 DEF InboundPeers, DialedPeers, OrdinaryPeers, OrdinaryInward
<1>13. IsFiniteSet(PeerNodes) /\ IsFiniteSet(PeerNodes')
  BY <1>9, FS_AddElement DEF BooksInv
<1>14. /\ Cardinality(InboundPeers \cup {n}) = Cardinality(InboundPeers) + 1
       /\ Cardinality(DialedPeers \cup {n}) = Cardinality(DialedPeers) + 1
       /\ Cardinality(OrdinaryPeers \cup {n}) = Cardinality(OrdinaryPeers) + 1
       /\ Cardinality(OrdinaryInward \cup {n}) = Cardinality(OrdinaryInward) + 1
  BY <1>12, <1>13, PeerSetsFinite, FS_AddElement
<1>15. /\ connected' = PeerNodes'
       /\ inboundCount' = Cardinality(InboundPeers')
       /\ dialPeers' = Cardinality(DialedPeers')
  BY <1>1, <1>3, <1>9, <1>11, <1>14 DEF BooksInv
<1>16. Cardinality(OrdinaryPeers') <= MaxPeers
  BY <1>2, <1>11, <1>13, <1>14, PeerSetsFinite, InboundLimit DEF BooksInv
<1>17. Cardinality(OrdinaryInward') <= maxInboundConns
  BY <1>1, <1>2, <1>11, <1>13, <1>14, PeerSetsFinite, InboundLimit DEF BooksInv
<1> QED BY <1>13, <1>15, <1>16, <1>17 DEF BooksInv

\* The peer that leaves is taken from the sets, and from the counts while run()
\* serves (p2p.go:602-605, 621-627).
LEMMA GoneKeepsBooks ==
    ASSUME BooksInv, PeersInv, NEW c \in Conns, PeerGone(c), UNCHANGED serverLoop,
           serverLoop = "on" =>
               /\ connected' = connected \ {conn[c].node}
               /\ inboundCount' = IF conn[c].inbound THEN inboundCount - 1 ELSE inboundCount
               /\ dialPeers' = IF ~conn[c].inbound THEN dialPeers - 1 ELSE dialPeers
    PROVE  BooksInv'
<1> DEFINE n == conn[c].node
<1>1. /\ peers' = [peers EXCEPT ![n] = NoConn] /\ conn' = [conn EXCEPT ![c] = Free]
      /\ conn[c].step = "closing"
  BY DEF PeerGone
<1>2. n \in Nodes /\ c \in LivePeers /\ peers[n] = c /\ c # NoConn /\ c \in Conns
  BY <1>1, ServerAssumption DEF PeersInv, PeersExact, ConnTypeOK, ConnType, LivePeers
<1>3. \A d \in Conns \ {c} : conn'[d] = conn[d]
  BY <1>1 DEF PeersInv, ConnTypeOK
<1>4. peers'[n] = NoConn /\ \A m \in Nodes \ {n} : peers'[m] = peers[m]
  BY <1>1, <1>2 DEF PeersInv
<1>5. PeerNodes' = PeerNodes \ {n} /\ n \in PeerNodes
  BY <1>2, <1>4 DEF PeerNodes
<1>6. \A m \in PeerNodes' : m \in Nodes \ {n} /\ peers[m] \in Conns \ {c}
  BY <1>2, <1>5 DEF PeerNodes, LivePeers, PeersInv, PeersExact
<1>7. \A m \in PeerNodes' : conn'[peers'[m]] = conn[peers[m]]
  BY <1>3, <1>4, <1>6
<1> HIDE DEF n
<1>8. /\ InboundPeers' = InboundPeers \ {n} /\ DialedPeers' = DialedPeers \ {n}
      /\ OrdinaryPeers' = OrdinaryPeers \ {n} /\ OrdinaryInward' = OrdinaryInward \ {n}
  BY <1>5, <1>7 DEF InboundPeers, DialedPeers, OrdinaryPeers, OrdinaryInward
<1>9. /\ n \in InboundPeers <=> conn[c].inbound
      /\ n \in DialedPeers <=> ~conn[c].inbound
  BY <1>2, <1>5 DEF InboundPeers, DialedPeers
<1>10. IsFiniteSet(PeerNodes) /\ IsFiniteSet(PeerNodes')
  BY <1>5, FS_RemoveElement DEF BooksInv
<1>11. /\ Cardinality(InboundPeers') = IF conn[c].inbound THEN Cardinality(InboundPeers) - 1
                                       ELSE Cardinality(InboundPeers)
       /\ Cardinality(DialedPeers') = IF ~conn[c].inbound THEN Cardinality(DialedPeers) - 1
                                      ELSE Cardinality(DialedPeers)
  BY <1>8, <1>9, <1>10, PeerSetsFinite, FS_RemoveElement
<1>12. /\ Cardinality(OrdinaryPeers') <= Cardinality(OrdinaryPeers)
       /\ Cardinality(OrdinaryInward') <= Cardinality(OrdinaryInward)
       /\ Cardinality(OrdinaryPeers') \in Nat /\ Cardinality(OrdinaryInward') \in Nat
  <2>1. OrdinaryPeers' \subseteq OrdinaryPeers /\ OrdinaryInward' \subseteq OrdinaryInward
    BY <1>8
  <2> QED BY <2>1, <1>10, PeerSetsFinite, FS_Subset, FS_CardinalityType
<1>13. serverLoop' = "on" => /\ connected' = PeerNodes'
                             /\ inboundCount' = Cardinality(InboundPeers')
                             /\ dialPeers' = Cardinality(DialedPeers')
  BY <1>5, <1>11 DEF BooksInv, n
<1>14. /\ Cardinality(OrdinaryPeers') <= MaxPeers
       /\ Cardinality(OrdinaryInward') <= maxInboundConns
  BY <1>10, <1>12, PeerSetsFinite, InboundLimit DEF BooksInv
<1> QED BY <1>10, <1>13, <1>14 DEF BooksInv

LEMMA ConnKeepsBooks ==
    ASSUME BooksInv, PeersInv, NEW c \in Conns, ConnStep(c)
    PROVE  BooksInv'
<1>1. UNCHANGED serverLoop
  BY Zenon DEF ConnStep, DialFails, SetupConn, NotRunning, HandshakeDone, HandshakeFails,
     CheckpointQuits, PostHandshake, PeerRefused, AddPeerCheckpoint, PeerEnds, DelPeer, DrainPeer, callVars
<1>2. conn[c] \in ConnType
  BY DEF PeersInv, ConnTypeOK
<1>3. CASE /\ Closed(c) /\ conn[c].step \in {"dialing"} \cup SetupSteps
           /\ UNCHANGED <<peers, inboundCount>>
  BY <1>1, <1>3, ClosedKeepsBooks DEF Live, SetupSteps
<1>4. CASE DialFails(c) \/ NotRunning(c) \/ HandshakeFails(c) \/ CheckpointQuits(c) \/ PeerRefused(c)
  BY <1>3, <1>4 DEF DialFails, NotRunning, HandshakeFails, CheckpointQuits, PeerRefused, peerVars,
     InHandshake, SetupSteps
<1>5. CASE SetupConn(c) \/ HandshakeDone(c) \/ PeerEnds(c)
  <2>1. PICK t \in Steps :
          /\ conn' = [conn EXCEPT ![c] = [conn[c] EXCEPT !.step = t]]
          /\ UNCHANGED <<peers, connected, inboundCount, dialPeers>>
    BY <1>5, Moves DEF ConnMoves, peerVars, dialVars
  <2> DEFINE k == [conn[c] EXCEPT !.step = t]
  <2>2. k.inbound = conn[c].inbound /\ k.trusted = conn[c].trusted
    BY <1>2 DEF ConnType
  <2> HIDE DEF k
  <2> QED BY <1>1, <2>1, <2>2, BooksOneConn DEF k
<1>6. CASE PostHandshake(c)
  <2> DEFINE h == [conn[c] EXCEPT !.trusted = @ \/ conn[c].node \in trusted]
             k == [h EXCEPT !.step = "proto"]
  <2>1. conn[c].step = "post" /\ UNCHANGED <<peers, inboundCount>>
    BY <1>6 DEF PostHandshake, peerVars
  <2>2. CASE conn' = [conn EXCEPT ![c] = k] /\ UNCHANGED dialVars
    <3>1. ~Live(conn[c])
      BY <2>1 DEF Live
    <3> HIDE DEF h, k
    <3> QED BY <1>1, <2>1, <2>2, <3>1, BooksOneConn DEF dialVars
  <2> QED BY <1>3, <1>6, <2>1, <2>2 DEF PostHandshake, SetupSteps
<1>7. CASE AddPeerCheckpoint(c)
  BY <1>7, AddKeepsBooks
<1>8. CASE DelPeer(c)
  <2>1. /\ PeerGone(c) /\ PeerRemoved(conn[c].node, ~conn[c].inbound)
        /\ inboundCount' = IF conn[c].inbound THEN inboundCount - 1 ELSE inboundCount
    BY <1>8, Zenon DEF DelPeer
  <2>2. /\ connected' = connected \ {conn[c].node}
        /\ dialPeers' = IF ~conn[c].inbound THEN dialPeers - 1 ELSE dialPeers
    BY <2>1, Zenon DEF PeerRemoved
  <2> QED BY <1>1, <2>1, <2>2, GoneKeepsBooks
<1>9. CASE DrainPeer(c)
  BY <1>1, <1>9, GoneKeepsBooks DEF DrainPeer
<1> QED BY <1>4, <1>5, <1>6, <1>7, <1>8, <1>9, Zenon DEF ConnStep

\* A peer that is told to disconnect stays in the books until it is gone.
LEMMA ClosingKeepsBooks ==
    ASSUME BooksInv, PeersInv, UNCHANGED <<peers, connected, inboundCount, dialPeers>>,
           serverLoop' = "on" => serverLoop = "on",
           \A c \in Conns : \/ conn'[c] = conn[c]
                            \/ c \in LivePeers /\ conn'[c] = [conn[c] EXCEPT !.step = "closing"]
    PROVE  BooksInv'
<1>1. \A c \in Conns : conn'[c].inbound = conn[c].inbound /\ conn'[c].trusted = conn[c].trusted
  BY DEF PeersInv, ConnTypeOK, ConnType
<1>2. \A n \in PeerNodes : peers[n] \in Conns
  BY DEF PeersInv, PeersExact, LivePeers
<1> QED BY <1>1, <1>2, BooksKept

LEMMA BooksInvStep ==
    ASSUME BooksInv, PeersInv, [ServerNext]_serverVars
    PROVE  BooksInv'
<1> USE DEF peerVars
<1>1. CASE Start
  <2>1. /\ connected' = {} /\ dialPeers' = 0 /\ inboundCount' = 0
        /\ peers' = [n \in Nodes |-> NoConn]
    BY <1>1, Zenon DEF Start, newDialScheduler
  <2>2. PeerNodes' = {}
    BY <2>1 DEF PeerNodes
  <2>3. /\ InboundPeers' = {} /\ DialedPeers' = {} /\ OrdinaryPeers' = {} /\ OrdinaryInward' = {}
    BY <2>2 DEF InboundPeers, DialedPeers, OrdinaryPeers, OrdinaryInward
  <2> QED BY <2>1, <2>2, <2>3, FS_EmptySet, InboundLimit DEF BooksInv
<1>2. ASSUME UNCHANGED <<conn, peers, connected, inboundCount, dialPeers, serverLoop>>
      PROVE  BooksInv'
  BY <1>2, BooksKept
<1>3. CASE StartFails \/ Stop \/ Stopped \/ TakeSlot \/ AcceptFails \/ ListenLoopDone
  BY <1>2, <1>3 DEF StartFails, StartCalled, Stop, Stopped, TakeSlot, AcceptFails, ListenLoopDone, dialVars
<1>4. ASSUME NEW a \in Addrs, RefuseInbound(a) \/ ThrottleExpires(a) PROVE BooksInv'
  BY <1>2, <1>4 DEF RefuseInbound, ThrottleExpires, dialVars
<1>5. ASSUME NEW a \in Addrs, NEW n \in Remotes, AcceptInbound(a, n) PROVE BooksInv'
  <2> DEFINE k == [Free EXCEPT !.step = "setup", !.inbound = TRUE, !.node = n]
  <2>1. NewConn(k) /\ UNCHANGED <<peers, connected, inboundCount, dialPeers, serverLoop>>
    BY <1>5 DEF AcceptInbound, dialVars
  <2> HIDE DEF k
  <2> QED BY <2>1, NewKeepsBooks
<1>6. CASE DialLoopStep
  <2>1. UNCHANGED <<connected, dialPeers>>
    BY <1>6, Zenon DEF DialLoopStep, ExpireHistory, DialDone
  <2> QED BY <1>2, <1>6, <2>1 DEF DialLoopStep
<1>7. CASE Quit
  <2>1. UNCHANGED <<peers, connected, inboundCount, dialPeers>> /\ serverLoop' = "draining"
    BY <1>7 DEF Quit, dialVars
  <2> QED BY <1>7, <2>1, QuitCloses, ClosingKeepsBooks
<1>8. CASE ServerLoopDone
  <2>1. UNCHANGED <<connected, dialPeers>>
    BY <1>8, Zenon DEF ServerLoopDone, StopDialLoop
  <2> QED BY <1>8, <2>1, BooksKept DEF ServerLoopDone
<1>9. ASSUME NEW c \in Conns, ConnStep(c) PROVE BooksInv'
  BY <1>9, ConnKeepsBooks
<1>10. ASSUME NEW n \in Nodes, StartDial(n) PROVE BooksInv'
  <2> DEFINE k == [Free EXCEPT !.step = "dialing", !.node = n, !.dialer = starts]
  <2>1. UNCHANGED <<connected, dialPeers>>
    BY <1>10, Zenon DEF StartDial, StartStaticDial
  <2>2. NewConn(k) /\ UNCHANGED <<peers, inboundCount, serverLoop>>
    BY <1>10 DEF StartDial
  <2> HIDE DEF k
  <2> QED BY <2>1, <2>2, NewKeepsBooks
<1>11. ASSUME NEW n \in Statics, AddPeer(n) PROVE BooksInv'
  <2>1. UNCHANGED <<connected, dialPeers>>
    BY <1>11, Zenon DEF AddPeer, AddStatic
  <2> QED BY <1>2, <1>11, <2>1 DEF AddPeer
<1>12. ASSUME NEW n \in Removable, RemovePeer(n) PROVE BooksInv'
  <2>1. UNCHANGED <<connected, dialPeers>>
    BY <1>12, Zenon DEF RemovePeer, RemoveStatic
  <2>2. UNCHANGED <<peers, inboundCount, serverLoop>> /\ n \in Nodes
    BY <1>12, ServerAssumption DEF RemovePeer
  <2> QED BY <1>12, <2>1, <2>2, RemoveCloses, ClosingKeepsBooks
<1>13. ASSUME NEW n \in MayTrust, AddTrusted(n) \/ RemoveTrusted(n) PROVE BooksInv'
  BY <1>2, <1>13 DEF AddTrusted, RemoveTrusted, dialVars
<1>14. CASE UNCHANGED serverVars
  BY <1>2, <1>14 DEF serverVars, dialVars
<1> QED BY <1>1, <1>3, <1>4, <1>5, <1>6, <1>7, <1>8, <1>9, <1>10, <1>11, <1>12, <1>13, <1>14,
           Zenon DEF ServerNext, ListenLoopStep

LEMMA ServerBooksInv == ServerSpec => []BooksInv
<1>1. ServerInit => BooksInv
  <2> SUFFICES ASSUME ServerInit PROVE BooksInv
    OBVIOUS
  <2>1. PeerNodes = {} /\ serverLoop = "off"
    BY DEF ServerInit, PeerNodes
  <2>2. OrdinaryPeers = {} /\ OrdinaryInward = {}
    BY <2>1 DEF OrdinaryPeers, OrdinaryInward
  <2> QED BY <2>1, <2>2, FS_EmptySet, InboundLimit DEF BooksInv
<1>2. BooksInv /\ PeersInv /\ [ServerNext]_serverVars => BooksInv'
  BY BooksInvStep
<1> QED BY <1>1, <1>2, ServerPeersInv, PTL DEF ServerSpec

\* While run() serves, its peers, its count of inbound ones and what the dial
\* scheduler was told agree (p2p.go:584-605, dial.go:182-196).
THEOREM ServerBookkeeping == ServerSpec => []BookkeepingAgrees
  BY ServerBooksInv, BooksInvIs, PTL

\* The limits hold although the first check of them is stale and the trusted
\* nodes change under the connections (p2p.go:557-601, 630-650).
THEOREM ServerPeerLimits == ServerSpec => []PeerLimits
  BY ServerBooksInv, BooksInvIs, PTL

-----------------------------------------------------------------------------
(* Dials and the goroutines that run them                                  *)

\* A connection whose end the scheduler of the current run waits for.
Runs(k) ==
    /\ k.step \in {"dialing"} \cup SetupSteps
    /\ ~k.inbound /\ k.dialer = starts

RunningDials == {c \in Conns : Runs(conn[c])}

\* No two goroutines run a dial of the same node; and none belongs to a scheduler
\* that is yet to be made, so that a new one begins with nothing to wait for.
DialsInv ==
    /\ \A c \in Conns : conn[c].dialer <= starts
    /\ dialLoop = "on" =>
          /\ \A n \in Nodes : n \in dialing \ finished <=> \E c \in RunningDials : conn[c].node = n
          /\ \A c, d \in RunningDials : conn[c].node = conn[d].node => c = d

DialsTyped == ConnTypeOK /\ DialTypeOK

LEMMA DialsInvIs == DialsInv => DialsExact
<1> SUFFICES ASSUME DialsInv, dialLoop = "on"
             PROVE  \A n \in Nodes : n \in dialing \ finished <=>
                        \E c \in Conns : /\ conn[c].step \in {"dialing"} \cup SetupSteps
                                         /\ HasTask(c) /\ conn[c].node = n
  BY DEF DialsExact
<1>1. \A c \in Conns : Runs(conn[c]) <=> /\ conn[c].step \in {"dialing"} \cup SetupSteps
                                         /\ HasTask(c)
  BY DEF Runs, SetupSteps, HasTask
<1> QED BY <1>1 DEF DialsInv, RunningDials

\* One connection changes and runs a dial as before, or none.
LEMMA DialsOneConn ==
    ASSUME DialsInv, DialsTyped, NEW c \in Conns, NEW k, conn' = [conn EXCEPT ![c] = k],
           UNCHANGED <<dialLoop, starts>>, dialing' \ finished' = dialing \ finished,
           k.dialer <= starts, Runs(k) <=> Runs(conn[c]), Runs(k) => k.node = conn[c].node
    PROVE  DialsInv'
<1>1. conn'[c] = k /\ \A d \in Conns \ {c} : conn'[d] = conn[d]
  BY DEF DialsTyped, ConnTypeOK
<1>2. RunningDials' = RunningDials
  BY <1>1 DEF RunningDials, Runs, SetupSteps
<1>3. \A d \in RunningDials : conn'[d].node = conn[d].node
  BY <1>1 DEF RunningDials
<1>4. \A d \in Conns : conn'[d].dialer <= starts'
  BY <1>1 DEF DialsInv
<1> QED BY <1>2, <1>3, <1>4 DEF DialsInv

LEMMA DialsSameConns ==
    ASSUME DialsInv, UNCHANGED <<conn, dialLoop, starts>>,
           dialing' \ finished' = dialing \ finished
    PROVE  DialsInv'
<1>1. RunningDials' = RunningDials
  BY DEF RunningDials, Runs, SetupSteps
<1> QED BY <1>1 DEF DialsInv

\* The goroutine of a dial reports, and is the only one that had that node to
\* report (dial.go:320-323).
LEMMA DialReturns ==
    ASSUME DialsInv, DialsTyped, NEW c \in Conns, NEW k, conn' = [conn EXCEPT ![c] = k],
           UNCHANGED <<dialLoop, starts>>, dialLoop = "on",
           dialing' = dialing, finished' = finished \cup {conn[c].node},
           k.dialer <= starts, Runs(conn[c]), ~Runs(k)
    PROVE  DialsInv'
<1>1. conn'[c] = k /\ \A d \in Conns \ {c} : conn'[d] = conn[d]
  BY DEF DialsTyped, ConnTypeOK
<1>2. c \in RunningDials /\ RunningDials' = RunningDials \ {c}
  BY <1>1 DEF RunningDials, Runs, SetupSteps
<1>3. \A d \in RunningDials' : conn'[d].node = conn[d].node
  BY <1>1, <1>2 DEF RunningDials
<1>4. \A d \in Conns : conn'[d].dialer <= starts'
  BY <1>1 DEF DialsInv
<1>5. \A c1, d \in RunningDials : conn[c1].node = conn[d].node => c1 = d
  BY DEF DialsInv
<1>6. ASSUME NEW n \in Nodes
      PROVE  n \in dialing' \ finished' <=> \E d \in RunningDials' : conn'[d].node = n
  <2>1. n \in dialing \ finished <=> \E d \in RunningDials : conn[d].node = n
    BY DEF DialsInv
  <2>2. CASE n = conn[c].node
    BY <1>2, <1>3, <1>5, <2>2
  <2>3. CASE n # conn[c].node
    BY <1>2, <1>3, <2>1, <2>3
  <2> QED BY <2>2, <2>3
<1>7. \A c1, d \in RunningDials' : conn'[c1].node = conn'[d].node => c1 = d
  BY <1>2, <1>3, <1>5
<1> QED BY <1>4, <1>6, <1>7 DEF DialsInv

\* SetupConn returns an error, at any of its steps (p2p.go:718-726).
LEMMA ClosedKeepsDials ==
    ASSUME DialsInv, DialsTyped, NEW c \in Conns, Closed(c), UNCHANGED starts,
           conn[c].step \in {"dialing"} \cup SetupSteps
    PROVE  DialsInv'
<1>1. conn' = [conn EXCEPT ![c] = Free] /\ ~Runs(Free) /\ Free.dialer <= starts
  BY ServerAssumption DEF Closed, Free, Runs, SetupSteps, DialsTyped, ConnTypeOK
<1>2. CASE HasTask(c)
  <2>1. UNCHANGED dialLoop /\ dialing' = dialing /\ finished' = finished \cup {conn[c].node}
    BY <1>2, Zenon DEF Closed, TaskReturned
  <2>2. Runs(conn[c]) /\ dialLoop = "on"
    BY <1>2 DEF Runs, SetupSteps, HasTask
  <2> QED BY <1>1, <2>1, <2>2, DialReturns
<1>3. CASE ~HasTask(c)
  <2>1. UNCHANGED <<dialLoop, dialing, finished>>
    BY <1>3, Zenon DEF Closed, dialVars
  <2>2. CASE dialLoop = "on"
    <3>1. ~Runs(conn[c])
      BY <1>3, <2>2 DEF Runs, SetupSteps, HasTask
    <3> QED BY <1>1, <2>1, <3>1, DialsOneConn
  <2>3. CASE dialLoop # "on"
    BY <1>1, <2>1, <2>3 DEF DialsInv, DialsTyped, ConnTypeOK
  <2> QED BY <2>2, <2>3
<1> QED BY <1>2, <1>3

\* A node in the pool is not being dialled, so the dial that is started is the
\* only one of its node (dial.go:261-288, 315-324).
LEMMA StartDialKeepsDials ==
    ASSUME DialsInv, DialsTyped, PoolSound, NEW n \in Nodes, StartDial(n)
    PROVE  DialsInv'
<1> DEFINE k == [Free EXCEPT !.step = "dialing", !.node = n, !.dialer = starts]
<1>1. NewConn(k) /\ StartStaticDial(n) /\ UNCHANGED starts
  BY Zenon DEF StartDial, callVars
<1>2. /\ dialLoop = "on" /\ UNCHANGED dialLoop
      /\ dialing' = dialing \cup {n} /\ finished' = finished
  BY <1>1, Zenon DEF StartStaticDial
<1>3. PICK idx \in 0 .. Len(staticPool) - 1 : n = staticPool[idx + 1]
  BY <1>1, Zenon DEF StartStaticDial
<1>4. idx + 1 \in DOMAIN staticPool
  BY <1>3 DEF DialsTyped, DialTypeOK
<1>5. staticPoolIndex[n] = idx + 1 - 1 /\ staticPoolIndex[n] >= 0
  BY <1>3, <1>4 DEF PoolSound, PoolIndexed
<1>6. n \notin dialing /\ n \notin finished
  BY <1>5 DEF PoolSound, PoolExact, checkDial, DialsTyped, DialTypeOK
<1>7. k.step = "dialing" /\ k.inbound = FALSE /\ k.dialer = starts /\ k.node = n
  BY DEF Free
<1> HIDE DEF k
<1>8. PICK c \in Conns : conn[c].step = "free" /\ conn' = [conn EXCEPT ![c] = k]
  BY <1>1 DEF NewConn
<1>9. conn'[c] = k /\ \A d \in Conns \ {c} : conn'[d] = conn[d]
  BY <1>8 DEF DialsTyped, ConnTypeOK
<1>10. c \notin RunningDials /\ RunningDials' = RunningDials \cup {c}
  BY <1>1, <1>7, <1>8, <1>9 DEF RunningDials, Runs, SetupSteps
<1>11. conn'[c].node = n /\ \A d \in RunningDials : conn'[d].node = conn[d].node
  BY <1>7, <1>9, <1>10 DEF RunningDials
<1>12. \A d \in RunningDials : conn[d].node # n
  BY <1>2, <1>6 DEF DialsInv
<1>13. ASSUME NEW m \in Nodes
       PROVE  m \in dialing' \ finished' <=> \E d \in RunningDials' : conn'[d].node = m
  <2>1. m \in dialing \ finished <=> \E d \in RunningDials : conn[d].node = m
    BY <1>2 DEF DialsInv
  <2>2. CASE m = n
    BY <1>2, <1>6, <1>10, <1>11, <2>2
  <2>3. CASE m # n
    BY <1>2, <1>10, <1>11, <2>1, <2>3
  <2> QED BY <2>2, <2>3
<1>14. \A d, e \in RunningDials' : conn'[d].node = conn'[e].node => d = e
  BY <1>2, <1>10, <1>11, <1>12 DEF DialsInv
<1>15. \A d \in Conns : conn'[d].dialer <= starts'
  BY <1>1, <1>7, <1>9 DEF DialsInv, DialsTyped, ConnTypeOK
<1> QED BY <1>13, <1>14, <1>15 DEF DialsInv

\* The dial that became a peer reports like one that failed (p2p.go:586-601).
LEMMA AddKeepsDials ==
    ASSUME DialsInv, DialsTyped, NEW c \in Conns, AddPeerCheckpoint(c)
    PROVE  DialsInv'
<1> DEFINE k == [conn[c] EXCEPT !.step = "peer"]
<1>1. /\ conn' = [conn EXCEPT ![c] = k] /\ conn[c].step = "add" /\ UNCHANGED starts
      /\ PeerAdded(conn[c].node, ~conn[c].inbound, HasTask(c))
  BY Zenon DEF AddPeerCheckpoint, callVars
<1>2. /\ UNCHANGED <<dialLoop, dialing>>
      /\ finished' = IF HasTask(c) THEN finished \cup {conn[c].node} ELSE finished
      /\ dialLoop = "on"
  BY <1>1, Zenon DEF PeerAdded, Selecting
<1>3. k.step = "peer" /\ k.dialer = conn[c].dialer
  BY DEF DialsTyped, ConnTypeOK, ConnType
<1>4. ~Runs(k) /\ k.dialer <= starts
  BY <1>3 DEF Runs, SetupSteps, DialsInv
<1>5. Runs(conn[c]) <=> HasTask(c)
  BY <1>1, <1>2 DEF Runs, SetupSteps, HasTask
<1> HIDE DEF k
<1>6. CASE HasTask(c)
  BY <1>1, <1>2, <1>4, <1>5, <1>6, DialReturns
<1>7. CASE ~HasTask(c)
  BY <1>1, <1>2, <1>4, <1>5, <1>7, DialsOneConn
<1> QED BY <1>6, <1>7

LEMMA ConnKeepsDials ==
    ASSUME DialsInv, DialsTyped, NEW c \in Conns, ConnStep(c)
    PROVE  DialsInv'
<1>1. UNCHANGED starts
  BY Zenon DEF ConnStep, DialFails, SetupConn, NotRunning, HandshakeDone, HandshakeFails,
     CheckpointQuits, PostHandshake, PeerRefused, AddPeerCheckpoint, PeerEnds, DelPeer, DrainPeer, callVars
<1>2. conn[c] \in ConnType /\ conn[c].dialer <= starts
  BY DEF DialsTyped, ConnTypeOK, DialsInv
<1>3. CASE DialFails(c) \/ NotRunning(c) \/ HandshakeFails(c) \/ CheckpointQuits(c) \/ PeerRefused(c)
  BY <1>1, <1>3, ClosedKeepsDials
     DEF DialFails, NotRunning, HandshakeFails, CheckpointQuits, PeerRefused,
         InHandshake, SetupSteps
<1>4. CASE SetupConn(c) \/ HandshakeDone(c) \/ PeerEnds(c)
  <2>1. PICK t \in Steps :
          /\ conn' = [conn EXCEPT ![c] = [conn[c] EXCEPT !.step = t]]
          /\ UNCHANGED <<dialLoop, dialing, finished>>
          /\ \/ t \in SetupSteps /\ conn[c].step \in {"dialing"} \cup SetupSteps
             \/ t = "closing" /\ conn[c].step = "peer"
    BY <1>4, Moves DEF ConnMoves, dialVars
  <2> DEFINE k == [conn[c] EXCEPT !.step = t]
  <2>2. k.step = t /\ k.node = conn[c].node /\ k.inbound = conn[c].inbound /\ k.dialer = conn[c].dialer
    BY <1>2 DEF ConnType
  <2>3. Runs(k) <=> Runs(conn[c])
    BY <2>1, <2>2 DEF Runs, SetupSteps
  <2> HIDE DEF k
  <2> QED BY <1>1, <1>2, <2>1, <2>2, <2>3, DialsOneConn DEF k
<1>5. CASE PostHandshake(c)
  <2> DEFINE h == [conn[c] EXCEPT !.trusted = @ \/ conn[c].node \in trusted]
             k == [h EXCEPT !.step = "proto"]
  <2>1. conn[c].step = "post"
    BY <1>5 DEF PostHandshake
  <2>2. CASE conn' = [conn EXCEPT ![c] = k] /\ UNCHANGED dialVars
    <3>1. k.step = "proto" /\ k.node = conn[c].node /\ k.inbound = conn[c].inbound /\ k.dialer = conn[c].dialer
      BY <1>2 DEF ConnType
    <3>2. Runs(k) <=> Runs(conn[c])
      BY <2>1, <3>1 DEF Runs, SetupSteps
    <3> HIDE DEF h, k
    <3> QED BY <1>1, <1>2, <2>2, <3>1, <3>2, DialsOneConn DEF dialVars
  <2>3. CASE Closed(c)
    BY <1>1, <2>1, <2>3, ClosedKeepsDials DEF SetupSteps
  <2> QED BY <1>5, <2>2, <2>3 DEF PostHandshake
<1>6. CASE AddPeerCheckpoint(c)
  BY <1>6, AddKeepsDials
<1>7. CASE DelPeer(c) \/ DrainPeer(c)
  <2>1. conn' = [conn EXCEPT ![c] = Free] /\ conn[c].step = "closing"
    BY <1>7 DEF DelPeer, DrainPeer, PeerGone
  <2>2. UNCHANGED <<dialLoop, dialing, finished>>
    BY <1>7, Zenon DEF DelPeer, DrainPeer, PeerRemoved, dialVars
  <2>3. ~Runs(Free) /\ ~Runs(conn[c]) /\ Free.dialer <= starts
    BY <2>1, ServerAssumption DEF Runs, SetupSteps, Free, DialsTyped, ConnTypeOK
  <2> QED BY <1>1, <2>1, <2>2, <2>3, DialsOneConn
<1> QED BY <1>3, <1>4, <1>5, <1>6, <1>7, Zenon DEF ConnStep

\* A peer told to disconnect ran no dial any more.
LEMMA ClosingKeepsDials ==
    ASSUME DialsInv, DialsTyped, UNCHANGED <<dialLoop, starts>>,
           dialing' \ finished' = dialing \ finished,
           \A c \in Conns : \/ conn'[c] = conn[c]
                            \/ c \in LivePeers /\ conn'[c] = [conn[c] EXCEPT !.step = "closing"]
    PROVE  DialsInv'
<1>1. ASSUME NEW c \in Conns
      PROVE  /\ Runs(conn'[c]) <=> Runs(conn[c])
             /\ conn'[c].node = conn[c].node /\ conn'[c].dialer = conn[c].dialer
  <2>1. CASE conn'[c] = conn[c]
    BY <2>1
  <2>2. CASE c \in LivePeers /\ conn'[c] = [conn[c] EXCEPT !.step = "closing"]
    <3>1. /\ conn'[c].step = "closing" /\ conn[c].step \in {"peer", "closing"}
          /\ conn'[c].node = conn[c].node /\ conn'[c].dialer = conn[c].dialer
      BY <2>2 DEF DialsTyped, ConnTypeOK, ConnType, LivePeers
    <3> QED BY <3>1 DEF Runs, SetupSteps
  <2> QED BY <2>1, <2>2
<1>2. RunningDials' = RunningDials
  BY <1>1 DEF RunningDials, Runs, SetupSteps
<1>3. \A c \in RunningDials : c \in Conns
  BY DEF RunningDials
<1> QED BY <1>1, <1>2, <1>3 DEF DialsInv

LEMMA DialsInvStep ==
    ASSUME DialsInv, DialsTyped, PoolSound, PeersInv, LoopsTogether, [ServerNext]_serverVars
    PROVE  DialsInv'
<1> USE DEF callVars
<1>1. CASE Start
  <2>1. conn' = conn /\ starts' = starts + 1 /\ dialing' = {} /\ finished' = {}
    BY <1>1, Zenon DEF Start, StartCalled, newDialScheduler
  <2>2. \A c \in Conns : conn'[c].dialer # starts' /\ conn'[c].dialer <= starts'
    BY <2>1 DEF DialsInv, DialsTyped, ConnTypeOK, ConnType
  <2>3. RunningDials' = {}
    BY <2>2 DEF RunningDials, Runs, SetupSteps
  <2> QED BY <2>1, <2>2, <2>3 DEF DialsInv
<1>2. CASE StartFails
  <2>1. conn' = conn /\ starts' = starts + 1 /\ caller = "down" /\ UNCHANGED dialLoop
    BY <1>2, Zenon DEF StartFails, StartCalled, dialVars
  <2>2. dialLoop' # "on"
    BY <2>1 DEF PeersInv, LoopsTogether
  <2> QED BY <2>1, <2>2 DEF DialsInv, DialsTyped, ConnTypeOK, ConnType
<1>3. CASE Stop \/ Stopped \/ TakeSlot \/ AcceptFails \/ ListenLoopDone
  BY <1>3, DialsSameConns DEF Stop, Stopped, TakeSlot, AcceptFails, ListenLoopDone, dialVars
<1>4. ASSUME NEW a \in Addrs, RefuseInbound(a) \/ ThrottleExpires(a) PROVE DialsInv'
  BY <1>4, DialsSameConns DEF RefuseInbound, ThrottleExpires, dialVars
<1>5. ASSUME NEW a \in Addrs, NEW n \in Remotes, AcceptInbound(a, n) PROVE DialsInv'
  <2> DEFINE k == [Free EXCEPT !.step = "setup", !.inbound = TRUE, !.node = n]
  <2>1. NewConn(k) /\ UNCHANGED <<dialLoop, starts, dialing, finished>>
    BY <1>5 DEF AcceptInbound, dialVars
  <2>2. k.inbound /\ k.dialer = 0
    BY DEF Free
  <2>3. ~Runs(k) /\ k.dialer <= starts
    BY <2>2, ServerAssumption DEF Runs, SetupSteps, DialsTyped, ConnTypeOK
  <2> HIDE DEF k
  <2>4. PICK c \in Conns : conn[c].step = "free" /\ conn' = [conn EXCEPT ![c] = k]
    BY <2>1 DEF NewConn
  <2>5. ~Runs(conn[c])
    BY <2>4 DEF Runs, SetupSteps
  <2> QED BY <2>1, <2>3, <2>4, <2>5, DialsOneConn
<1>6. CASE DialLoopStep
  <2>1. UNCHANGED <<conn, starts>>
    BY <1>6, Zenon DEF DialLoopStep
  <2>2. CASE ExpireHistory
    <3>1. UNCHANGED <<dialLoop, dialing, finished>>
      BY <2>2, Zenon DEF ExpireHistory
    <3> QED BY <2>1, <3>1, DialsSameConns
  <2>3. ASSUME NEW n \in Nodes, DialDone(n) PROVE DialsInv'
    <3>1. UNCHANGED dialLoop /\ dialing' = dialing \ {n} /\ finished' = finished \ {n} /\ n \in finished
      BY <2>3, Zenon DEF DialDone
    <3>2. dialing' \ finished' = dialing \ finished
      BY <3>1
    <3> QED BY <2>1, <3>1, <3>2, DialsSameConns
  <2> QED BY <1>6, <2>2, <2>3, Zenon DEF DialLoopStep
<1>7. CASE Quit
  <2>1. UNCHANGED <<dialLoop, starts, dialing, finished>>
    BY <1>7 DEF Quit, dialVars
  <2> QED BY <1>7, <2>1, QuitCloses, ClosingKeepsDials
<1>8. CASE ServerLoopDone
  <2>1. UNCHANGED <<conn, starts>> /\ dialLoop' = "off"
    BY <1>8, Zenon DEF ServerLoopDone, StopDialLoop
  <2> QED BY <2>1 DEF DialsInv
<1>9. ASSUME NEW c \in Conns, ConnStep(c) PROVE DialsInv'
  BY <1>9, ConnKeepsDials
<1>10. ASSUME NEW n \in Nodes, StartDial(n) PROVE DialsInv'
  BY <1>10, StartDialKeepsDials
<1>11. ASSUME NEW n \in Statics, AddPeer(n) PROVE DialsInv'
  <2>1. UNCHANGED <<conn, starts, dialLoop, dialing, finished>>
    BY <1>11, Zenon DEF AddPeer, AddStatic
  <2> QED BY <2>1, DialsSameConns
<1>12. ASSUME NEW n \in Removable, RemovePeer(n) PROVE DialsInv'
  <2>1. UNCHANGED <<dialLoop, dialing, finished, starts>> /\ n \in Nodes
    BY <1>12, ServerAssumption DEF RemovePeer, RemoveStatic
  <2> QED BY <1>12, <2>1, RemoveCloses, ClosingKeepsDials
<1>13. ASSUME NEW n \in MayTrust, AddTrusted(n) \/ RemoveTrusted(n) PROVE DialsInv'
  BY <1>13, DialsSameConns DEF AddTrusted, RemoveTrusted, dialVars
<1>14. CASE UNCHANGED serverVars
  BY <1>14, DialsSameConns DEF serverVars, dialVars
<1> QED BY <1>1, <1>2, <1>3, <1>4, <1>5, <1>6, <1>7, <1>8, <1>9, <1>10, <1>11, <1>12, <1>13, <1>14,
           Zenon DEF ServerNext, ListenLoopStep

\* The scheduler counts a dial as running exactly while a goroutine it started is
\* at work, whatever goroutines of earlier runs are left (dial.go:315-324,
\* p2p.go:710-727).
THEOREM ServerDialsExact == ServerSpec => []DialsExact
<1>1. ServerInit => DialsInv
  <2> SUFFICES ASSUME ServerInit PROVE DialsInv
    OBVIOUS
  <2>1. dialLoop = "off" /\ starts = 0 /\ \A c \in Conns : conn[c].dialer = 0
    BY DEF ServerInit, DialInit, Free
  <2> QED BY <2>1 DEF DialsInv
<1>2. ServerTypeOK => DialsTyped
  BY DEF ServerTypeOK, DialsTyped, ConnTypeOK
<1>3. DialsInv /\ DialsTyped /\ PoolSound /\ PeersInv /\ LoopsTogether /\ [ServerNext]_serverVars
        => DialsInv'
  BY DialsInvStep
<1> QED BY <1>1, <1>2, <1>3, ServerTypes, ServerPoolSound, ServerPeersInv, ServerLoops, DialsInvIs,
           PTL DEF ServerSpec
=============================================================================
