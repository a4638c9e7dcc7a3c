----------------------------- MODULE P2PServer -----------------------------
(***************************************************************************)
(* The network server of internal/p2p/p2p.go: run(), which owns the peer   *)
(* set; listenLoop(), which hands out a fixed number of slots to incoming  *)
(* connections; one goroutine per connection being set up, which meets     *)
(* run() at two checkpoints; one goroutine per peer; and the dial          *)
(* scheduler (module DialScheduler).  They share nothing but channels.     *)
(*                                                                         *)
(* Inside a handler run() may wait for the dial scheduler, and meanwhile   *)
(* touches nothing another goroutine can see; so a handler is one step,    *)
(* taken when the dial scheduler is at its select.                         *)
(***************************************************************************)
EXTENDS DialScheduler

CONSTANTS
    MaxPeers, DialRatio,   \* P2PConfig, after its defaults
    MaxPendingPeers,
    NoDial, Listens,       \* BOOLEAN: NoDial, ListenAddr # ""
    TrustedNodes,
    MayTrust,              \* nodes somebody may declare trusted, now or later
    Statics, Removable,    \* nodes the user adds, and removes
    Remotes,               \* nodes that connect to us
    Addrs, LAN,            \* remote addresses, and those AddrIsLAN holds of
    Conns, NoConn,         \* the conn values of one run, bounded
    NoNode,
    MaxStarts              \* bound on calls of Start

maxDialedConns ==
    IF NoDial \/ MaxPeers = 0 THEN 0
    ELSE IF MaxPeers \div DialRatio = 0 THEN 1 ELSE MaxPeers \div DialRatio

maxInboundConns == MaxPeers - maxDialedConns

\* setupDialScheduler fills in the dialConfig.
dialConfig == maxDialPeers = maxDialedConns /\ maxActiveDials = MaxPendingPeers

ASSUME ServerAssumption ==
    /\ dialConfig
    /\ self \in Nodes /\ NoNode \notin Nodes /\ NoConn \notin Conns
    /\ MaxPeers \in Nat /\ DialRatio \in Nat \ {0} /\ MaxPendingPeers \in Nat \ {0}
    /\ NoDial \in BOOLEAN /\ Listens \in BOOLEAN
    /\ TrustedNodes \subseteq MayTrust /\ MayTrust \subseteq Nodes
    /\ Statics \subseteq Nodes /\ Removable \subseteq Nodes /\ Remotes \subseteq Nodes /\ LAN \subseteq Addrs
    /\ MaxStarts \in Nat

VARIABLES
    running,         \* srv.running; quit is closed exactly while it is FALSE
    caller,          \* who starts and stops the server: "down", "up" or "stopping"
    starts,          \* number of Start calls so far
    serverLoop,      \* run(): "off", "on" or "draining"
    peers,           \* peers[n]: the connection of node n, or NoConn
    inboundCount,
    trusted,
    listenLoop,      \* "off", "waiting", "accepting" or "draining"
    slots,           \* tokens in the channel slots
    inboundHistory,  \* addresses that connected in the last 30 seconds
    conn,            \* conn[c]: a connection and the goroutine that serves it
    removing         \* the node a RemovePeer call waits for, or NoNode

listenVars == <<listenLoop, slots, inboundHistory>>
peerVars   == <<peers, inboundCount, trusted, removing>>
callVars   == <<running, caller, starts>>
serverVars == <<dialVars, callVars, serverLoop, peerVars, listenVars, conn>>

-----------------------------------------------------------------------------
(* Connections                                                             *)

\* dialing: in dialer.Dial.  setup: setupConn is about to ask whether the
\* server runs.  enc, proto: in a handshake, which only the remote or a broken
\* connection ends.  post, add: at the checkpoint after it, where run() or quit
\* is awaited.  peer: runPeer.  closing: p.run ended, waiting to send on delpeer.
Steps == {"free", "dialing", "setup", "enc", "post", "proto", "add", "peer", "closing"}
SetupSteps == {"setup", "enc", "post", "proto", "add"}

Free == [step |-> "free", inbound |-> FALSE, node |-> self, trusted |-> FALSE, dialer |-> 0]

ConnType == [step : Steps, inbound : BOOLEAN, node : Nodes, trusted : BOOLEAN,
             dialer : 0 .. MaxStarts]

PendingInbound == {c \in Conns : conn[c].inbound /\ conn[c].step \in SetupSteps}
LivePeers      == {c \in Conns : conn[c].step \in {"peer", "closing"}}
PeerNodes      == {n \in Nodes : peers[n] # NoConn}

NewConn(fields) ==
    LET unused == {c \in Conns : conn[c].step = "free"}
    IN  unused # {} /\ conn' = [conn EXCEPT ![CHOOSE c \in unused : TRUE] = fields]

\* The task of a dialled connection, if the scheduler that started it listens.
HasTask(c) == ~conn[c].inbound /\ conn[c].dialer = starts /\ dialLoop = "on"

\* Mutant: a refused connection keeps its slot.
ClosedSlotKept(c) ==
    /\ conn' = [conn EXCEPT ![c] = Free]
    /\ UNCHANGED slots
    /\ IF HasTask(c) THEN TaskReturned(conn[c].node) ELSE UNCHANGED dialVars

\* Mutant: the dial scheduler is not told.
ClosedUnreported(c) ==
    /\ conn' = [conn EXCEPT ![c] = Free]
    /\ slots' = IF conn[c].inbound THEN slots + 1 ELSE slots
    /\ UNCHANGED dialVars

\* SetupConn returns an error: the connection is closed, and its goroutine
\* gives the slot back or reports to the dial scheduler.
Closed(c) ==
    /\ conn' = [conn EXCEPT ![c] = Free]
    /\ slots' = IF conn[c].inbound THEN slots + 1 ELSE slots
    /\ IF HasTask(c) THEN TaskReturned(conn[c].node) ELSE UNCHANGED dialVars

ServerInit ==
    /\ DialInit
    /\ running = FALSE /\ caller = "down" /\ starts = 0
    /\ serverLoop = "off"
    /\ peers = [n \in Nodes |-> NoConn] /\ inboundCount = 0 /\ trusted = {}
    /\ listenLoop = "off" /\ slots = 0 /\ inboundHistory = {}
    /\ conn = [c \in Conns |-> Free]
    /\ removing = NoNode

-----------------------------------------------------------------------------
(* Start and Stop                                                          *)

StartCalled ==
    /\ caller = "down" /\ starts < MaxStarts
    /\ running' = TRUE /\ caller' = "up" /\ starts' = starts + 1
    /\ UNCHANGED <<inboundHistory, conn, removing>>

Listening(on) ==
    /\ listenLoop' = IF on THEN "waiting" ELSE "off"
    /\ slots' = IF on THEN MaxPendingPeers ELSE 0

Start ==
    /\ StartCalled
    /\ Listening(Listens)
    /\ newDialScheduler
    /\ serverLoop' = "on"
    /\ peers' = [n \in Nodes |-> NoConn] /\ inboundCount' = 0 /\ trusted' = TrustedNodes

\* An error before the listener is open (no key, the node database) or after it
\* (the UDP socket, discovery): running stays set, and only the listener may be
\* at work.
StartFails ==
    /\ StartCalled
    /\ \E on \in {FALSE, Listens} : Listening(on)
    /\ UNCHANGED <<dialVars, serverLoop, peers, inboundCount, trusted>>

\* running is cleared, the listener and quit are closed under one lock.
Stop ==
    /\ caller = "up" /\ running
    /\ running' = FALSE /\ caller' = "stopping"
    /\ UNCHANGED <<dialVars, starts, serverLoop, peerVars, listenVars, conn>>

\* loopWG.Wait() in Stop.
Stopped ==
    /\ caller = "stopping" /\ serverLoop = "off" /\ listenLoop = "off"
    /\ caller' = "down"
    /\ UNCHANGED <<dialVars, running, starts, serverLoop, peerVars, listenVars, conn>>

-----------------------------------------------------------------------------
(* listenLoop                                                              *)

TakeSlot ==
    /\ listenLoop = "waiting" /\ slots > 0
    /\ slots' = slots - 1 /\ listenLoop' = "accepting"
    /\ UNCHANGED <<dialVars, callVars, serverLoop, peerVars, inboundHistory, conn>>

\* checkInboundConn refuses an address that is not local and came before.
RefuseInbound(a) ==
    /\ listenLoop = "accepting" /\ running
    /\ a \notin LAN /\ a \in inboundHistory
    /\ slots' = slots + 1 /\ listenLoop' = "waiting"
    /\ UNCHANGED <<dialVars, callVars, serverLoop, peerVars, inboundHistory, conn>>

\* Entries of local addresses are never looked up, and left out.
AcceptInbound(a, n) ==
    /\ listenLoop = "accepting" /\ running
    /\ a \in LAN \/ a \notin inboundHistory
    /\ inboundHistory' = inboundHistory \cup ({a} \ LAN)
    /\ NewConn([Free EXCEPT !.step = "setup", !.inbound = TRUE, !.node = n])
    /\ listenLoop' = "waiting"
    /\ UNCHANGED <<dialVars, callVars, serverLoop, peerVars, slots>>

ThrottleExpires(a) ==
    /\ a \in inboundHistory
    /\ inboundHistory' = inboundHistory \ {a}
    /\ UNCHANGED <<dialVars, callVars, serverLoop, peerVars, listenLoop, slots, conn>>

\* Accept fails, as it does on a closed listener; the loop returns its token and
\* leaves.
AcceptFails ==
    /\ listenLoop = "accepting"
    /\ slots' = slots + 1 /\ listenLoop' = "draining"
    /\ UNCHANGED <<dialVars, callVars, serverLoop, peerVars, inboundHistory, conn>>

\* It collects every token, so every pending connection, before it is done.
ListenLoopDone ==
    /\ listenLoop = "draining" /\ slots = MaxPendingPeers
    /\ slots' = 0 /\ listenLoop' = "off"
    /\ UNCHANGED <<dialVars, callVars, serverLoop, peerVars, inboundHistory, conn>>

-----------------------------------------------------------------------------
(* Setting up a connection                                                 *)

StartDial(n) ==
    /\ StartStaticDial(n)
    /\ NewConn([Free EXCEPT !.step = "dialing", !.node = n, !.dialer = starts])
    /\ UNCHANGED <<callVars, serverLoop, peerVars, listenVars>>

\* Nothing answers, the name does not resolve, or the dialer was cancelled.
DialFails(c) ==
    /\ conn[c].step = "dialing"
    /\ Closed(c)
    /\ UNCHANGED <<callVars, serverLoop, peerVars, listenLoop, inboundHistory>>

\* setupConn looks at srv.running, after Dial if the connection is ours.
SetupConn(c) ==
    /\ conn[c].step \in {"dialing", "setup"} /\ running
    /\ conn' = [conn EXCEPT ![c].step = "enc"]
    /\ UNCHANGED <<dialVars, callVars, serverLoop, peerVars, listenVars>>

NotRunning(c) ==
    /\ conn[c].step \in {"dialing", "setup"} /\ ~running
    /\ Closed(c)
    /\ UNCHANGED <<callVars, serverLoop, peerVars, listenLoop, inboundHistory>>

InHandshake(c) == conn[c].step \in {"enc", "proto"}

HandshakeDone(c) ==
    /\ InHandshake(c)
    /\ conn' = [conn EXCEPT ![c].step = IF @ = "enc" THEN "post" ELSE "add"]
    /\ UNCHANGED <<dialVars, callVars, serverLoop, peerVars, listenVars>>

\* Either handshake fails, or the second one shows another identity.
HandshakeFails(c) ==
    /\ InHandshake(c)
    /\ Closed(c)
    /\ UNCHANGED <<callVars, serverLoop, peerVars, listenLoop, inboundHistory>>

\* checkpoint, when quit is closed before run() takes the connection.
CheckpointQuits(c) ==
    /\ conn[c].step \in {"post", "add"} /\ ~running
    /\ Closed(c)
    /\ UNCHANGED <<callVars, serverLoop, peerVars, listenLoop, inboundHistory>>

-----------------------------------------------------------------------------
(* run()                                                                   *)

\* The reasons to refuse a connection with the given flag.
postHandshakeChecks(k, isTrusted) ==
    /\ isTrusted \/ Cardinality(PeerNodes) < MaxPeers
    /\ isTrusted \/ ~k.inbound \/ inboundCount < maxInboundConns
    /\ peers[k.node] = NoConn
    /\ k.node # self

\* Mutants: only the first checkpoint counts; a connected node is let in.
addPeerChecksSkipped(k, isTrusted) == peers[k.node] = NoConn
addPeerChecksTwice(k, isTrusted) ==
    /\ isTrusted \/ Cardinality(PeerNodes) < MaxPeers
    /\ isTrusted \/ ~k.inbound \/ inboundCount < maxInboundConns

addPeerChecks(k, isTrusted) == postHandshakeChecks(k, isTrusted)

PostHandshake(c) ==
    /\ serverLoop = "on" /\ conn[c].step = "post"
    /\ LET k == [conn[c] EXCEPT !.trusted = @ \/ conn[c].node \in trusted]
       IN  IF postHandshakeChecks(k, k.trusted)
           THEN /\ conn' = [conn EXCEPT ![c] = [k EXCEPT !.step = "proto"]]
                /\ UNCHANGED <<dialVars, slots>>
           ELSE Closed(c)
    /\ UNCHANGED <<callVars, serverLoop, peerVars, listenLoop, inboundHistory>>

\* addPeerChecks refuses: a limit, a second connection, no common protocol.
PeerRefused(c) ==
    /\ serverLoop = "on" /\ conn[c].step = "add"
    /\ Closed(c)
    /\ UNCHANGED <<callVars, serverLoop, peerVars, listenLoop, inboundHistory>>

\* launchPeer; the dial scheduler hears of the peer, and SetupConn returns.
AddPeerCheckpoint(c) ==
    LET n == conn[c].node
    IN  /\ serverLoop = "on" /\ conn[c].step = "add"
        /\ addPeerChecks(conn[c], conn[c].trusted)
        /\ PeerAdded(n, ~conn[c].inbound, HasTask(c))
        /\ peers' = [peers EXCEPT ![n] = c]
        /\ inboundCount' = IF conn[c].inbound THEN inboundCount + 1 ELSE inboundCount
        /\ slots' = IF conn[c].inbound THEN slots + 1 ELSE slots
        /\ conn' = [conn EXCEPT ![c].step = "peer"]
        /\ UNCHANGED <<callVars, serverLoop, trusted, removing, listenLoop, inboundHistory>>

\* p.run returns: whichever of writeErr, readErr (a failed read, a message that
\* handle refuses, discMsg), protoErr (a protocol or the ping loop) and disc is
\* first; the goroutines of the peer are joined before it does.
PeerEnds(c) ==
    /\ conn[c].step = "peer"
    /\ conn' = [conn EXCEPT ![c].step = "closing"]
    /\ UNCHANGED <<dialVars, callVars, serverLoop, peerVars, listenVars>>

\* The Drop event that ends runPeer wakes the RemovePeer call waiting for it.
PeerGone(c) ==
    LET n == conn[c].node
    IN  /\ conn[c].step = "closing"
        /\ peers' = [peers EXCEPT ![n] = NoConn]
        /\ conn' = [conn EXCEPT ![c] = Free]
        /\ removing' = IF removing = n THEN NoNode ELSE removing

\* Mutant: the count of inbound peers is kept.
DelPeerUncounted(c) ==
    /\ serverLoop = "on"
    /\ PeerGone(c)
    /\ PeerRemoved(conn[c].node, ~conn[c].inbound)
    /\ UNCHANGED <<callVars, serverLoop, inboundCount, trusted, listenVars>>

DelPeer(c) ==
    /\ serverLoop = "on"
    /\ PeerGone(c)
    /\ PeerRemoved(conn[c].node, ~conn[c].inbound)
    /\ inboundCount' = IF conn[c].inbound THEN inboundCount - 1 ELSE inboundCount
    /\ UNCHANGED <<callVars, serverLoop, trusted, listenVars>>

\* The flag of a connected peer is set and cleared too, but then it is only
\* reported, by Info: conn keeps the flag the peer was let in with.
AddTrusted(n) ==
    /\ serverLoop = "on"
    /\ trusted' = trusted \cup {n}
    /\ UNCHANGED <<dialVars, callVars, serverLoop, peers, inboundCount, removing, listenVars, conn>>

RemoveTrusted(n) ==
    /\ serverLoop = "on"
    /\ trusted' = trusted \ {n}
    /\ UNCHANGED <<dialVars, callVars, serverLoop, peers, inboundCount, removing, listenVars, conn>>

\* Mutant: nobody is told.
QuitSilently ==
    /\ serverLoop = "on" /\ ~running
    /\ serverLoop' = "draining"
    /\ UNCHANGED <<dialVars, callVars, peerVars, listenVars, conn>>

\* quit is closed: every peer is told to disconnect.
Quit ==
    /\ serverLoop = "on" /\ ~running
    /\ serverLoop' = "draining"
    /\ conn' = [c \in Conns |->
                  IF \E n \in PeerNodes : peers[n] = c
                  THEN [conn[c] EXCEPT !.step = "closing"] ELSE conn[c]]
    /\ UNCHANGED <<dialVars, callVars, peerVars, listenVars>>

DrainPeer(c) ==
    /\ serverLoop = "draining"
    /\ PeerGone(c)
    /\ UNCHANGED <<dialVars, callVars, serverLoop, inboundCount, trusted, listenVars>>

\* Mutant: run() returns with peers left.
ServerLoopDoneEarly ==
    /\ serverLoop = "draining"
    /\ StopDialLoop
    /\ serverLoop' = "off"
    /\ UNCHANGED <<callVars, peerVars, listenVars, conn>>

\* The deferred dialsched.stop() and loopWG.Done().
ServerLoopDone ==
    /\ serverLoop = "draining" /\ PeerNodes = {}
    /\ StopDialLoop
    /\ serverLoop' = "off"
    /\ UNCHANGED <<callVars, peerVars, listenVars, conn>>

-----------------------------------------------------------------------------
(* Calls of the user                                                       *)

AddPeer(n) ==
    /\ AddStatic(n)
    /\ UNCHANGED <<callVars, serverLoop, peerVars, listenVars, conn>>

\* Mutant: the peer is not told to disconnect.
RemovePeerKept(n) ==
    /\ serverLoop = "on" /\ removing = NoNode
    /\ RemoveStatic(n)
    /\ removing' = IF peers[n] = NoConn THEN NoNode ELSE n
    /\ UNCHANGED <<callVars, serverLoop, peers, inboundCount, trusted, listenVars, conn>>

\* The operation runs inside run(); the caller then waits for the Drop event.
RemovePeer(n) ==
    /\ serverLoop = "on" /\ removing = NoNode
    /\ RemoveStatic(n)
    /\ IF peers[n] = NoConn
       THEN UNCHANGED <<conn, removing>>
       ELSE /\ conn' = [conn EXCEPT ![peers[n]].step = "closing"]
            /\ removing' = n
    /\ UNCHANGED <<callVars, serverLoop, peers, inboundCount, trusted, listenVars>>

-----------------------------------------------------------------------------
DialLoopStep ==
    /\ ExpireHistory \/ \E n \in Nodes : DialDone(n)
    /\ UNCHANGED <<callVars, serverLoop, peerVars, listenVars, conn>>

ListenLoopStep ==
    \/ TakeSlot \/ AcceptFails \/ ListenLoopDone
    \/ \E a \in Addrs :
          RefuseInbound(a) \/ ThrottleExpires(a) \/ \E n \in Remotes : AcceptInbound(a, n)

ConnStep(c) ==
    \/ DialFails(c) \/ SetupConn(c) \/ NotRunning(c)
    \/ HandshakeDone(c) \/ HandshakeFails(c) \/ CheckpointQuits(c)
    \/ PostHandshake(c) \/ PeerRefused(c) \/ AddPeerCheckpoint(c)
    \/ PeerEnds(c) \/ DelPeer(c) \/ DrainPeer(c)

ServerNext ==
    \/ Start \/ StartFails \/ Stop \/ Stopped
    \/ ListenLoopStep \/ DialLoopStep \/ Quit \/ ServerLoopDone
    \/ \E c \in Conns : ConnStep(c)
    \/ \E n \in Nodes : StartDial(n)
    \/ \E n \in Statics : AddPeer(n)
    \/ \E n \in Removable : RemovePeer(n)
    \/ \E n \in MayTrust : AddTrusted(n) \/ RemoveTrusted(n)

ServerSpec == ServerInit /\ [][ServerNext]_serverVars

\* The loops run; a goroutine that waits in a select is served, which Go's
\* random choice among ready cases gives; Accept fails once the listener is
\* closed.  No dial, handshake or peer is assumed to end by itself.
ServerFairness ==
    /\ WF_serverVars(TakeSlot) /\ WF_serverVars(AcceptFails /\ ~running)
    /\ WF_serverVars(ListenLoopDone)
    /\ WF_serverVars(Quit) /\ SF_serverVars(ServerLoopDone) /\ WF_serverVars(Stopped)
    /\ WF_serverVars(\E n \in Nodes : StartDial(n))
    /\ \A c \in Conns :
          /\ WF_serverVars(NotRunning(c)) /\ WF_serverVars(CheckpointQuits(c))
          /\ SF_serverVars(DelPeer(c)) /\ WF_serverVars(DrainPeer(c))

LiveServerSpec == ServerSpec /\ ServerFairness

-----------------------------------------------------------------------------
ServerTypeOK ==
    /\ DialTypeOK
    /\ running \in BOOLEAN /\ caller \in {"down", "up", "stopping"}
    /\ starts \in 0 .. MaxStarts
    /\ serverLoop \in {"off", "on", "draining"}
    /\ peers \in [Nodes -> Conns \cup {NoConn}]
    /\ inboundCount \in Int
    /\ trusted \in SUBSET MayTrust
    /\ listenLoop \in {"off", "waiting", "accepting", "draining"}
    /\ slots \in Int
    /\ inboundHistory \in SUBSET Addrs
    /\ conn \in [Conns -> ConnType]
    /\ removing \in Nodes \cup {NoNode}

\* The goroutines that will send on delpeer are exactly those in the peer set,
\* each under its own node: the drain loop of run() waits for as many as will
\* come, also when a node is connected twice at once (p2p.go:590-627).
PeersExact ==
    /\ \A n \in PeerNodes : peers[n] \in LivePeers /\ conn[peers[n]].node = n
    /\ \A c \in LivePeers : peers[conn[c].node] = c

\* While run() serves, three copies of the peer set agree: its own, its count
\* of inbound peers, and what the dial scheduler was told (p2p.go:592-623,
\* dial.go:182-196).
BookkeepingAgrees ==
    serverLoop = "on" =>
        /\ connected = PeerNodes
        /\ inboundCount = Cardinality({n \in PeerNodes : conn[peers[n]].inbound})
        /\ dialPeers = Cardinality({n \in PeerNodes : ~conn[peers[n]].inbound})

\* Peers let in without the trusted flag never exceed the limits, although the
\* check of the first checkpoint is stale when the peer is added and trust comes
\* and goes (p2p.go:557-601, 630-650).
PeerLimits ==
    LET ordinary == {n \in PeerNodes : ~conn[peers[n]].trusted}
    IN  /\ Cardinality(ordinary) <= MaxPeers
        /\ Cardinality({n \in ordinary : conn[peers[n]].inbound}) <= maxInboundConns

\* Every slot is in the channel, held by the loop, or by a connection being set
\* up, so that the loop can collect them all when it ends (p2p.go:652-691).
SlotsConserved ==
    listenLoop # "off" =>
        slots + Cardinality(PendingInbound) + (IF listenLoop = "accepting" THEN 1 ELSE 0)
            = MaxPendingPeers

\* When Stop has returned no peer and no incoming connection is left; a dial
\* may still be (p2p.go:265-278, dial.go:124-128).
StopJoins ==
    caller = "down" =>
        /\ LivePeers = {} /\ PendingInbound = {}
        /\ dialLoop = "off" /\ serverLoop = "off" /\ listenLoop = "off"

\* The dial scheduler counts a dial as running exactly while a goroutine it
\* started is at work: one that outlived an earlier Stop and belongs to the
\* scheduler before reports nothing to it (dial.go:315-324, p2p.go:710-727).
DialsExact ==
    dialLoop = "on" =>
        \A n \in Nodes :
            n \in dialing \ finished <=>
                \E c \in Conns : /\ conn[c].step \in {"dialing"} \cup SetupSteps
                                 /\ HasTask(c) /\ conn[c].node = n

\* Stop returns, if every incoming connection leaves its handshakes: nothing
\* sets a deadline for them, and Stop waits for the listener, which waits for
\* every connection it let in (p2p.go:265-278, 663-667, 742, 756).
StopReturns ==
    (\A c \in Conns : []<>~(conn[c].inbound /\ InHandshake(c)))
      => (caller = "stopping" ~> caller = "down")

\* RemovePeer returns: the peer it waits for is dropped (p2p.go:205-225).
RemovePeerReturns == removing # NoNode ~> removing = NoNode
=============================================================================
