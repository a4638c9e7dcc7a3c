-------------------------------- MODULE Peer --------------------------------
(***************************************************************************)
(* One connected peer, internal/p2p/peer.go, from its launch to the end of *)
(* run().  run() supervises a read loop, a ping loop and a goroutine per   *)
(* protocol; they share the turn to write, the channels their errors go    *)
(* to, and p.closed, which ends them.  Disconnect is called from outside,  *)
(* also by the loop of the server.  P2PServer takes the whole of this to   *)
(* be one step, PeerEnds, and counts on Disconnect to bring it about.      *)
(***************************************************************************)
EXTENDS Integers, FiniteSets

CONSTANTS
    Protocols,     \* p.running
    PingBuffer,    \* capacity of pingRecv
    Callers        \* calls of Disconnect

ASSUME PeerAssumption == IsFiniteSet(Protocols) /\ PingBuffer \in Nat \ {0}

VARIABLES
    runLoop,       \* where run() is
    closed,        \* p.closed is closed
    writeStart,    \* the turn to write lies in writeStart
    writeErr,      \* what writeErr holds
    readErr,       \* what readErr holds
    protoErr,      \* how many errors protoErr holds
    wire,          \* p.rw: "up", "broken" or "closed"
    readLoop,
    offered,       \* the protocol whose channel readLoop sends to, if any
    pings,         \* how many signals pingRecv holds
    pingLoop,
    proto,         \* per protocol, what its goroutine does
    caller         \* per call of Disconnect, how far it is

errVars    == <<readErr, protoErr>>
turnVars   == <<writeStart, writeErr>>
readVars   == <<readLoop, offered, pings>>
peerVars   == <<runLoop, closed, turnVars, errVars, wire, readVars, pingLoop, proto, caller>>

ProtoStates == {"running",              \* inside its own code
                "wantsTurn", "writing", "sent", "unsent",   \* WriteMsg
                "reading",              \* ReadMsg
                "failed",               \* one of the two returned an error
                "returned", "done"}

PeerTypeOK ==
    /\ runLoop \in {"select", "closing", "hangingUp", "joining", "returned"}
    /\ closed \in BOOLEAN
    /\ writeStart \in BOOLEAN /\ writeErr \in {"none", "ok", "failed"}
    /\ readErr \in {"none", "failed", "disc"}
    /\ protoErr \in Nat
    /\ wire \in {"up", "broken", "closed"}
    /\ readLoop \in {"reading", "ping", "message", "done"}
    /\ offered \in SUBSET Protocols
    /\ pings \in 0 .. PingBuffer
    /\ pingLoop \in {"select", "reporting", "done"}
    /\ proto \in [Protocols -> ProtoStates]
    /\ caller \in [Callers -> {"idle", "calling", "returned"}]

\* run() has started the goroutines and given out the turn.
PeerInit ==
    /\ runLoop = "select" /\ closed = FALSE
    /\ writeStart = TRUE /\ writeErr = "none"
    /\ readErr = "none" /\ protoErr = 0
    /\ wire = "up"
    /\ readLoop = "reading" /\ offered = {} /\ pings = 0
    /\ pingLoop = "select"
    /\ proto = [p \in Protocols |-> "running"]
    /\ caller = [c \in Callers |-> "idle"]

\* Mutant: no room for the ping loop.
ProtoErrCapacityProtocols == Cardinality(Protocols)

\* newPeer: one place for every protocol and one for the ping loop.
ProtoErrCapacity == Cardinality(Protocols) + 1

Move(p, from, to) == proto[p] = from /\ proto' = [proto EXCEPT ![p] = to]

-----------------------------------------------------------------------------
(* run()                                                                   *)

\* The write went well: the turn is given out again.
PassTurn ==
    /\ runLoop = "select" /\ writeErr = "ok" /\ ~writeStart
    /\ writeErr' = "none" /\ writeStart' = TRUE
    /\ UNCHANGED <<runLoop, closed, errVars, wire, readVars, pingLoop, proto, caller>>

\* break loop, for an error in one of the three channels.
Break ==
    /\ runLoop = "select"
    /\ \/ writeErr = "failed" /\ writeErr' = "none" /\ UNCHANGED <<writeStart, errVars>>
       \/ readErr # "none" /\ readErr' = "none" /\ UNCHANGED <<turnVars, protoErr>>
       \/ protoErr > 0 /\ protoErr' = protoErr - 1 /\ UNCHANGED <<turnVars, readErr>>
    /\ runLoop' = "closing"
    /\ UNCHANGED <<closed, wire, readVars, pingLoop, proto, caller>>

CloseClosed ==
    /\ runLoop = "closing"
    /\ closed' = TRUE /\ runLoop' = "hangingUp"
    /\ UNCHANGED <<turnVars, errVars, wire, readVars, pingLoop, proto, caller>>

\* p.rw.close(reason)
CloseWire ==
    /\ runLoop = "hangingUp"
    /\ wire' = "closed" /\ runLoop' = "joining"
    /\ UNCHANGED <<closed, turnVars, errVars, readVars, pingLoop, proto, caller>>

\* p.wg.Wait()
Return ==
    /\ runLoop = "joining"
    /\ readLoop = "done" /\ pingLoop = "done" /\ \A p \in Protocols : proto[p] = "done"
    /\ runLoop' = "returned"
    /\ UNCHANGED <<closed, turnVars, errVars, wire, readVars, pingLoop, proto, caller>>

-----------------------------------------------------------------------------
(* Disconnect                                                              *)

Disconnect(c) ==
    /\ caller[c] = "idle" /\ caller' = [caller EXCEPT ![c] = "calling"]
    /\ UNCHANGED <<runLoop, closed, turnVars, errVars, wire, readVars, pingLoop, proto>>

\* run() receives from p.disc.
DisconnectTaken(c) ==
    /\ caller[c] = "calling" /\ caller' = [caller EXCEPT ![c] = "returned"]
    /\ runLoop = "select" /\ runLoop' = "closing"
    /\ UNCHANGED <<closed, turnVars, errVars, wire, readVars, pingLoop, proto>>

\* Mutant: Disconnect does not watch p.closed.
DisconnectUnheard(c) == FALSE /\ UNCHANGED peerVars

DisconnectClosed(c) ==
    /\ caller[c] = "calling" /\ caller' = [caller EXCEPT ![c] = "returned"]
    /\ closed
    /\ UNCHANGED <<runLoop, closed, turnVars, errVars, wire, readVars, pingLoop, proto>>

-----------------------------------------------------------------------------
(* readLoop and handle                                                     *)

\* The remote hangs up, or the network fails.
WireBreaks ==
    /\ wire = "up" /\ wire' = "broken"
    /\ UNCHANGED <<runLoop, closed, turnVars, errVars, readVars, pingLoop, proto, caller>>

ReadPing ==
    /\ readLoop = "reading" /\ wire = "up"
    /\ readLoop' = "ping"
    /\ UNCHANGED <<runLoop, closed, turnVars, errVars, wire, offered, pings, pingLoop, proto, caller>>

\* Mutant: a ping waits for the ping loop only.
PutPingWaiting ==
    /\ readLoop = "ping" /\ readLoop' = "reading"
    /\ pings < PingBuffer /\ pings' = pings + 1
    /\ UNCHANGED <<runLoop, closed, turnVars, errVars, wire, offered, pingLoop, proto, caller>>

PutPing ==
    /\ readLoop = "ping" /\ readLoop' = "reading"
    /\ \/ pings < PingBuffer /\ pings' = pings + 1
       \/ closed /\ UNCHANGED pings
    /\ UNCHANGED <<runLoop, closed, turnVars, errVars, wire, offered, pingLoop, proto, caller>>

\* The loop ends: the remote asked to disconnect, or used a code of no protocol.
ReadEnds(e) ==
    /\ readLoop = "reading" /\ wire = "up"
    /\ readErr' = e /\ readLoop' = "done"
    /\ UNCHANGED <<runLoop, closed, turnVars, protoErr, wire, offered, pings, pingLoop, proto, caller>>

ReadFails ==
    /\ readLoop = "reading" /\ wire # "up"
    /\ readErr' = "failed" /\ readLoop' = "done"
    /\ UNCHANGED <<runLoop, closed, turnVars, protoErr, wire, offered, pings, pingLoop, proto, caller>>

ReadMessage(p) ==
    /\ readLoop = "reading" /\ wire = "up"
    /\ readLoop' = "message" /\ offered' = {p}
    /\ UNCHANGED <<runLoop, closed, turnVars, errVars, wire, pings, pingLoop, proto, caller>>

\* The protocol is in ReadMsg and takes the message.
Deliver(p) ==
    /\ p \in offered /\ Move(p, "reading", "running")
    /\ readLoop' = "reading" /\ offered' = {}
    /\ UNCHANGED <<runLoop, closed, turnVars, errVars, wire, pings, pingLoop, caller>>

MessageDropped ==
    /\ readLoop = "message" /\ closed
    /\ readErr' = "failed" /\ readLoop' = "done" /\ offered' = {}
    /\ UNCHANGED <<runLoop, closed, turnVars, protoErr, wire, pings, pingLoop, proto, caller>>

-----------------------------------------------------------------------------
(* pingLoop; a ping that is sent changes nothing                           *)

\* Mutant: the loop ends with the signal in the channel.
SendPongOnce ==
    /\ pingLoop = "select" /\ pings > 0
    /\ pings' = pings - 1 /\ pingLoop' = "done"
    /\ UNCHANGED <<runLoop, closed, turnVars, errVars, wire, readLoop, offered, proto, caller>>

SendPong ==
    /\ pingLoop = "select" /\ pings > 0
    /\ pings' = pings - 1
    /\ UNCHANGED <<runLoop, closed, turnVars, errVars, wire, readLoop, offered, pingLoop, proto, caller>>

PingFails ==
    /\ pingLoop = "select" /\ wire # "up"
    /\ pingLoop' = "reporting"
    /\ UNCHANGED <<runLoop, closed, turnVars, errVars, wire, readVars, proto, caller>>

PingReports ==
    /\ pingLoop = "reporting" /\ protoErr < ProtoErrCapacity
    /\ protoErr' = protoErr + 1 /\ pingLoop' = "done"
    /\ UNCHANGED <<runLoop, closed, turnVars, readErr, wire, readVars, proto, caller>>

PingClosed ==
    /\ pingLoop = "select" /\ closed
    /\ pingLoop' = "done"
    /\ UNCHANGED <<runLoop, closed, turnVars, errVars, wire, readVars, proto, caller>>

-----------------------------------------------------------------------------
(* A protocol: its own code calls WriteMsg and ReadMsg until it returns    *)

WriteMsg(p) ==
    /\ Move(p, "running", "wantsTurn")
    /\ UNCHANGED <<runLoop, closed, turnVars, errVars, wire, readVars, pingLoop, caller>>

\* Mutant: the turn is looked at and not taken.
TakeTurnKept(p) ==
    /\ Move(p, "wantsTurn", "writing") /\ writeStart
    /\ UNCHANGED <<runLoop, closed, turnVars, errVars, wire, readVars, pingLoop, caller>>

TakeTurn(p) ==
    /\ Move(p, "wantsTurn", "writing")
    /\ writeStart /\ writeStart' = FALSE
    /\ UNCHANGED <<runLoop, closed, writeErr, errVars, wire, readVars, pingLoop, caller>>

WriteClosed(p) ==
    /\ Move(p, "wantsTurn", "failed") /\ closed
    /\ UNCHANGED <<runLoop, closed, turnVars, errVars, wire, readVars, pingLoop, caller>>

Write(p) ==
    /\ Move(p, "writing", IF wire = "up" THEN "sent" ELSE "unsent")
    /\ UNCHANGED <<runLoop, closed, turnVars, errVars, wire, readVars, pingLoop, caller>>

\* rw.werr <- err: the turn goes back to run().
ReportWrite(p) ==
    /\ writeErr = "none"
    /\ \/ Move(p, "sent", "running") /\ writeErr' = "ok"
       \/ Move(p, "unsent", "failed") /\ writeErr' = "failed"
    /\ UNCHANGED <<runLoop, closed, writeStart, errVars, wire, readVars, pingLoop, caller>>

ReadMsg(p) ==
    /\ Move(p, "running", "reading")
    /\ UNCHANGED <<runLoop, closed, turnVars, errVars, wire, readVars, pingLoop, caller>>

ReadClosed(p) ==
    /\ Move(p, "reading", "failed") /\ closed
    /\ UNCHANGED <<runLoop, closed, turnVars, errVars, wire, readVars, pingLoop, caller>>

\* Run returns, with an error or without.
ProtocolReturns(p) ==
    /\ Move(p, "running", "returned") \/ Move(p, "failed", "returned")
    /\ UNCHANGED <<runLoop, closed, turnVars, errVars, wire, readVars, pingLoop, caller>>

\* p.protoErr <- err, also when there was none.
ProtocolReports(p) ==
    /\ Move(p, "returned", "done")
    /\ protoErr < ProtoErrCapacity /\ protoErr' = protoErr + 1
    /\ UNCHANGED <<runLoop, closed, turnVars, readErr, wire, readVars, pingLoop, caller>>

-----------------------------------------------------------------------------
RunStep  == PassTurn \/ Break \/ CloseClosed \/ CloseWire \/ Return
ReadStep == ReadPing \/ PutPing \/ ReadEnds("failed") \/ ReadEnds("disc") \/ ReadFails
MessageStep == MessageDropped \/ \E p \in Protocols : ReadMessage(p) \/ Deliver(p)
PingStep == SendPong \/ PingFails \/ PingReports \/ PingClosed
ProtocolStep(p) ==
    \/ WriteMsg(p) \/ TakeTurn(p) \/ WriteClosed(p) \/ Write(p) \/ ReportWrite(p)
    \/ ReadMsg(p) \/ ReadClosed(p) \/ ProtocolReturns(p) \/ ProtocolReports(p)
CallerStep(c) == Disconnect(c) \/ DisconnectTaken(c) \/ DisconnectClosed(c)

PeerNext ==
    \/ RunStep \/ ReadStep \/ MessageStep \/ PingStep \/ WireBreaks
    \/ \E p \in Protocols : ProtocolStep(p)
    \/ \E c \in Callers : CallerStep(c)

PeerSpec == PeerInit /\ [][PeerNext]_peerVars

\* Goroutines run, and a select whose case stays ready takes it.  Of a
\* protocol it is asked that it calls ReadMsg again and again, and returns
\* after an error; nothing is asked of the remote or of the network.
PeerFairness ==
    /\ WF_peerVars(PassTurn) /\ WF_peerVars(Break)
    /\ WF_peerVars(CloseClosed) /\ WF_peerVars(CloseWire) /\ WF_peerVars(Return)
    /\ WF_peerVars(PutPing) /\ WF_peerVars(ReadFails) /\ WF_peerVars(MessageDropped)
    /\ WF_peerVars(PingReports) /\ WF_peerVars(PingClosed) /\ WF_peerVars(SendPong)
    /\ \A p \in Protocols :
          /\ WF_peerVars(TakeTurn(p) \/ WriteClosed(p))
          /\ WF_peerVars(Write(p)) /\ WF_peerVars(ReportWrite(p))
          /\ SF_peerVars(ReadMsg(p)) /\ WF_peerVars(ReadClosed(p)) /\ WF_peerVars(Deliver(p))
          /\ WF_peerVars(proto[p] = "failed" /\ ProtocolReturns(p))
          /\ WF_peerVars(ProtocolReports(p))
    /\ \A c \in Callers : WF_peerVars(DisconnectTaken(c) \/ DisconnectClosed(c))

LivePeerSpec == PeerSpec /\ PeerFairness

-----------------------------------------------------------------------------
\* The turn to write is in exactly one place while run() serves: two protocols
\* never write at once, and none waits for a turn that was lost; afterwards it
\* is in one place at most (peer.go:216-231, 397-414).
HoldsTurn(p) == proto[p] \in {"writing", "sent", "unsent"}
TurnConserved ==
    /\ \A p, q \in Protocols : HoldsTurn(p) /\ HoldsTurn(q) => p = q
    /\ writeStart => writeErr = "none" /\ \A p \in Protocols : ~HoldsTurn(p)
    /\ writeErr # "none" => \A p \in Protocols : ~HoldsTurn(p)
    /\ runLoop = "select" =>
          writeStart \/ writeErr # "none" \/ \E p \in Protocols : HoldsTurn(p)

\* Nobody who reports an error has to wait for run(), which may no longer
\* receive: the channels are large enough (peer.go:192, 209-210, 261, 373, 410).
ReportsNeverBlock ==
    /\ pingLoop = "reporting" => protoErr < ProtoErrCapacity
    /\ \A p \in Protocols :
          /\ proto[p] = "returned" => protoErr < ProtoErrCapacity
          /\ proto[p] \in {"sent", "unsent"} => writeErr = "none"
    /\ readLoop # "done" => readErr = "none"

\* Whatever ends a peer, a broken connection, a protocol that returned or a
\* call of Disconnect, run() stops all its goroutines and returns
\* (peer.go:221-248).
RunReturns ==
    (wire # "up" \/ (\E p \in Protocols : proto[p] = "returned")
                 \/ (\E c \in Callers : caller[c] = "calling"))
        ~> runLoop = "returned"

\* Disconnect returns, also when the peer is ending by itself: the server calls
\* it from its own loop (peer.go:164-173, p2p.go:213, 622).
DisconnectReturns == \A c \in Callers : caller[c] = "calling" ~> caller[c] = "returned"

\* The read loop is not held up for ever by a full ping buffer or by a protocol
\* that has stopped reading (peer.go:291-317).
ReadLoopMoves == readLoop \in {"ping", "message"} ~> readLoop \in {"reading", "done"}
=============================================================================
