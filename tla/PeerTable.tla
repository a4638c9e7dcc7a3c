----------------------------- MODULE PeerTable -----------------------------
(***************************************************************************)
(* The peer table of the plain TCP server (internal/p2p/network.go): its   *)
(* listener, a handler per accepted connection, the goroutines that dial   *)
(* seeds (seeds.go), and peers.json, which lists the table for the command *)
(* line.  The addresses met on the way go to the address book.             *)
(***************************************************************************)
EXTENDS AddressBook

CONSTANTS
    listener,      \* the goroutine of StartListening
    Seeders,       \* goroutines that call ConnectToPeer
    Conns,         \* connections, each used once; also their handlers' names
    MaxStarts      \* bound: starts of the process

Workers == Goroutines \cup Conns

ASSUME TableAssumption ==
    /\ Goroutines = {listener} \cup Seeders /\ MaxStarts \in Nat
    /\ listener \notin Seeders /\ Goroutines \cap Conns = {}
    /\ Nobody \notin Workers

VARIABLES
    starts,        \* how often the process was started
    running,       \* BOOLEAN: the process runs
    Peers,         \* s.Peers: the connection under each key, Nobody if absent
    Mu,            \* s.Mu: who is inside savePeersToDisk
    peersFile,     \* peers.json: the keys it lists
    conn,          \* per connection: [state, key]
    task,          \* per goroutine: [step, key, conn, list]
    stale          \* history: the table changed, or a write failed, with no
                   \* save to follow

tableVars == <<starts, running, Peers, Mu, peersFile, conn, task, stale, bookVars>>

NoTask == [step |-> "idle", key |-> Nobody, conn |-> Nobody, list |-> {}]
Unused == [state |-> "unused", key |-> Nobody]

Listed == {k \in PeerAddress : Peers[k] # Nobody}

NoPeers == [k \in PeerAddress |-> Nobody]

TableTypeOK ==
    /\ BookTypeOK
    /\ starts \in Nat /\ running \in BOOLEAN /\ stale \in BOOLEAN
    /\ Peers \in [PeerAddress -> Conns \cup {Nobody}]
    /\ Mu \in Workers \cup {Nobody}
    /\ peersFile \subseteq PeerAddress
    /\ conn \in [Conns -> [state : {"unused", "open", "closed"}, key : PeerAddress \cup {Nobody}]]
    /\ task \in [Workers -> [step : {"idle", "accepted", "recording", "dialling", "serving",
                                    "closed", "changed", "listed", "opened", "saved"},
                             key : PeerAddress \cup {Nobody}, conn : Conns \cup {Nobody},
                             list : SUBSET PeerAddress]]

TableInit ==
    /\ starts = 0 /\ running = FALSE
    /\ Peers = NoPeers /\ Mu = Nobody /\ peersFile = {} /\ stale = FALSE
    /\ conn = [c \in Conns |-> Unused] /\ task = [g \in Workers |-> NoTask]
    /\ BookInit

\* peers.json still lists the peers of the last process.
NewServer ==
    /\ ~running /\ starts < MaxStarts
    /\ running' = TRUE /\ starts' = starts + 1
    /\ NewAddrManager
    /\ UNCHANGED <<Peers, Mu, peersFile, conn, task, stale>>

Kill ==
    /\ running /\ running' = FALSE
    /\ ManagerGone
    /\ Peers' = NoPeers /\ Mu' = Nobody /\ stale' = TRUE
    /\ conn' = [c \in Conns |-> Unused] /\ task' = [g \in Workers |-> NoTask]
    /\ UNCHANGED <<starts, peersFile>>

Step(g, from, to) == task[g].step = from /\ task' = [task EXCEPT ![g].step = to]

-----------------------------------------------------------------------------
(* savePeersToDisk, all of it under s.Mu                                   *)

\* Mutant: the list is made before the lock is taken for the write.
ListPeersUnlocked(g) ==
    /\ task[g].step = "changed"
    /\ task' = [task EXCEPT ![g].step = "listed", ![g].list = Listed]
    /\ UNCHANGED <<starts, running, Peers, Mu, peersFile, conn, stale, bookVars>>

ListPeers(g) ==
    /\ task[g].step = "changed"
    /\ Mu = Nobody /\ Mu' = g
    /\ task' = [task EXCEPT ![g].step = "listed", ![g].list = Listed]
    /\ UNCHANGED <<starts, running, Peers, peersFile, conn, stale, bookVars>>

OpenPeersFile(g) ==
    /\ Step(g, "listed", "opened")
    /\ peersFile' = File!Truncated
    /\ UNCHANGED <<starts, running, Peers, Mu, conn, stale, bookVars>>

\* What follows: the handler starts, the seed's address is recorded, or nothing.
AfterSave(g) ==
    task' = CASE g = listener  -> [task EXCEPT ![g] = NoTask, ![task[g].conn].step = "serving"]
              [] g \in Seeders -> [task EXCEPT ![g].step = "saved"]
              [] g \in Conns   -> [task EXCEPT ![g] = NoTask]

WritePeersFile(g) ==
    /\ task[g].step = "opened"
    /\ peersFile' \in File!Written(peersFile, task[g].list)
    /\ AfterSave(g) /\ Mu' = Nobody /\ stale' = FALSE
    /\ UNCHANGED <<starts, running, Peers, conn, bookVars>>

\* The error of os.WriteFile is dropped.
WriteFails(g) ==
    /\ task[g].step \in {"listed", "opened"}
    /\ AfterSave(g) /\ Mu' = Nobody /\ stale' = TRUE
    /\ UNCHANGED <<starts, running, Peers, peersFile, conn, bookVars>>

-----------------------------------------------------------------------------
(* StartListening and handleConnection                                     *)

Accept(c, key) ==
    /\ running /\ task[listener] = NoTask /\ conn[c] = Unused
    /\ conn' = [conn EXCEPT ![c] = [state |-> "open", key |-> key]]
    /\ task' = [task EXCEPT ![listener] = [step |-> "accepted", key |-> key,
                                           conn |-> c, list |-> {}]]
    /\ UNCHANGED <<starts, running, Peers, Mu, peersFile, stale, bookVars>>

\* AddAddress, called by the listener first and by ConnectToPeer last.
RecordAddress(g) ==
    /\ Step(g, IF g = listener THEN "accepted" ELSE "saved", "recording")
    /\ AddAddress(g, task[g].key)
    /\ UNCHANGED <<starts, running, Peers, Mu, peersFile, conn, stale>>

\* A key that is taken keeps its connection.
Register ==
    /\ Step(listener, "recording", "changed") /\ saving[listener] = NotSaving
    /\ Mu = Nobody
    /\ Peers' = [Peers EXCEPT ![task[listener].key] =
                     IF @ = Nobody THEN task[listener].conn ELSE @]
    /\ UNCHANGED <<starts, running, Mu, peersFile, conn, stale, bookVars>>

\* The stream ends, or Broadcast has closed it.
HandlerEnds(c) ==
    /\ Step(c, "serving", "closed")
    /\ conn' = [conn EXCEPT ![c].state = "closed"]
    /\ UNCHANGED <<starts, running, Peers, Mu, peersFile, stale, bookVars>>

\* delete(s.Peers, key): whichever connection is there.
Deregister(c) ==
    /\ Step(c, "closed", "changed") /\ Mu = Nobody
    /\ Peers' = [Peers EXCEPT ![conn[c].key] = Nobody]
    /\ UNCHANGED <<starts, running, Mu, peersFile, conn, stale, bookVars>>

-----------------------------------------------------------------------------
(* Broadcast and ConnectToPeer                                             *)

\* Connections that cannot be written leave the table; peers.json is not saved.
Broadcast ==
    /\ running /\ Mu = Nobody
    /\ \E broken \in SUBSET Listed \ {{}} :
          /\ Peers' = [k \in PeerAddress |-> IF k \in broken THEN Nobody ELSE Peers[k]]
          /\ conn' = [c \in Conns |-> IF \E k \in broken : Peers[k] = c
                                      THEN [conn[c] EXCEPT !.state = "closed"] ELSE conn[c]]
    /\ stale' = TRUE
    /\ UNCHANGED <<starts, running, Mu, peersFile, task, bookVars>>

ConnectToPeer(g, key) ==
    /\ running /\ task[g] = NoTask
    /\ Mu = Nobody /\ Peers[key] = Nobody
    /\ task' = [task EXCEPT ![g].step = "dialling", ![g].key = key]
    /\ UNCHANGED <<starts, running, Peers, Mu, peersFile, conn, stale, bookVars>>

\* The check is not repeated, and nothing reads this connection.
Connected(g, c) ==
    /\ Step(g, "dialling", "changed") /\ Mu = Nobody
    /\ conn[c] = Unused
    /\ conn' = [conn EXCEPT ![c] = [state |-> "open", key |-> task[g].key]]
    /\ Peers' = [Peers EXCEPT ![task[g].key] = c]
    /\ UNCHANGED <<starts, running, Mu, peersFile, stale, bookVars>>

ConnectReturns(g) ==
    /\ \/ task[g].step = "dialling"        \* net.Dial fails
       \/ task[g].step = "recording" /\ saving[g] = NotSaving
    /\ task' = [task EXCEPT ![g] = NoTask]
    /\ UNCHANGED <<starts, running, Peers, Mu, peersFile, conn, stale, bookVars>>

-----------------------------------------------------------------------------
TableNext ==
    \/ NewServer \/ Kill \/ Register \/ Broadcast
    \/ \E g \in Workers : ListPeers(g) \/ OpenPeersFile(g) \/ WritePeersFile(g) \/ WriteFails(g)
    \/ \E g \in Goroutines : RecordAddress(g)
    \/ \E c \in Conns : (\E k \in PeerAddress : Accept(c, k)) \/ HandlerEnds(c) \/ Deregister(c)
    \/ \E g \in Seeders : \/ (\E k \in PeerAddress : ConnectToPeer(g, k)) \/ ConnectReturns(g)
                          \/ (\E c \in Conns : Connected(g, c))
    \/ BookStep /\ UNCHANGED <<starts, running, Peers, Mu, peersFile, conn, task, stale>>

TableSpec == TableInit /\ [][TableNext]_tableVars

-----------------------------------------------------------------------------
\* Once every goroutine that has changed the table has saved it, peers.json lists
\* exactly the table, in whatever order they did; what Broadcast drops is listed
\* until the next save (network.go:66-82, 124-133, 145-152, 223-229).
PeersFileFresh ==
    ~stale /\ (\A g \in Workers : task[g].step \notin {"changed", "listed", "opened"})
        => peersFile = Listed
=============================================================================
