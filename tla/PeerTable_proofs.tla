-------------------------- MODULE PeerTable_proofs --------------------------
(***************************************************************************)
(* For any number of seeders, connections, addresses and restarts: the     *)
(* address book keeps what it has saved, and peers.json lists the table.   *)
(***************************************************************************)
EXTENDS PeerTable, TLAPS

\* Whoever is inside AddAddress holds am.mu and has marshalled all of the map;
\* the map, or the file while the process is down, has every address saved.
BookInv ==
    /\ \A g \in Goroutines :
          /\ saving[g].step = "no" => saving[g] = NotSaving
          /\ saving[g].step # "no" =>
              /\ mu = g /\ running
              /\ saving[g].data = Addresses /\ saving[g].key \in Addresses
              /\ saving[g].step = "opened" => addrFile = {}
    /\ running /\ ~spoilt => added \subseteq Addresses
    /\ AddressesKept

\* Whoever is inside savePeersToDisk holds s.Mu and has listed all of the table.
SaveInv ==
    \A g \in Workers :
        task[g].step \in {"listed", "opened"} =>
            /\ Mu = g /\ task[g].list = Listed
            /\ task[g].step = "opened" => peersFile = {}

\* Nobody is at work while the process is down, and a goroutine that is to record
\* an address knows which.
AtWork ==
    \A g \in Workers :
        /\ task[g].step # "idle" => running
        /\ g \in Goroutines /\ task[g].step # "idle" => task[g].key \in PeerAddress

TableInv == TableTypeOK /\ BookInv /\ SaveInv /\ AtWork /\ PeersFileFresh

tableOnly == <<starts, running, Peers, Mu, peersFile, conn, task, stale>>

-----------------------------------------------------------------------------
(* What a save leaves its goroutine to do                                  *)

Task == [step : {"idle", "accepted", "recording", "dialling", "serving", "closed",
                 "changed", "listed", "opened", "saved"},
         key : PeerAddress \cup {Nobody}, conn : Conns \cup {Nobody},
         list : SUBSET PeerAddress]

LEMMA AfterSaveEffect ==
    ASSUME TableTypeOK, NEW g \in Workers, AfterSave(g)
    PROVE  /\ task' \in [Workers -> Task]
           /\ task'[g].step \in {"idle", "saved"} /\ task'[g].key \in {task[g].key, Nobody}
           /\ task'[g].step = "saved" => task'[g].key = task[g].key
           /\ \A h \in Workers \ {g} :
                 \/ task'[h] = task[h]
                 \/ h \in Conns /\ task'[h].step = "serving"
<1> USE TableAssumption DEF Workers
<1>1. task \in [Workers -> Task]
  BY DEF TableTypeOK, Task
<1>2. NoTask \in Task
  BY DEF NoTask, Task
<1>3. CASE g = listener
  <2>1. task' = [task EXCEPT ![g] = NoTask, ![task[g].conn].step = "serving"]
    BY <1>3 DEF AfterSave
  <2> DEFINE c == task[g].conn
             t == [task EXCEPT ![g] = NoTask]
  <2>2. c \in Conns \cup {Nobody} /\ c # g
    BY <1>1, <1>3 DEF Task
  <2>3. t \in [Workers -> Task] /\ t[g] = NoTask /\ \A h \in Workers \ {g} : t[h] = task[h]
    BY <1>1, <1>2
  <2>4. task' = [t EXCEPT ![c].step = "serving"]
    BY <2>1
  <2> HIDE DEF t, c
  <2>5. CASE c = Nobody
    <3>1. task' = t
      BY <2>3, <2>4, <2>5
    <3> QED BY <2>3, <3>1 DEF NoTask
  <2>6. CASE c \in Conns
    <3>1. [t[c] EXCEPT !.step = "serving"] \in Task
      BY <2>3, <2>6 DEF Task
    <3>2. task' \in [Workers -> Task] /\ task'[g] = NoTask
      BY <2>2, <2>3, <2>4, <2>6, <3>1
    <3>3. task'[c].step = "serving" /\ \A h \in Workers \ {g, c} : task'[h] = task[h]
      BY <2>2, <2>3, <2>4, <2>6 DEF Task
    <3> QED BY <2>6, <3>2, <3>3 DEF NoTask
  <2> QED BY <2>2, <2>5, <2>6
<1>4. CASE g \in Seeders
  <2>1. task' = [task EXCEPT ![g].step = "saved"]
    BY <1>4 DEF AfterSave
  <2> QED BY <1>1, <1>4, <2>1 DEF Task
<1>5. CASE g \in Conns
  <2>1. task' = [task EXCEPT ![g] = NoTask]
    BY <1>5 DEF AfterSave
  <2> QED BY <1>1, <1>2, <1>5, <2>1 DEF NoTask
<1> QED BY <1>3, <1>4, <1>5

-----------------------------------------------------------------------------
(* Types                                                                   *)

LEMMA WrittenTyped ==
    ASSUME NEW content, NEW data, NEW result \in File!Written(content, data)
    PROVE  result \in {data, {}} /\ (content = {} => result = data)
BY DEF File!Written

LEMMA BookTyped ==
    ASSUME BookTypeOK, BookInv, NEW g \in Goroutines,
           \/ OpenAddrFile(g) \/ SaveToDisk(g) \/ SaveToDiskFails(g)
           \/ \E k \in PeerAddress : AddAddress(g, k)
    PROVE  BookTypeOK'
<1> USE DEF BookTypeOK
<1>1. CASE OpenAddrFile(g)
  BY <1>1 DEF OpenAddrFile, File!Truncated
<1>2. CASE SaveToDisk(g)
  <2>1. addrFile' \in {saving[g].data, {}}
    BY <1>2, WrittenTyped DEF SaveToDisk
  <2>2. saving[g].key \in PeerAddress /\ saving[g].data \in SUBSET PeerAddress
    BY <1>2 DEF SaveToDisk, BookInv
  <2> QED BY <1>2, <2>1, <2>2 DEF SaveToDisk, NotSaving
<1>3. CASE SaveToDiskFails(g)
  BY <1>3 DEF SaveToDiskFails, NotSaving
<1>4. CASE \E k \in PeerAddress : AddAddress(g, k)
  BY <1>4 DEF AddAddress, Marshalled
<1> QED BY <1>1, <1>2, <1>3, <1>4

LEMMA TaskTyped ==
    ASSUME TableTypeOK, NEW g \in Workers, NEW r \in Task, task' = [task EXCEPT ![g] = r]
    PROVE  task' \in [Workers -> Task]
BY DEF TableTypeOK, Task

LEMMA StepTyped ==
    ASSUME TableTypeOK, NEW g \in Workers, NEW a, NEW b, Step(g, a, b),
           b \in {"recording", "changed", "opened", "closed"}
    PROVE  task' \in [Workers -> Task]
<1>1. task[g] \in Task /\ [task[g] EXCEPT !.step = b] \in Task
  BY DEF TableTypeOK, Task
<1>2. task' = [task EXCEPT ![g] = [task[g] EXCEPT !.step = b]]
  BY DEF Step
<1> QED BY <1>1, <1>2, TaskTyped

LEMMA TableTyped ==
    ASSUME TableTypeOK, BookInv, AtWork, [TableNext]_tableVars
    PROVE  TableTypeOK'
<1> USE TableAssumption DEF Workers
<1>t. /\ BookTypeOK /\ task \in [Workers -> Task] /\ conn \in [Conns -> [state :
            {"unused", "open", "closed"}, key : PeerAddress \cup {Nobody}]]
  BY DEF TableTypeOK, Task
<1>1. CASE NewServer
  BY <1>1 DEF NewServer, NewAddrManager, TableTypeOK, BookTypeOK
<1>2. CASE Kill
  BY <1>2 DEF Kill, ManagerGone, NoPeers, Unused, NoTask, NotSaving, TableTypeOK, BookTypeOK
<1>3. CASE Register
  <2>1. task' \in [Workers -> Task]
    BY <1>3, StepTyped DEF Register
  <2>2. task[listener].conn \in Conns \cup {Nobody}
    BY <1>t DEF Task
  <2>3. Peers' \in [PeerAddress -> Conns \cup {Nobody}]
    BY <1>3, <2>2 DEF Register, TableTypeOK
  <2> QED BY <1>3, <2>1, <2>3 DEF Register, TableTypeOK, BookTypeOK, bookVars, Task
<1>4. CASE Broadcast
  BY <1>4 DEF Broadcast, TableTypeOK, BookTypeOK, bookVars
<1>5. ASSUME NEW g \in Workers, ListPeers(g) \/ OpenPeersFile(g)
      PROVE  TableTypeOK'
  <2>1. CASE ListPeers(g)
    <3>1. Listed \in SUBSET PeerAddress /\ task[g] \in Task
      BY <1>t DEF Listed
    <3>4. [task[g] EXCEPT !.step = "listed", !.list = Listed] \in Task
      BY <3>1 DEF Task
    <3>2. task' = [task EXCEPT ![g] = [task[g] EXCEPT !.step = "listed", !.list = Listed]]
      BY <2>1 DEF ListPeers
    <3>3. task' \in [Workers -> Task]
      BY <3>2, <3>4, TaskTyped
    <3> QED BY <2>1, <3>3 DEF ListPeers, TableTypeOK, BookTypeOK, bookVars, Task
  <2>2. CASE OpenPeersFile(g)
    <3>1. task' \in [Workers -> Task]
      BY <2>2, StepTyped DEF OpenPeersFile
    <3> QED BY <2>2, <3>1 DEF OpenPeersFile, File!Truncated, TableTypeOK, BookTypeOK, bookVars, Task
  <2> QED BY <1>5, <2>1, <2>2
<1>6. ASSUME NEW g \in Workers, WritePeersFile(g) \/ WriteFails(g)
      PROVE  TableTypeOK'
  <2>1. task' \in [Workers -> Task]
    BY <1>6, AfterSaveEffect DEF WritePeersFile, WriteFails
  <2>2. peersFile' \subseteq PeerAddress
    <3>1. CASE WritePeersFile(g)
      <4>1. peersFile' \in {task[g].list, {}}
        BY <3>1, WrittenTyped DEF WritePeersFile
      <4> QED BY <1>t, <4>1 DEF Task
    <3>2. CASE WriteFails(g)
      BY <3>2 DEF WriteFails, TableTypeOK
    <3> QED BY <1>6, <3>1, <3>2
  <2>3. BookTypeOK'
    BY <1>t, <1>6 DEF WritePeersFile, WriteFails, BookTypeOK, bookVars
  <2> QED BY <1>6, <2>1, <2>2, <2>3 DEF WritePeersFile, WriteFails, TableTypeOK, Task
<1>7. ASSUME NEW g \in Goroutines, RecordAddress(g)
      PROVE  TableTypeOK'
  <2>1. task[g].key \in PeerAddress
    BY <1>7 DEF RecordAddress, Step, AtWork
  <2>2. BookTypeOK'
    BY <1>t, <1>7, <2>1, BookTyped DEF RecordAddress
  <2> QED BY <1>7, <2>2 DEF RecordAddress, Step, TableTypeOK
<1>8. ASSUME NEW c \in Conns, NEW k \in PeerAddress, Accept(c, k)
      PROVE  TableTypeOK'
  <2> DEFINE r == [step |-> "accepted", key |-> k, conn |-> c, list |-> {}]
  <2>1. r \in Task
    BY DEF Task
  <2>2. task' = [task EXCEPT ![listener] = r]
    BY <1>8 DEF Accept
  <2>3. task' \in [Workers -> Task]
    BY <2>1, <2>2, TaskTyped
  <2> QED BY <1>8, <2>3 DEF Accept, TableTypeOK, BookTypeOK, bookVars, Task
<1>9. ASSUME NEW c \in Conns, HandlerEnds(c) \/ Deregister(c)
      PROVE  TableTypeOK'
  <2>1. task' \in [Workers -> Task]
    BY <1>9, StepTyped DEF HandlerEnds, Deregister
  <2>2. Peers' \in [PeerAddress -> Conns \cup {Nobody}]
    BY <1>9 DEF HandlerEnds, Deregister, TableTypeOK
  <2>3. conn' \in [Conns -> [state : {"unused", "open", "closed"}, key : PeerAddress \cup {Nobody}]]
    BY <1>9, <1>t DEF HandlerEnds, Deregister
  <2>4. BookTypeOK'
    BY <1>t, <1>9 DEF HandlerEnds, Deregister, BookTypeOK, bookVars
  <2> QED BY <1>9, <2>1, <2>2, <2>3, <2>4 DEF HandlerEnds, Deregister, TableTypeOK, Task
<1>10. ASSUME NEW g \in Seeders, \/ ConnectReturns(g)
                                 \/ \E k \in PeerAddress : ConnectToPeer(g, k)
       PROVE  TableTypeOK'
  BY <1>10 DEF ConnectReturns, ConnectToPeer, NoTask, TableTypeOK, BookTypeOK, bookVars
<1>11. ASSUME NEW g \in Seeders, NEW c \in Conns, Connected(g, c)
       PROVE  TableTypeOK'
  <2>1. task[g].key \in PeerAddress
    BY <1>11 DEF Connected, Step, AtWork
  <2>2. task' \in [Workers -> Task]
    BY <1>11, StepTyped DEF Connected
  <2>3. conn' \in [Conns -> [state : {"unused", "open", "closed"}, key : PeerAddress \cup {Nobody}]]
    BY <1>11, <1>t, <2>1 DEF Connected
  <2> QED BY <1>11, <2>2, <2>3 DEF Connected, TableTypeOK, BookTypeOK, bookVars, Task
<1>12. CASE BookStep /\ UNCHANGED tableOnly
  <2>1. BookTypeOK'
    BY <1>t, <1>12, BookTyped DEF BookStep
  <2> QED BY <1>12, <2>1 DEF tableOnly, TableTypeOK
<1>13. CASE UNCHANGED tableVars
  BY <1>13 DEF tableVars, bookVars, TableTypeOK, BookTypeOK
<1> QED
  BY <1>1, <1>2, <1>3, <1>4, <1>5, <1>6, <1>7, <1>8, <1>9, <1>10, <1>11, <1>12, <1>13
  DEF TableNext, tableOnly

-----------------------------------------------------------------------------
(* The address book                                                        *)

LEMMA BookSteps ==
    ASSUME BookInv, BookTypeOK, running, running' = running, NEW g \in Goroutines,
           \/ OpenAddrFile(g) \/ SaveToDisk(g) \/ SaveToDiskFails(g)
           \/ \E k \in PeerAddress : AddAddress(g, k)
    PROVE  BookInv'
<1> USE BookAssumption DEF BookInv, BookTypeOK, AddressesKept
<1>1. CASE OpenAddrFile(g)
  BY <1>1 DEF OpenAddrFile, File!Truncated
<1>2. CASE SaveToDisk(g)
  <2>1. mu = g /\ saving[g].data = Addresses /\ saving[g].key \in Addresses /\ addrFile = {}
    BY <1>2 DEF SaveToDisk
  <2>2. addrFile' = Addresses
    BY <1>2, <2>1, WrittenTyped DEF SaveToDisk
  <2>3. saving'[g] = NotSaving /\ \A h \in Goroutines \ {g} : saving'[h] = saving[h]
    BY <1>2 DEF SaveToDisk
  <2>4. \A h \in Goroutines : saving'[h] = NotSaving
    BY <2>1, <2>3
  <2> QED BY <1>2, <2>1, <2>2, <2>4 DEF SaveToDisk, NotSaving
<1>3. CASE SaveToDiskFails(g)
  <2>1. mu = g
    BY <1>3 DEF SaveToDiskFails
  <2>2. saving'[g] = NotSaving /\ \A h \in Goroutines \ {g} : saving'[h] = saving[h]
    BY <1>3 DEF SaveToDiskFails
  <2>3. \A h \in Goroutines : saving'[h] = NotSaving
    BY <2>1, <2>2
  <2>4. \A h \in Goroutines \ {g} : saving[h].step = "no"
    BY <2>1
  <2> QED BY <1>3, <2>3, <2>4 DEF SaveToDiskFails, NotSaving
<1>4. ASSUME NEW k \in PeerAddress, AddAddress(g, k)
      PROVE  BookInv'
  <2>1. \A h \in Goroutines : saving[h] = NotSaving
    BY <1>4 DEF AddAddress
  <2>2. saving'[g] = Marshalled(k) /\ \A h \in Goroutines \ {g} : saving'[h] = NotSaving
    BY <1>4, <2>1 DEF AddAddress
  <2> QED BY <1>4, <2>1, <2>2 DEF AddAddress, Marshalled, NotSaving
<1> QED BY <1>1, <1>2, <1>3, <1>4

LEMMA BookKept ==
    ASSUME TableTypeOK, BookInv, AtWork, [TableNext]_tableVars
    PROVE  BookInv'
<1> USE DEF TableTypeOK
<1>1. CASE NewServer
  <2>1. \A g \in Goroutines : saving[g] = NotSaving
    BY <1>1 DEF NewServer, BookInv
  <2> QED BY <1>1, <2>1 DEF NewServer, NewAddrManager, BookInv, AddressesKept, NotSaving
<1>2. CASE Kill
  <2>1. ~spoilt' => ~spoilt /\ \A g \in Goroutines : saving[g].step # "opened"
    BY <1>2 DEF Kill, ManagerGone, BookTypeOK
  <2> QED BY <1>2, <2>1 DEF Kill, ManagerGone, BookInv, AddressesKept, NotSaving
<1>3. ASSUME UNCHANGED <<running, bookVars>>
      PROVE  BookInv'
  BY <1>3 DEF bookVars, BookInv, AddressesKept
<1>4. ASSUME NEW g \in Goroutines, RecordAddress(g)
      PROVE  BookInv'
  <2>1. task[g].key \in PeerAddress /\ running
    BY <1>4 DEF RecordAddress, Step, AtWork, Workers
  <2> QED BY <1>4, <2>1, BookSteps DEF RecordAddress
<1>5. CASE BookStep /\ UNCHANGED tableOnly
  <2>1. PICK g \in Goroutines : OpenAddrFile(g) \/ SaveToDisk(g) \/ SaveToDiskFails(g)
    BY <1>5 DEF BookStep
  <2>2. running
    BY <2>1 DEF BookInv, OpenAddrFile, SaveToDisk, SaveToDiskFails
  <2> QED BY <1>5, <2>1, <2>2, BookSteps DEF tableOnly
<1>6. \/ NewServer \/ Kill \/ UNCHANGED <<running, bookVars>>
      \/ (\E g \in Goroutines : RecordAddress(g)) \/ (BookStep /\ UNCHANGED tableOnly)
  BY DEF TableNext, tableOnly, tableVars, Register, Broadcast, ListPeers, OpenPeersFile,
         WritePeersFile, WriteFails, Accept, HandlerEnds, Deregister, ConnectToPeer,
         ConnectReturns, Connected
<1> QED BY <1>1, <1>2, <1>3, <1>4, <1>5, <1>6

-----------------------------------------------------------------------------
(* peers.json                                                              *)

Saving(g) == task[g].step \in {"listed", "opened"}

\* A step of a goroutine, by its part.
StepOf(g) ==
    \/ ListPeers(g) \/ OpenPeersFile(g) \/ WritePeersFile(g) \/ WriteFails(g)
    \/ g = listener /\ (Register \/ \E c \in Conns, k \in PeerAddress : Accept(c, k))
    \/ g \in Goroutines /\ RecordAddress(g)
    \/ g \in Conns /\ (HandlerEnds(g) \/ Deregister(g))
    \/ g \in Seeders /\ \/ ConnectReturns(g) \/ (\E k \in PeerAddress : ConnectToPeer(g, k))
                         \/ \E c \in Conns : Connected(g, c)

LEMMA TableSteps ==
    ASSUME [TableNext]_tableVars
    PROVE  \/ Kill \/ NewServer \/ Broadcast \/ (BookStep /\ UNCHANGED tableOnly)
           \/ UNCHANGED tableVars \/ \E g \in Workers : StepOf(g)
<1>1. listener \in Workers /\ Goroutines \subseteq Workers /\ Conns \subseteq Workers
      /\ Seeders \subseteq Workers
  BY TableAssumption DEF Workers
<1>2. CASE Register
  BY <1>1, <1>2 DEF StepOf
<1>3. CASE \E g \in Workers : ListPeers(g) \/ OpenPeersFile(g) \/ WritePeersFile(g) \/ WriteFails(g)
  BY <1>3 DEF StepOf
<1>4. CASE \E g \in Goroutines : RecordAddress(g)
  BY <1>1, <1>4 DEF StepOf
<1>5. CASE \E c \in Conns, k \in PeerAddress : Accept(c, k)
  BY <1>1, <1>5 DEF StepOf
<1>6. CASE \E c \in Conns : HandlerEnds(c) \/ Deregister(c)
  BY <1>1, <1>6 DEF StepOf
<1>7. CASE \E g \in Seeders : \/ ConnectReturns(g) \/ (\E k \in PeerAddress : ConnectToPeer(g, k))
                              \/ \E c \in Conns : Connected(g, c)
  BY <1>1, <1>7 DEF StepOf
<1> QED BY <1>2, <1>3, <1>4, <1>5, <1>6, <1>7 DEF TableNext, tableOnly

LEMMA AtWorkKept ==
    ASSUME TableTypeOK, AtWork, [TableNext]_tableVars
    PROVE  AtWork'
<1> USE TableAssumption DEF Workers, AtWork
<1>t. task \in [Workers -> Task]
  BY DEF TableTypeOK, Task
<1>1. CASE Kill
  BY <1>1 DEF Kill, NoTask
<1> DEFINE Ends(g) ==
      WritePeersFile(g) \/ WriteFails(g)
<1>2. ASSUME NEW g \in Workers, Ends(g)
      PROVE  AtWork'
  <2>1. running' /\ task[g].step # "idle"
    BY <1>2 DEF WritePeersFile, WriteFails
  <2>2. AfterSave(g)
    BY <1>2 DEF WritePeersFile, WriteFails
  <2>3. /\ task'[g].step \in {"idle", "saved"}
        /\ task'[g].step = "saved" => task'[g].key = task[g].key
        /\ \A h \in Workers \ {g} : task'[h] = task[h] \/ h \in Conns
    BY <2>2, AfterSaveEffect
  <2> QED BY <2>1, <2>3
<1> DEFINE Moves(g) ==
      \/ ListPeers(g) \/ OpenPeersFile(g)
      \/ g = listener /\ Register
      \/ g \in Goroutines /\ RecordAddress(g)
      \/ g \in Conns /\ (HandlerEnds(g) \/ Deregister(g))
      \/ \E c \in Conns : Connected(g, c)
<1>3. ASSUME NEW g \in Workers, Moves(g)
      PROVE  AtWork'
  <2>1. /\ running' = running /\ task[g].step # "idle" /\ task'[g].key = task[g].key
        /\ \A h \in Workers \ {g} : task'[h] = task[h]
    BY <1>t, <1>3 DEF ListPeers, OpenPeersFile, Register, RecordAddress, HandlerEnds,
                      Deregister, Connected, Step, Task
  <2> QED BY <2>1
<1> DEFINE Begins(g) ==
      \/ g = listener /\ (\E c \in Conns, k \in PeerAddress : Accept(c, k))
      \/ \E k \in PeerAddress : ConnectToPeer(g, k)
<1>4. ASSUME NEW g \in Workers, Begins(g)
      PROVE  AtWork'
  <2>1. /\ running' /\ task'[g].key \in PeerAddress
        /\ \A h \in Workers \ {g} : task'[h] = task[h]
    BY <1>t, <1>4 DEF Accept, ConnectToPeer, Task
  <2> QED BY <2>1
<1>5. ASSUME NEW g \in Seeders, ConnectReturns(g)
      PROVE  AtWork'
  BY <1>t, <1>5 DEF ConnectReturns, NoTask
<1>6. ASSUME UNCHANGED task, running => running'
      PROVE  AtWork'
  BY <1>6
<1>7. CASE NewServer \/ Broadcast \/ (BookStep /\ UNCHANGED tableOnly) \/ UNCHANGED tableVars
  BY <1>6, <1>7 DEF NewServer, Broadcast, tableOnly, tableVars
<1> HIDE DEF AtWork, Ends, Moves, Begins
<1>9. ASSUME NEW g \in Workers, StepOf(g)
      PROVE  AtWork'
  <2>1. CASE Ends(g)
    BY <1>2, <2>1
  <2>2. CASE Moves(g)
    BY <1>3, <2>2
  <2>3. CASE Begins(g)
    BY <1>4, <2>3
  <2>4. CASE g \in Seeders /\ ConnectReturns(g)
    BY <1>5, <2>4
  <2>5. Ends(g) \/ Moves(g) \/ Begins(g) \/ (g \in Seeders /\ ConnectReturns(g))
    BY <1>9, TableAssumption DEF StepOf, Ends, Moves, Begins
  <2> QED BY <2>1, <2>2, <2>3, <2>4, <2>5
<1> QED BY <1>1, <1>7, <1>9, TableSteps

LEMMA SavesKept ==
    ASSUME TableTypeOK, SaveInv, [TableNext]_tableVars
    PROVE  SaveInv'
<1> USE TableAssumption DEF Workers, SaveInv, Saving
<1>t. task \in [Workers -> Task]
  BY DEF TableTypeOK, Task
<1>1. CASE Kill
  BY <1>1 DEF Kill, NoTask
<1> DEFINE Ends(g) ==
      WritePeersFile(g) \/ WriteFails(g)
<1>2. ASSUME NEW g \in Workers, Ends(g)
      PROVE  SaveInv'
  <2>1. \A h \in Workers \ {g} : ~Saving(h)
    BY <1>2 DEF WritePeersFile, WriteFails
  <2>2. AfterSave(g)
    BY <1>2 DEF WritePeersFile, WriteFails
  <2>3. \A h \in Workers : ~Saving(h)'
    BY <2>1, <2>2, AfterSaveEffect
  <2> QED BY <2>3
<1>3. ASSUME NEW g \in Workers, ListPeers(g)
      PROVE  SaveInv'
  <2>1. \A h \in Workers : ~Saving(h)
    BY <1>3 DEF ListPeers
  <2>2. /\ task'[g].step = "listed" /\ task'[g].list = Listed /\ Mu' = g
        /\ \A h \in Workers \ {g} : task'[h] = task[h]
    BY <1>3, <1>t DEF ListPeers, Task
  <2>3. Listed' = Listed
    BY <1>3 DEF ListPeers, Listed
  <2> QED BY <2>1, <2>2, <2>3
<1>4. ASSUME NEW g \in Workers, OpenPeersFile(g)
      PROVE  SaveInv'
  <2>1. Mu = g /\ task[g].list = Listed /\ \A h \in Workers \ {g} : ~Saving(h)
    BY <1>4 DEF OpenPeersFile, Step
  <2>2. /\ task'[g].step = "opened" /\ task'[g].list = task[g].list /\ peersFile' = {}
        /\ \A h \in Workers \ {g} : task'[h] = task[h]
    BY <1>4, <1>t DEF OpenPeersFile, Step, File!Truncated, Task
  <2>3. Listed' = Listed /\ Mu' = Mu
    BY <1>4 DEF OpenPeersFile, Listed
  <2> QED BY <2>1, <2>2, <2>3
<1> DEFINE Locks(g) ==
      \/ g = listener /\ Register
      \/ g \in Conns /\ Deregister(g)
      \/ \E k \in PeerAddress : ConnectToPeer(g, k)
      \/ \E c \in Conns : Connected(g, c)
<1>5. ASSUME NEW g \in Workers, Locks(g)
      PROVE  SaveInv'
  <2>1. \A h \in Workers : ~Saving(h)
    BY <1>5 DEF Register, Deregister, ConnectToPeer, Connected
  <2>2. ~Saving(g)' /\ \A h \in Workers \ {g} : task'[h] = task[h]
    BY <1>5, <1>t DEF Register, Deregister, ConnectToPeer, Connected, Step, Task
  <2> QED BY <2>1, <2>2
<1> DEFINE Leaves(g) ==
      \/ g \in Goroutines /\ RecordAddress(g)
      \/ g \in Conns /\ HandlerEnds(g)
      \/ g \in Seeders /\ ConnectReturns(g)
      \/ g = listener /\ \E c \in Conns, k \in PeerAddress : Accept(c, k)
<1>6. ASSUME NEW g \in Workers, Leaves(g)
      PROVE  SaveInv'
  <2>1. ~Saving(g)' /\ \A h \in Workers \ {g} : task'[h] = task[h]
    BY <1>6, <1>t DEF RecordAddress, HandlerEnds, ConnectReturns, Accept, Step, NoTask, Task
  <2>2. UNCHANGED <<Mu, Peers, peersFile>>
    BY <1>6 DEF RecordAddress, HandlerEnds, ConnectReturns, Accept
  <2>3. Listed' = Listed
    BY <2>2 DEF Listed
  <2> QED BY <2>1, <2>2, <2>3
<1>7. CASE Broadcast
  <2>1. \A h \in Workers : ~Saving(h)
    BY <1>7 DEF Broadcast
  <2> QED BY <1>7, <2>1 DEF Broadcast
<1>8. CASE NewServer \/ (BookStep /\ UNCHANGED tableOnly) \/ UNCHANGED tableVars
  <2>1. UNCHANGED <<task, Mu, Peers, peersFile>>
    BY <1>8 DEF NewServer, tableOnly, tableVars
  <2>2. Listed' = Listed
    BY <2>1 DEF Listed
  <2> QED BY <2>1, <2>2
<1> HIDE DEF SaveInv, Ends, Locks, Leaves
<1>9. ASSUME NEW g \in Workers, StepOf(g)
      PROVE  SaveInv'
  <2>1. CASE Ends(g)
    BY <1>2, <2>1
  <2>2. CASE ListPeers(g)
    BY <1>3, <2>2
  <2>3. CASE OpenPeersFile(g)
    BY <1>4, <2>3
  <2>4. CASE Locks(g)
    BY <1>5, <2>4
  <2>5. CASE Leaves(g)
    BY <1>6, <2>5
  <2>6. Ends(g) \/ ListPeers(g) \/ OpenPeersFile(g) \/ Locks(g) \/ Leaves(g)
    BY <1>9, TableAssumption DEF StepOf, Ends, Locks, Leaves
  <2> QED BY <2>1, <2>2, <2>3, <2>4, <2>5, <2>6
<1> QED BY <1>1, <1>7, <1>8, <1>9, TableSteps

LEMMA FreshKept ==
    ASSUME TableTypeOK, SaveInv, PeersFileFresh, [TableNext]_tableVars
    PROVE  PeersFileFresh'
<1> USE TableAssumption DEF Workers, PeersFileFresh
<1>t. task \in [Workers -> Task]
  BY DEF TableTypeOK, Task
<1>1. CASE Kill \/ Broadcast \/ \E g \in Workers : WriteFails(g)
  BY <1>1 DEF Kill, Broadcast, WriteFails
<1>2. ASSUME NEW g \in Workers, WritePeersFile(g)
      PROVE  PeersFileFresh'
  <2>1. task[g].list = Listed /\ peersFile = {}
    BY <1>2 DEF WritePeersFile, SaveInv
  <2>2. peersFile' = Listed
    BY <1>2, <2>1, WrittenTyped DEF WritePeersFile
  <2>3. Listed' = Listed
    BY <1>2 DEF WritePeersFile, Listed
  <2> QED BY <2>2, <2>3
<1> DEFINE Changes(g) ==
      \/ ListPeers(g) \/ OpenPeersFile(g)
      \/ g = listener /\ Register
      \/ g \in Conns /\ Deregister(g)
      \/ \E c \in Conns : Connected(g, c)
<1>3. ASSUME NEW g \in Workers, Changes(g)
      PROVE  PeersFileFresh'
  <2>1. task'[g].step \in {"changed", "listed", "opened"}
    BY <1>3, <1>t DEF ListPeers, OpenPeersFile, Register, Deregister, Connected, Step, Task
  <2> QED BY <2>1
<1>4. ASSUME UNCHANGED <<Peers, peersFile, stale>>,
             \A h \in Workers : \/ task'[h] = task[h]
                                 \/ task[h].step \notin {"changed", "listed", "opened"}
      PROVE  PeersFileFresh'
  BY <1>4 DEF Listed
<1> DEFINE Leaves(g) ==
      \/ g \in Goroutines /\ RecordAddress(g)
      \/ g \in Conns /\ HandlerEnds(g)
      \/ g \in Seeders /\ ConnectReturns(g)
      \/ \E k \in PeerAddress : ConnectToPeer(g, k)
      \/ g = listener /\ \E c \in Conns, k \in PeerAddress : Accept(c, k)
<1>5. ASSUME NEW g \in Workers, Leaves(g)
      PROVE  PeersFileFresh'
  <2>1. /\ task[g].step \notin {"changed", "listed", "opened"}
        /\ \A h \in Workers \ {g} : task'[h] = task[h]
    BY <1>5, <1>t DEF RecordAddress, HandlerEnds, ConnectReturns, ConnectToPeer, Accept, Step,
                      NoTask, Task
  <2>2. UNCHANGED <<Peers, peersFile, stale>>
    BY <1>5 DEF RecordAddress, HandlerEnds, ConnectReturns, ConnectToPeer, Accept
  <2> QED BY <1>4, <2>1, <2>2
<1>6. CASE NewServer \/ (BookStep /\ UNCHANGED tableOnly) \/ UNCHANGED tableVars
  BY <1>4, <1>6 DEF NewServer, tableOnly, tableVars
<1> HIDE DEF PeersFileFresh, Changes, Leaves
<1>9. ASSUME NEW g \in Workers, StepOf(g)
      PROVE  PeersFileFresh'
  <2>1. CASE WriteFails(g)
    BY <1>1, <2>1
  <2>2. CASE WritePeersFile(g)
    BY <1>2, <2>2
  <2>3. CASE Changes(g)
    BY <1>3, <2>3
  <2>4. CASE Leaves(g)
    BY <1>5, <2>4
  <2>5. WriteFails(g) \/ WritePeersFile(g) \/ Changes(g) \/ Leaves(g)
    BY <1>9, TableAssumption DEF StepOf, Changes, Leaves
  <2> QED BY <2>1, <2>2, <2>3, <2>4, <2>5
<1> QED BY <1>1, <1>6, <1>9, TableSteps

-----------------------------------------------------------------------------
(* The theorems                                                            *)

\* The inductive invariant of the peer table and its two files (network.go,
\* addrman.go): types, mutexes, and the two properties below.
THEOREM TableSafe == TableSpec => []TableInv
<1>1. TableInit => TableInv
  <2> SUFFICES ASSUME TableInit PROVE TableInv
    OBVIOUS
  <2> USE DEF TableInit, BookInit, NoTask, Workers
  <2>1. BookTypeOK
    BY DEF BookTypeOK, NotSaving
  <2>2. TableTypeOK
    BY <2>1 DEF TableTypeOK, NoPeers, Unused
  <2>3. BookInv
    BY DEF BookInv, AddressesKept, NotSaving
  <2>4. SaveInv /\ AtWork
    BY DEF SaveInv, AtWork
  <2>5. PeersFileFresh
    BY DEF PeersFileFresh, Listed, NoPeers
  <2> QED BY <2>2, <2>3, <2>4, <2>5 DEF TableInv
<1>2. TableInv /\ [TableNext]_tableVars => TableInv'
  BY TableTyped, BookKept, SavesKept, AtWorkKept, FreshKept DEF TableInv
<1> QED BY <1>1, <1>2, PTL DEF TableSpec

\* Tasks, connections and the two files stay of their types (network.go:45-51,
\* addrman.go:36-41).
THEOREM TableTypes == TableSpec => []TableTypeOK
<1>1. TableInv => TableTypeOK
  BY DEF TableInv
<1> QED BY <1>1, TableSafe, PTL

\* What the address manager has saved stays in peers_addrman.json, for any number
\* of goroutines and restarts (addrman.go:54-100).
THEOREM TableAddresses == TableSpec => []AddressesKept
<1>1. TableInv => AddressesKept
  BY DEF TableInv, BookInv
<1> QED BY <1>1, TableSafe, PTL

\* peers.json lists the table once everybody has saved, for any number of
\* connections and seeds (network.go:66-82, 124-133, 145-152, 223-229).
THEOREM TableFresh == TableSpec => []PeersFileFresh
<1>1. TableInv => PeersFileFresh
  BY DEF TableInv
<1> QED BY <1>1, TableSafe, PTL
=============================================================================
