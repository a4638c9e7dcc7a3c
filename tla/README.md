# Verification of the xcosh node

TLA+ models of the xcosh node, TLC configurations that check them on small
instances, and TLAPS proofs about them for every value of the constants.  The
reference is the Go source under `src/`; a path below is relative to it.
`PROJECT.json` maps every definition to the lines it models.

    tlc -config Ledger.cfg Ledger_MC          # one run; the others alike
    tlapm Consensus_proofs.tla                # the proofs
    tlapm DurableChain_proofs.tla
    tlapm Ledger_proofs.tla
    tlapm DialScheduler_proofs.tla
    tlapm P2PServer_proofs.tla
    tlapm Peer_proofs.tla
    tlapm PeerTable_proofs.tla
    tlapm NodeDaemon_proofs.tla

## The system and its parts

| Part | State | Operations | Modelled in |
|---|---|---|---|
| Consensus rules, `internal/consensus` | none: cap, schedule, retarget, proof-of-work test, checkpoints | pure functions | `Consensus` |
| Blocks, transfers, validation, `core/` | none | hash input, JSON size, `ValidateBlockConsensus` | `Core` |
| Ledger, `node/ledger.go` | `Chain`, `State` (balance and nonce per address), `Mempool`, `MinerAddress`, `Engine.TargetDifficulty`, one mutex | `InitializeLedger`, `SpawnGenesis`, `MineBlock`, `AddToMempool`, `RollbackBlock`, `AppendBlockDirectly`, `RebuildState` | `Ledger` |
| Block storage, `storage/db.go` | LevelDB: `block_N` keys and `last_index` | `SaveBlock`, `DeleteBlock` (two writes each), `ClearAll`, file lock on open | `Ledger`, `DurableChain` |
| Daemon, `internal/daemon` | mining loop, `mempool.json` | every three seconds: read the file, install it as the mempool, mine, empty the file | `NodeDaemon` |
| RPC server, `internal/rpc` | shares the daemon's ledger | `generate`, `stop`, read-only methods | `NodeDaemon` |
| Command line, `xcosh.go`, `internal/cli` | opens the same database and files | `send`; `create`; `balance`, `supply`, `fees` | `NodeDaemon`, `Wallet` |
| P2P server, `internal/p2p/p2p.go` | peer set, inbound count, trusted set (locals of `run`), listener slots, throttled addresses, connections being set up | `Start`, `Stop`, accept, two handshake checkpoints, add and drop a peer, `AddPeer`, `RemovePeer`, `AddTrustedPeer`, `RemoveTrustedPeer` | `P2PServer` |
| Dial scheduler, `internal/p2p/dial.go` | static nodes and their pool, running dials, connected nodes, history | the events of `loop` | `DialScheduler` |
| Peer connections, `internal/p2p/peer.go` | per peer: the turn to write, the error channels, the ping buffer, `closed`, the layout of message codes | `run`, `readLoop`, `pingLoop`, each protocol's `ReadMsg` and `WriteMsg`, `Disconnect` | `Peer`, `PeerCodes`; its end is one step of `P2PServer` |
| Peer table, `internal/p2p/network.go`, `seeds.go` | `Peers`, `peers.json` | accept, handle, `ConnectToPeer`, `Broadcast` | `PeerTable` |
| Address book, `internal/p2p/addrman.go` | `Addresses`, `peers_addrman.json` | add, load, save | `AddressBook` |
| Wallet, `storage/wallet` | `wallet.dat` | load, append an account, save | `Wallet` |
| Reorg manager, `internal/reorg.go` | none | four stubs that print | the ledger calls it stands for are in `Ledger` |
| Cryptography, explorer, statistics, settings | none that the ledger depends on | pure functions, reports | not modelled |

How they interact.  A command, or the daemon, opens the database; LevelDB's file
lock lets one process at a time have it.  `InitializeLedger` loads the chain,
wipes one founded under other parameters, or mines a genesis block.  In the
daemon the mining loop and one goroutine per HTTP request call `MineBlock` on
the same `LedgerCore`.  `send` talks to the daemon through `mempool.json` only.

What is hard here:

* `MineBlock` holds its mutex while it selects transfers and again while it
  commits, but not in between: parent, supply and difficulty are read, the lock
  is released, a proof of work runs, and the result is applied to whatever the
  ledger has become.
* Transfers are executed on the account state when they are selected, long
  before the block exists; a panic in between leaves them executed, and
  `net/http` recovers the panics of handlers.
* A block is two LevelDB writes, a rollback two more, and the process can die
  between any two; the error of `SaveBlock` is dropped.
* The account state is maintained in two ways, step by step and by replaying the
  blocks, by different code.
* `mempool.json`, `wallet.dat`, `peers.json` and `peers_addrman.json` are read and
  rewritten as wholes by several parties, without a lock of their own, and
  `os.WriteFile` truncates a file before it writes it.
* The network server is five kinds of goroutine that share nothing but channels.
  They wait for each other in both directions: `Stop` for the loops, the loops for
  the connections, the connections for the loop at two checkpoints.  Limits are
  checked at the first checkpoint and the peer added at the second; who is
  connected is kept in three places; a dial may outlive the server that began it.
* A peer is a read loop, a ping loop, one goroutine per protocol and `run`, which
  wait for each other through small buffers; each may be the first to see the
  connection break, and all of them must end for `run` to return.
* Emission ends by a shift and a truncation; the size of a block is estimated
  before mining and measured after.

## What makes each part correct

* Consensus and storage: the chain a restart loads is linked by hash, height and
  time, claims exactly the scheduled rewards truncated at the cap, never mints
  beyond the cap, and never mints more per block than before.
* Ledger: memory and disk agree between two calls and differ by at most the tip
  within one; balances equal the replay of the blocks; no unit appears or
  disappears; a generated block passes its own validation; the mutex is always
  given back.
* Daemon and command line: a transfer is executed at most once, `send` is atomic,
  the daemon gets to the transfers in the file; it mines for the oldest account, and
  no key whose address was shown is lost.
* Network: no node is a peer twice and no peer is lost; the peer set, the counts
  and the dialer's view agree; the limits hold; every slot comes back; the pool of
  nodes to dial is exactly those that may be dialled; `RemovePeer` returns, `Stop`
  returns unless a remote holds it in a handshake, and leaves nothing behind but dials.
* Peer: the turn to write is in one place, nobody waits to report an error, the
  loops and `Disconnect` return, and both sides agree what a message code means.
* Files of the network: what was saved stays saved, and `peers.json` lists the
  table once everybody who changed it has saved it.

## Modules

| Module | What it is |
|---|---|
| `Consensus`, `Core` | the pure rules, as operators and recursive functions |
| `DurableChain` | abstract specification: the chain a restart loads is founded, extended by a valid block, shortened by one, or wiped if an older release left it |
| `Ledger` | the ledger process over its storage, one action per access to shared state and one per write |
| `LedgerProperties` | its type invariant, safety and liveness properties, fairness, and the refinement mapping to `DurableChain` |
| `WholeFile` | a file read and written as a whole without a lock, by the calls the code makes of package `os` |
| `Wallet` | `wallet.dat` and the commands that create accounts, over `WholeFile` |
| `NodeDaemon` | the processes around one data directory; composes `Ledger` and `Wallet` with the mining loop, the RPC handler and the commands |
| `DialScheduler` | the dial loop by itself, told of peers by an arbitrary server: abstract specification of what `P2PServer` does to it, and the module the dialer's theorems are about |
| `P2PServer` | the network server: `run`, listener, connections, peers, `Start` and `Stop`; composes with `DialScheduler`, whose actions it takes jointly with its own |
| `Peer` | the goroutines of one connection, from the end of the handshake to the return of `run` |
| `PeerCodes` | `Peer` with the codes its messages carry and the layout both sides compute |
| `AddressBook` | the address manager shared by the goroutines of a server, over `WholeFile` |
| `PeerTable` | the plain TCP server, its table and `peers.json`; composes with `AddressBook`, which its goroutines call |
| `DurableChain_MC`, `Ledger_MC`, `NodeDaemon_MC`, `P2PServer_MC`, `PeerCodes_MC`, `PeerTable_MC` | constants and bounds for TLC |
| `Consensus_proofs` | lemmas that `DurableChain_proofs` and `Ledger_proofs` share: the rules, induction, sums over finite sets |
| `DurableChain_proofs`, `Ledger_proofs`, `NodeDaemon_proofs`, `DialScheduler_proofs`, `P2PServer_proofs`, `Peer_proofs`, `PeerTable_proofs` | theorems |

Correspondence with the code:

* `Chain`, `State`, `Mempool`, `MinerAddress`, `TargetDifficulty` and `Mu` are
  the fields of `LedgerCore` and its engine; `blocks` and `lastIndex` are the
  LevelDB keys.  `parent`, `newBlock`, `feeTotal`, `currentSupply`, `cursor` and
  `blockBytes` are the locals of one `MineBlock` call per thread, `pc` the place
  it has reached.
* `MineBlock` is `MineBlock` (lock, read the tip), then `SelectTransfer` or
  `SkipTransfer` per mempool entry, `FinishSelection` (drop from the queue,
  unlock), `ComputeReward` (supply, reward), `AdjustDifficulty` (clock, write
  the engine's difficulty), `AssembleBlock` (read it back), `MineAndValidate`
  (search a hash at the engine's difficulty of that moment, validate against the
  stale parent, panic on failure), `CommitBlock` (lock, append, write the block
  key) and `CreditMiner` (write `last_index`, credit, unlock).  What runs under
  the mutex is cut only where a crash can leave something behind or where a
  property looks.
* A hash is an opaque number with a `work`, the highest difficulty it meets.
  `HashOf` gives two different headers different hashes; a header is what
  `AssembleBlockData` hashes, with the reward `Mine` puts there, which is the
  scheduled one when the field is zero.
* `policy` stands for the genesis fields `LoadFromDisk` compares: a block either
  has the current ones or those of an older release.
* `Crash` is the end of the process at any step: a kill, the `stop` request, or
  a panic outside an HTTP handler.  What was written stays written; a power
  failure that loses unsynced LevelDB writes is not modelled.  In `Ledger_concurrent`,
  which has no crashes, a goroutine that panicked outside HTTP just stops.
* In `NodeDaemon` the variables of `Ledger` belong to whichever process has the
  database open (`owner`).  `Stop` is the `stop` request, which ends the daemon a
  second after its answer and so wherever its goroutines are by then, and the panic of
  the mining loop, which ends it too; `Kill` ends any process and is there when
  `MayCrash`.  There is no orderly end: `main` waits in `select {}`.
* `lapses` is a history variable of `NodeDaemon`.  It records the two ways by which
  the code mines a transfer a second time: `"stopped"`, the daemon ended after its
  loop put the contents of `mempool.json` into the queue and before it emptied the file;
  `"kept"`, a transfer was selected and stayed in the queue.
* An unreadable `mempool.json` counts as empty, as both readers treat it, so the
  truncation `os.WriteFile` does first is a write of the empty list.
* In `Wallet` an account is named after the command that creates it, and `create`
  holds the container that command has in memory.  `harmed` records that a command
  ended between opening the file and writing it.  `WalletMiner` is
  `wf.Accounts[0]` at the start of the daemon, or `SYSTEM_MINER`; the wallet and
  the database are read in one step, which loses nothing, since the daemon could as
  well have started where it read the wallet.
* In `Peer`, `writeStart` and `writeErr` are those channels, `proto[p]` the place protocol
  `p` has reached, in its own code or inside `ReadMsg` or `WriteMsg`, and
  `readLoop`, `pingLoop`, `runLoop` the places of the others.  `offered` is the
  protocol `handle` wants to give a message to.  An unbuffered channel is one step
  of both sides; `protoErr` is counted, the other buffers hold one item.
  `PeerCodes` takes each step of `Peer` unchanged and adds which message it was.
* In `AddressBook` and `PeerTable` a critical section that touches only memory is
  one step; one that writes a file is three, all with the mutex held (`mu`, `Mu`).
  `task[g]` is where a goroutine has got to, a connection and its handler share a
  name, and `Broadcast`, which keeps the mutex throughout, is one step.
* In `P2PServer` a `conn` value stands for a connection and for the goroutine that
  serves it: `step` is where `SetupConn`, or later `runPeer`, has got to.  A
  handler of `run` that waits for the dial scheduler is one step, taken when the
  scheduler is at its select: until the two meet, `run` touches nothing another
  goroutine can see.  `quit` is closed exactly while `running` is false.
* `SetupConn` that returns an error closes the connection and, in the same step,
  gives the slot back (incoming) or ends the dial (outgoing).  `dialer` says which
  `Start` a dial belongs to, for its `doneCh` and its history are that
  scheduler's.  Nobody receives on `doneCh` after a stop: that goroutine is left
  blocked for ever, and its connection is free for reuse in the model.
* The `Drop` event of a peer is sent right after the peer is taken off the set,
  which the model makes one step.
* In `DialScheduler` the two tables `static` and `staticPool` hold node IDs and the
  `staticPoolIndex` of a task is a function of the ID.  `expHeap`, whose source is
  not in the repository, is a set of IDs any of which may have expired.

Sums over a chain or a list of transfers are recursive functions, not
`RECURSIVE` operators, so that the modules can be used in proofs.

## Runs

| Run | Instance | Shows |
|---|---|---|
| `DurableChain` | cap 18, reward 5, halving every 3 blocks, up to 8 blocks, old genesis or empty database | the abstract specification keeps to the cap, and its rewards never rise |
| `Ledger` | one thread, two transfers of sizes 4 and 3, a clock that is late, stands still or runs backwards, crashes anywhere, rollbacks, good and bad offered blocks, heights to 2 | nine properties, among them the refinement `ImplementsDurableChain` |
| `Ledger_concurrent` | two threads, one an HTTP handler; any write of `MineBlock` may fail; a miner address that is refused | what survives the race: the lock discipline, parents before children, no unit from nothing |
| `NodeDaemon` | three transfers, heights to 3, two old accounts and one to be created by a command that may be killed or fail, kills and stops anywhere, no RPC mining | transfers are executed once but for the two lapses, `send` is atomic, keys are kept and the first account mined for |
| `NodeDaemon_rpc` | one transfer, `generate` of zero or one block racing the loop, kills and stops anywhere | no call waits for ever, the loop gets to the file |
| `P2PServer` | two remote nodes, one of which may become trusted, two peers, two slots, one dialled peer, three connections at a time, one `Start` | peer set, counts, limits, slots and dial pool are right at every step |
| `P2PServer_stop` | one remote node, two `Start`s, either of which may fail half-way, removal of a static peer, three connections at a time, throttled addresses | `RemovePeer` returns, `Stop` returns unless a remote holds it in a handshake, nothing is left behind |
| `Peer` | two protocols in common, announced by both sides in different orders and versions, a ping buffer of one, a call of `Disconnect`, a connection that may break at any step | the turn and the error channels, the agreement on codes; every goroutine ends |
| `PeerTable` | two addresses, three connections, the listener and one dialled seed, two lives of the process, writes that fail | the two files follow the memory |

Bounds.  The constants are scaled so that every threshold of the rules is crossed
within two or three blocks: in the ledger's runs cap 14 with reward 8 truncates the
reward of block 1 to 6 and of block 2 to 0 (the daemon's run to height 3 has cap 30,
so that every block can be paid for), a halving falls at block 2, block size 9 fits
two transfers of size 3 but not three with the header reserve, clock readings lie
before and long after the genesis time so that difficulty rises and falls and a block
time is forced to parent time plus one.  In `Ledger` the transfers are of sizes 4 and
3: with the reserve of 2, one of each fills a block to its last byte, the comma
between them included, and two of size 4 are one too many, so that the test of the
size decides.  Bob can only pay out of what alice has sent him, so affordability
depends on the order of transfers.  Two heights suffice for a parent, a child and a
competing child, three for a reinstalled transfer to be mined again.  `NodeDaemon` has
one `create` and no `generate` (`GenerateCounts = {}`), for with both it is too large:
requests that mine are in `NodeDaemon_rpc`, and `DaemonMinedOnce` is proved with any
number of them.  `MaxHeight` and `MaxMempool` bound the state space and appear in the
guards of `MineBlock`, `AddToMempool`, `RollbackBlock` and the offered blocks only;
`Hash` holds more values than blocks exist at once.  `WordBits = 6` is the width of
uint64 scaled down: no balance of the instances reaches it, so a wrap shows as a
violation.  No symmetry is used there: addresses and hashes play different parts.

In the network runs two remote nodes let the same node arrive from both sides and two
nodes compete for one place; three connections are two being set up from outside
beside a dial or a peer.  Of the limits only the one on inbound peers is at stake in
that run: two remote nodes cannot exceed `MaxPeers = 2`, which `ServerPeerLimits` is
about for every limit.  `Removable` is empty there, so the pool meets `RemoveStatic`
in `P2PServer_stop` and in the theorem `PoolIsSound` only.  `Conns` bounds how many
exist at once: while all are in use nobody connects and no dial starts.  The safety
run treats them as interchangeable (`Interchangeable`; they are only ever chosen by
being unused); the liveness run does not use symmetry.  `StaticNodes` are `AddPeer`
calls right after `Start`, and one caller alternates `Start` and `Stop`; a private key
is taken to be configured.

One transfer per protocol and one ping in the buffer are enough for `Peer`: every
select is then reached with its channel full and empty.  The second protocol is
there to hold the turn while the first wants it.  The two setups of `PeerCodes_MC`
contain a protocol in two versions on both sides, on one side only, and one that
only one side has, which are the cases `matchProtocols` tells apart.  In
`PeerTable` a third connection arrives under an address whose handler is still
leaving.  Addresses and connections are interchangeable there.

Failing writes of `RollbackBlock` and `AppendBlockDirectly` are in the model and in
`LedgerLockDiscipline`, but in no passing run: the removed block then lives on in the
accounts or on disk, which the next section describes.

`CHECK_DEADLOCK FALSE` is set where the system may really rest: nobody sends a
transfer or starts a process any more, the height bound is reached without a
crash, or, in `Ledger_concurrent`, a goroutine that is no handler has panicked.

The network runs set it because `Start` may be called only so often, `Peer`
because a connection ends.

Fairness.  `LiveServerSpec` assumes that the loops and the goroutines blocked in a
select are served: weak fairness for a step that stays enabled, strong fairness where
`run` or a peer must meet the dial scheduler, which is at its select again and again
and picks among the ready cases at random.  `Accept` is assumed to fail once the
listener is closed; it may fail before, which ends the listener for good
(`p2p.go:671-674`).  Nothing is assumed of remotes: no dial, handshake or peer is
taken to end by itself.  Peers and goroutines at a checkpoint are told when the server
stops, but nothing interrupts a handshake: there is no deadline on it, `Stop` closes
no connection that is being set up, and it waits for the listener, which waits for
every slot (`p2p.go:663-667, 742, 756`).  A remote that stays silent in a handshake
holds `Stop` for ever, and `StopReturns` says so in its premise.  `LiveDaemonSpec`
assumes that a goroutine inside `MineBlock` keeps running (weak fairness), and strong
fairness for taking the mutex, since Go's `sync.Mutex` hands it to a waiter that has
starved for a millisecond.  The loop's ticker gives it weak fairness for reading the
file.  `PeerFairness` gives weak fairness to every goroutine of a peer that can
proceed and assumes of a protocol that it keeps calling `ReadMsg` and returns once it
got an error, as the protocols this interface is made for do; it assumes nothing of
pings or of messages, and of the remote only that a write to it ends, in success or
not (`Write`): no write has a deadline in `peer.go`, and one that never returned would
hold the turn.  Nothing is assumed of commands, requests, crashes or restarts.

### Departures of the code from what it says

Runs that TLC must find violated; the findings in `PROJECT.json` quote the lines.

| Run | Violated | What happens |
|---|---|---|
| `race_chain` | `ChainValid` | the loop and a `generate` request build on one tip and both append |
| `pending` | `PendingNotMined` | of two queued transfers the first cannot be paid yet and is skipped, the second is mined, and the queue drops the first and keeps the second |
| `cli_genesis` | `NextStartAccepts` | `balance` on a fresh directory founds a chain whose genesis fails the checkpoint of every later start |

`pending` is about `ledger.go:372` and nothing else: with the line made to remove the
selected transfers and no others (`SelectSeq` in `FinishSelection`) the same instance
has no violation, in 15,996 states.  `PendingNotMined` sets a daemon that ended before
it cleared the file aside, for a transfer can then be queued again without that line.

Others that the same modules show when a constant of a run is changed:

* `Ledger` with `HeaderBytes = 2` and `GeneratedBlockValid` without its second
  conjunct: the commas JSON puts between transfers are not in the size estimate
  (`node/ledger.go:333`), so a block filled with enough small transfers is rejected by
  its own node, which panics.  4 MB of transfers have more commas than the 512 bytes
  leave room for, and nothing bounds the queue.
* `NodeDaemon` with `CreatesOverlap = TRUE`, `Creates = {bob, carol}` and `KeysKept`:
  two `create` commands read the same `wallet.dat`; the second to write drops the key
  whose address the first has printed (`storage/wallet/wallet.go:162, 204`).
* `race_chain` with `MaxSupply = 14` and `SupplyWithinCap`: both racing blocks
  claim the last units, and the next start panics (`node/ledger.go:89`).
* `race_chain` with `Clock = {4, 9}` and `GeneratedBlockValid`: the second call
  overwrites `Engine.TargetDifficulty` under the first, whose block then misses
  its own stated difficulty.
* `race_chain` with counts `{1, 2}`, three transfers, `MaxHeight = 3` and
  `StateIsReplay`: a handler's panic leaves its transfers executed.
* `NodeDaemon` and `MinedOnce` with `"stopped"` not excluded: the daemon ends between
  the commit and the rewrite of `mempool.json`, and the next one executes the
  transfers again (`daemon/server.go:121-123`).
* `race_chain` with three transfers and `MinedOnce` with `"kept"` not excluded: what a
  skipped transfer left in the queue is executed again by a request.
* `Ledger` with `DiskFaults = TRUE` and `NothingLostOnRestart` or `RestartSafe`:
  a failed `SaveBlock` goes unnoticed; a block 1 left by an earlier crash and a
  later block 2 then form a chain `LoadFromDisk` takes although it is not linked.
* `Ledger` with an appended block that overdraws (`PeerTransfers <-
  OnePeerTransfer`) and `ValueConserved`: the replay floors the overdraft at zero
  and credits the recipient in full.

Seen in the code while modelling, without a run of its own:

* `generate` pays the address the daemon was started with, whatever target it was
  given and echoes (`rpc/server.go:223-253`; `xcosh.go:63` documents the target).
* A daemon started while `create` is writing `wallet.dat` finds no account and takes
  `SYSTEM_MINER` (`daemon/server.go:39`).  `MineBlock` refuses that address by a panic
  (`ledger.go:323`); in the goroutine of the loop it ends the process, before
  `mempool.json` is emptied, and a request that mines gets no answer.
  `MinesForOldest` allows for that miner.
* `generate` empties `mempool.json` without having read it (`rpc/server.go:246`): what
  was sent since the loop last read the file is gone, after `send` has reported success.
  No property says otherwise, for the code does it whenever a request comes at such a
  moment; `HandlerClears` fires in `NodeDaemon_rpc`.
* `tx.Value + tx.Fee` is not checked for overflow (`ledger.go:350`): a sum that wraps
  passes the test of the balance, and the recipient gets units nobody had.
* `xcosh addnode` and the RPC `addnode` each load `peers_addrman.json` into a manager
  of their own; two that overlap, or one beside a running server, lose each other's
  addresses after "Successfully added peer" (`rpc/server.go:264`,
  `cli/handlers.go:231`).
* A connection made by `ConnectToPeer` has no handler: it stays in the table and in
  `peers.json` after it ends, until a `Broadcast` fails on it (`network.go:225`).
  When a connection comes back under the same address before the handler of the
  old one has ended, that handler takes the new one off the table (`network.go:148`).
* `Broadcast` writes to every connection with the mutex held: one peer that does not
  read stops the listener, the handlers and the dials (`network.go:200`).
* The daemon writes an object to `peers.json` every two seconds, the server a list
  (`daemon/server.go:101-110`, `network.go:76`); the daemon's writer is not modelled,
  and beside it `PeersFileFresh` could not hold.
* `uptime.json` is written only when absent, so a restart does not reset it
  (`uptime.go:57-58`).
* `historyTimer` is set once, to an hour; `rearmHistoryTimer` has no caller.  A
  static node is dialled again at most once after a failure (`dial.go:221, 238`).
* A dial under way when the server stops blocks for ever on `doneCh`
  (`dial.go:322`).
* `Start` that fails leaves `running` set, so only `Stop` allows another try; with
  no private key `Stop` would close a nil channel (`p2p.go:307, 319, 276`).
* `freeDialSlots` counts twice the missing dialled peers and the checkpoints do not
  limit dialled peers by `maxDialPeers`, so there may be more of them
  (`dial.go:254`, `p2p.go:630-643`).
* `SyncEngine.ConnectToPeer` builds a node without a public key, which `setupConn`
  refuses to dial (`p2p.go:736-740`).

## Proofs

Each theorem is about the specification itself, without the bounds of a run other
than the constants in its guards, and for every value of the constants that
satisfies the `ASSUME`s of the modules, which TLC evaluates in every run, and the
hypotheses the theorem states.

### The durable chain

`DurableChain_proofs` proves, for every cap, schedule, word size, hash and time
set,

* `DurableSafe`: `Spec => []Safe`, the inductive invariant: the state is typed, it is
  empty, the legacy block alone, or starts with a genesis block under the cap;
  each entry is a `Child` of the one before it; and no total exceeds the cap.
  `WellFormed` alone is not inductive: that a child's total stays within the cap
  needs the parent's total to be within it (`ChildFits`), and that needs the
  bound on the genesis (`GenesisFits`).
* `DurableTyped` and `DurableSupplyCapped` follow from it;
  `DurableEmissionNeverRises` adds that `CalculateBlockReward` never rises with
  height (`RewardNeverRises`) and that truncation at the cap keeps that order
  (`AllowedNeverRises`).

The theorems are about `DurableChain!Spec`; the run `DurableChain` adds a length
bound to `Next`, which removes behaviours, so the two fit together.

### The ledger

`Ledger_proofs` says of each theorem what it needs, and it needs different things.

| Theorem | Goroutines | Crashes, reorganisations | Writes | Further |
|---|---|---|---|---|
| `LedgerLockDiscipline` | any number | yes | may fail | |
| `LedgerTyped` | any number | yes | may fail | |
| `LedgerParentPrecedes` | any number | no crash | may fail | |
| `LedgerGeneratedBlockValid` | one caller | yes | may fail | |
| `LedgerChainValid`, `LedgerSupplyWithinCap`, `LedgerNothingLost`, `LedgerImplementsDurableChain` | one caller | yes | succeed | |
| `LedgerRestartSafe` | one caller | yes | succeed | the only checkpoint is that of the genesis |
| `LedgerStateIsReplay` | one caller, not a handler | yes | succeed | the miner is not `SYSTEM_GENESIS` |
| `LedgerValueNeverCreated` | finitely many | no | may fail | finitely many addresses, `NoTransferOverflows` |
| `LedgerValueConserved` | one caller, not a handler | yes | succeed | the same, `MaxSupply < Word`, the miner is not `SYSTEM_GENESIS`, peers' blocks without transfers |

None of the hypotheses is there for the prover's sake: each excludes behaviours of
the code in which the property fails.

* `OneCaller` (`Threads` has at most one member): two calls that race break
  `ChainValid`, and with it nearly everything else; that is the finding of the run
  `race_chain`.
* `DiskFaults = FALSE`: `SaveBlock`'s error is dropped, so a failed write breaks
  `NothingLostOnRestart` and `RestartSafe` (see above).
* `MayCrash = FALSE` for `ParentPrecedes`: with racing calls the blocks are written
  under their heights while the slice is a tree, so what a restart reads need not be
  linked.  With one caller `ChainValid`, which is stronger, survives crashes.
* `MayCrash = FALSE` and `Reorgs = FALSE` for `ValueNeverCreated`: after racing calls
  a restart may read a block without the one whose reward it spends, and the replay
  floors the sender while it credits the recipient in full; `RollbackBlock` drops a
  block before it rebuilds the balances.  The run `Ledger_concurrent` with either
  setting shows it.
* `DOMAIN Checkpoints \subseteq {0}`: the code has one checkpoint (`consensus.go:50-54`);
  a later one would constrain what may be mined.  Nothing is assumed about which
  genesis a process mines: `RestartSafe` says that what is in storage is a valid chain
  which the next start accepts if it accepts the genesis, and `cli_genesis` that it may
  not (`NextStartAccepts`).
* `Handlers = {}`: the caller is not an HTTP handler.  `MineBlock` panics when
  the block it mined fails validation, as one does whose commas outgrow the reserve.  In
  a handler the panic is recovered and leaves the transfers executed; elsewhere it
  ends the process, and a restart rebuilds the balances.  So no bound on the queue is
  assumed.
* `SYSTEM_GENESIS \notin MinerChoices`: `MineBlock` accepts that name and credits it,
  `RebuildState` does not (`node/ledger.go:195, 323, 434`).
* `NoTransferOverflows`: no transfer's value and fee exceed a word together.
  `ledger.go:350` adds them and nothing in the code checks the sum; one that wraps
  does create units, so the two theorems about units are about transfers that do not.
  `LedgerValueConserved` also needs a cap below a word; without it a credit that
  overflows loses units and creates none.
* `PeerTransfers \subseteq {<<>>}`: a block of a peer may overdraw, and a replay
  floors the sender at zero while it credits the recipient in full.

The run `Ledger` satisfies all of them but `MayCrash = FALSE` and `Reorgs = FALSE`,
which are settings of `Ledger_concurrent`.  `LedgerGeneratedBlockValid` needs no
hypothesis beyond one caller because the property speaks of a block whose header and
commas are within the reserve, whatever the queue held; of the others it says nothing.

The invariants, each resting on the ones before it:

* `TypeInv`: memory, calls and storage are typed, and so is what a reading of the code
  takes for granted: a cursor stays in the queue, a queue never shrinks under a call
  that selects, no balance is drawn below zero, a process that is down has no calls.
* `TreeInv`: every block of the slice has its parent before it, the parents of the
  calls under way are in it, and while the process has not started storage is empty
  or holds the legacy genesis.
* `SerialInv`: a call that is under way builds on the tip and has computed the supply
  of the whole chain (`SerialCall`); the chain is linked, scheduled and under the cap
  (`ChainInv`); storage holds it, or, between the two writes of `SaveBlock`, all of it
  but the tip (`StorageInv`, with `Holds` and `Lags`).  `ChainValid` is inductive only
  with the call's half, `RestartSafe` only with that of storage: after a crash nothing
  but the keys is left.  The lemmas `Storage...` prove of each pair of writes that a
  restart between them, or after them, loads a good chain (`StoredStep`).
* The refinement follows from it: `StoredStep` says what one step may do to the chain a
  restart would load, and each of its cases is a step of `DurableChain` or a stutter
  (the first key of a block changes nothing that is loaded, the second extends it;
  a rollback takes the last block off with the first).
* `MakingInv`: what a call has established, place by place, of each condition
  `ValidateBlockConsensus` will test on its block.
* `BalanceInv`: between two calls the balances are those of `Replay(Chain)`; during one
  they are those with the transfers selected so far executed on them, and the fees
  collected are those of the block.  Nonces are left out of the comparison, as
  `AddToMempool` sets them.
* `ValueInv`: for every prefix of the chain, what its replay leaves in the accounts
  and the reward of its first block add up to its supply (`Conserved`); for the call
  under way its fees, and after the commit its reward, are added.  All prefixes are
  needed because a rollback or a crash goes back to one of them; while the process
  is down the same holds of the chain in storage, unless that is the legacy genesis,
  which no start keeps.
* `MintedInv`: with any number of calls under way, the balances, the fees each call has
  collected and what it still holds for its miner are together no more than the
  chain minted after its first block.  It bounds where `ValueInv` equates: a call that
  panics loses what it held, and no step but a commit adds anything.  It is proved
  with sums over the calls, of which a step changes one term.

### The daemon and the wallet

`NodeDaemon_proofs` extends `Ledger_proofs` and proves, for any number of commands,
requests, kills and restarts:

* `DaemonSendAtomic`.  `OwnerInv`: the command that works on `mempool.json` has the
  database open, and the loop or a handler only touches the file while the daemon has it.
* `DaemonKeysKept`, if `create` commands take turns (`CreatesOverlap = FALSE`; two that
  overlap lose a key, see above).  `WalletInv` says what the command that is under way
  has in memory compared to the file, and that a file cut short is `harmed`.
* `DaemonMinesForOldest`, under the same hypothesis and with an account to begin with:
  whoever has the daemon's database open mines for the oldest account or for nobody,
  unless a file was cut short (`MinerInv`).
* `DaemonTyped`: the ledger stays typed while daemons and commands take turns at it,
  although the loop replaces the mempool by what a file held and a start takes its
  miner from another file.  `RunInv` adds to the ledger's `TypeInv` what the two files
  hold and which process the calls under way belong to; each of the daemon's own steps
  that sets a variable of the ledger needs it.
* `DaemonMinedOnce`, without a hypothesis: no transfer has two places in the chain
  unless one of the two lapses has happened, wherever the processes are killed or
  stopped, whatever LevelDB fails to write, whichever transfers a call skips, and
  though requests mine from the same queue at any moment.  `OnceInv` is typing, the
  mutex discipline, `SendAtomic`, that what is still to be sent is nowhere else
  (`FreshInv`) and, until a lapse, `Sound`, which follows a transfer from place to
  place: chain and database hold each once; what the calls under way have selected is
  in neither, and in one call at most; the queue is apart from all of them; and so is
  what is in `mempool.json`, unless the loop has put it into the queue.  A call takes
  transfers only from the queue and under the mutex, and what it has selected leaves
  the queue with it, unless `"kept"`; the file is read again only after it was
  emptied, unless `"stopped"`.  TLC finds the property violated when either is not
  excluded (see above): they are the code's, and there is no third.

### The network

`DialScheduler_proofs` proves, for any set of nodes, any limits and any order of
events, `DialTypeCorrect`, `PoolIsSound` (the two conjuncts of `PoolSound`) and
`DialsAreBounded`.
The inductive invariant `DialInv` is their conjunction with the finiteness of the
sets that are counted: that the pool is exact needs the indexes to be right, for
they say which task a removal takes out, and that `AddStatic` does not add a task
twice needs the pool to be exact.  Five lemmas say what each way of changing the
pool does to it; `AppendedIsIndexed` is the arithmetic of appending several.

`P2PServer_proofs` proves, for any number of nodes, connections, slots and starts:

* `ServerPoolSound` and `ServerDialsBounded` carry the scheduler's theorems over, by
  the lemma `ServerDials`: every step of the server is a step of `DialScheduler` or leaves
  it alone.
* `ServerPeersExact`: the peer set lists
  exactly the connections that will report on `delpeer`; its invariant `PeersInv` adds
  that the set is empty whenever `run` is not there, without which `Start` would lose
  the peers of the last run.  `ServerTypes` is the type invariant.
* `ServerSlotsConserved` and `ServerStopJoins`: `SlotInv` counts free slots, the one the
  accept loop holds and the incoming connections being set up; counting needs the set
  of those to change by one connection at a time.  A server that is down has all its
  loops down (`LoopsTogether`), and a listener that has ended has drained the slots, so
  nothing incoming is left.
* `ServerBookkeeping` and `ServerPeerLimits`: `BooksInv` counts the peers that are
  inbound, and separately those without the trusted flag, which is what the limits are
  about: a peer that loses the flag is not counted against them, one that gains it
  makes room.
* `ServerDialsExact`: `DialsInv` ties each running dial of the current scheduler to the
  one goroutine that will report it, apart from those of schedulers that are gone.

`Peer_proofs` proves, for any number of protocols and callers of `Disconnect`,
`PeerTyped`, `PeerTurn` and `PeerReports`, and for any protocols and versions
`PeerCodesAgree`.  The inductive invariant `PeerInv` of
`PeerSafe` adds what each place of `run` says about `closed`, and counts the
protocols that have reported: that `protoErr` never fills needs the number of items
in it to be the number of protocols and of ping loops that are done.

For `PeerCodesAgree` the lists of the two sides are arbitrary sequences: any number of
protocols and versions, repeated or not, in any order.  The sort is what
`slices.SortFunc` promises and no more, any arrangement in which nothing stands before
something smaller (`Sorts`).  The hypothesis `LengthsAgree` says that a version both
sides have is as long on both; a capability is a name and a version
(`peer.go:340`), so nothing in the code can check it.  `Fits` says of a layout, without
mentioning an order of arrival, that it has the greatest common version of each name,
stacked by name from 16 up without a gap.  Placing the next sorted capability keeps it
(`FitsStep`; that the length taken back off the offset is the one last added needs the
versions of a name to follow one another), hence every layout fits what the sides have
in common (`LayoutFits`).  Two layouts that fit the same are equal (`OneLayout`, by the
least name they would differ at), so both sides have the same one, and in it a code
belongs to one protocol (`OneProto`).

`PeerTable_proofs` proves, for any number of seeds, connections, addresses and
restarts, `TableTypes`, `TableAddresses` and `TableFresh`.  The inductive invariant
`TableInv` of `TableSafe` says who holds which mutex: whoever is inside `AddAddress`
has marshalled all of the map, and whoever is inside `savePeersToDisk` has listed all
of the table; while the process is down the file of addresses stands for the map.

### Induction, recursion and sums

The provers cannot instantiate the library's induction theorems, which take an
operator, nor its theorems about recursive functions.  `Consensus_proofs` goes round
them for the one kind of recursion the models use.  A set of naturals that is not
empty has a least member (`LeastNat`), from well-foundedness of `<`; so a set that
contains 0 and is closed under successor up to a bound contains everything up to it;
so a function defined by recursion up to a bound exists and is unique.  From that
come what `SupplyAt`, `TransferBytes`, `FeeTotal`, `ReplayTransfers` and `Replay` are on a
sequence that got one more element.  A sum over a finite set is the value at
that set of a function on its subsets, each of which adds one term to a smaller one
(`SumSteps`); `SumChanges` is its important fact: when one term changes, the sum
changes by as much.  `SumsAre` shows that this is the
`SumFunction` of the community modules that `ValueConserved` is written with.
`Peer_proofs`, which has nothing to do with the consensus, has the same three lemmas
for `Layout`.

`PowerAssumption` states that powers of two are positive and double, which is
arithmetic the SMT backend does not know.

### Only model-checked

Every invariant and every step property of the passing runs is stated by a theorem, with
the hypotheses above.  What is left:

* Liveness (`MineBlockReturns` and its like), which with `ENABLED` is out of the
  prover's reach.
* The three findings are violations, shown by their runs.

## Not modelled

* Discovery, port mapping, metrics and the UDP side of the network server, and the Add
  event `runPeer` sends before it serves (`p2p.go:806`): its only reader is `RemovePeer`,
  which waits for a Drop and passes it over.
  `p2p/server.go` and `p2p/types.go` declare again, in part as stubs, what `p2p.go`,
  `peer.go` and `dial.go` declare, so the package does not compile as committed; the
  models follow the latter.
* Nothing in the repository starts the server of `network.go`; `PeerTable` is what
  its methods do when called as their comments say.
* Settings, the cookie file of the RPC server, block size and traffic reports, the
  explorer and `uptime.json`: read and written once, or by one party.
* Signatures are taken to be valid and addresses well formed: cryptography is a
  pure function of its input.  Serialisation is abstracted to the size it yields.
* The parallel nonce search of `core/block.go` is one step; its workers share
  nothing but a result channel and a stop flag.
* Handlers that read the ledger by reflection without the mutex
  (`internal/rpc/server.go:151`): a concurrent map access ends the process, which
  the crashes of the model contain.
* `RollbackBlock`, `AppendBlockDirectly` and `AddToMempool` have no caller in the
  repository; the model lets them run between `MineBlock` calls only.
* `VerifyBlockReward`, `VerifyBlockReorgTransition`, `VerifyGenesisCheckpoint`,
  `ComputeHeaderHash` and `StartLiveWorker` have no caller.
* The status the daemon writes to `peers.json` every two seconds.

## Plan

Done: the modules, runs and proofs named above.  Next, in this order:

1. The three repairs the findings suggest, each as a variant of its action with the
   property it restores, starting with the lock around `MineBlock`.
2. `DaemonMinedOnce` without its two lapses, once the queue drops what was selected and
   `mempool.json` is emptied together with the block.
3. The reorganisation manager, once something calls it.
