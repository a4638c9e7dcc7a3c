-------------------------- MODULE NodeDaemon_proofs --------------------------
(***************************************************************************)
(* Theorems about the processes that share one data directory.  What they  *)
(* have in common: the database is open in one process at a time, and so   *)
(* guards mempool.json, which has no lock of its own; nothing guards       *)
(* wallet.dat, so what is proved of it is for create commands that do not  *)
(* overlap.  The last part follows transfers from the command through the  *)
(* file, the mempool and a call into the chain, on top of what the module  *)
(* Ledger_proofs shows of the ledger's own steps.                          *)
(***************************************************************************)
EXTENDS Ledger_proofs, NodeDaemon

(* Who may touch mempool.json                                              *)

SendSteps == {"none", "opening", "read", "truncated", "viewing"}

\* A command has the database open while it works; a loop that is awake and a
\* request that is being served belong to the daemon, which has it.
OwnerInv ==
    /\ sending \in [step : SendSteps, tx : SUBSET Transfers, existingMempool : Seq(Transfers)]
    /\ mempoolFile \in Seq(Transfers)
    /\ sending.step \in {"opening", "read", "truncated"} => sending.tx # {}
    /\ sending.step # "none" => owner = "cli"
    /\ owner # "daemon" => loopStep = "asleep" /\ request = NoRequest

LEMMA NotSendingTyped ==
    /\ NotSending \in [step : SendSteps, tx : SUBSET Transfers, existingMempool : Seq(Transfers)]
    /\ NotSending.step = "none"
<1>1. <<>> \in Seq(Transfers)
  OBVIOUS
<1> QED BY <1>1 DEF NotSending, SendSteps

LEMMA OwnerInitial == DaemonInit => OwnerInv
<1>1. <<>> \in Seq(Transfers)
  OBVIOUS
<1> QED BY <1>1, NotSendingTyped DEF DaemonInit, OwnerInv

\* The file is rewritten by the command that read it or by the daemon.
LEMMA OwnerSends ==
    ASSUME OwnerInv,
           \/ \E tx \in Transfers : HandleSendTx(tx)
           \/ ReadMempoolFile \/ TruncateMempoolFile \/ WriteMempoolFile
           \/ HandleCheckBalance \/ BalancePrinted
    PROVE  OwnerInv' /\ (SendAtomic => SendAtomic')
<1>1. ASSUME NEW tx \in Transfers, HandleSendTx(tx) PROVE OwnerInv' /\ SendAtomic'
  <2>1. /\ owner = "none" /\ owner' = "cli"
        /\ UNCHANGED <<mempoolFile, loopStep, request>>
        /\ sending' = [NotSending EXCEPT !.step = "opening", !.tx = {tx}]
    BY <1>1 DEF HandleSendTx, NewDatabase
  <2>2. sending' = [step |-> "opening", tx |-> {tx}, existingMempool |-> <<>>]
    BY <2>1 DEF NotSending
  <2>3. <<>> \in Seq(Transfers)
    OBVIOUS
  <2>4. sending' \in [step : SendSteps, tx : SUBSET Transfers, existingMempool : Seq(Transfers)]
    BY <2>2, <2>3 DEF SendSteps
  <2> QED BY <2>1, <2>2, <2>4 DEF OwnerInv, SendAtomic
<1>2. CASE ReadMempoolFile
  <2>1. /\ UNCHANGED <<owner, mempoolFile, loopStep, request>> /\ sending.step = "opening"
        /\ sending' = [sending EXCEPT !.step = "read", !.existingMempool = mempoolFile]
    BY <1>2 DEF ReadMempoolFile
  <2>2. /\ sending' \in [step : SendSteps, tx : SUBSET Transfers, existingMempool : Seq(Transfers)]
        /\ sending'.tx = sending.tx /\ sending'.existingMempool = mempoolFile
    BY <2>1 DEF OwnerInv, SendSteps
  <2> QED BY <2>1, <2>2 DEF OwnerInv, SendAtomic
<1>3. CASE TruncateMempoolFile
  <2>1. /\ UNCHANGED <<owner, loopStep, request>> /\ sending.step = "read" /\ mempoolFile' = <<>>
        /\ sending' = [sending EXCEPT !.step = "truncated"]
    BY <1>3 DEF TruncateMempoolFile
  <2>2. /\ sending' \in [step : SendSteps, tx : SUBSET Transfers, existingMempool : Seq(Transfers)]
        /\ sending'.tx = sending.tx /\ sending'.step = "truncated"
    BY <2>1 DEF OwnerInv, SendSteps
  <2> QED BY <2>1, <2>2 DEF OwnerInv, SendAtomic
<1>4. CASE WriteMempoolFile
  <2>1. /\ sending.step = "truncated" /\ owner' = "none" /\ sending' = NotSending
        /\ mempoolFile' = Append(sending.existingMempool, CHOOSE tx \in sending.tx : TRUE)
        /\ UNCHANGED <<loopStep, request>>
    BY <1>4 DEF WriteMempoolFile
  <2>2. mempoolFile' \in Seq(Transfers)
    <3> DEFINE tx == CHOOSE x \in sending.tx : TRUE
    <3>1. tx \in Transfers
      BY <2>1 DEF OwnerInv
    <3> HIDE DEF tx
    <3> QED BY <2>1, <3>1 DEF OwnerInv, tx
  <2> QED BY <2>1, <2>2, NotSendingTyped DEF OwnerInv, SendAtomic
<1>5. CASE HandleCheckBalance
  <2>1. /\ owner = "none" /\ owner' = "cli"
        /\ UNCHANGED <<mempoolFile, loopStep, request>>
        /\ sending' = [NotSending EXCEPT !.step = "viewing"]
    BY <1>5 DEF HandleCheckBalance, NewDatabase
  <2>2. /\ sending' \in [step : SendSteps, tx : SUBSET Transfers, existingMempool : Seq(Transfers)]
        /\ sending'.step = "viewing"
    BY <2>1, NotSendingTyped DEF SendSteps
  <2> QED BY <2>1, <2>2 DEF OwnerInv, SendAtomic
<1>6. CASE BalancePrinted
  BY <1>6, NotSendingTyped DEF BalancePrinted, ProcessGone, OwnerInv, SendAtomic
<1> QED BY <1>1, <1>2, <1>3, <1>4, <1>5, <1>6

\* Steps of the daemon and of the ledger.
LEMMA OwnerDaemon ==
    ASSUME OwnerInv,
           \/ StartDaemon \/ LedgerStep \/ Kill \/ Stop
           \/ LoadMempool \/ InstallMempool \/ LoopMines \/ LoopClears
           \/ Generate \/ HandlerMines \/ HandlerMined \/ HandlerPanics \/ HandlerClears
           \/ WalletNext /\ UNCHANGED <<vars, owner, mempoolFile, loopStep, diskMempool, request,
                                        sending, submitted, lapses>>
    PROVE  OwnerInv' /\ (SendAtomic => SendAtomic')
<1>1. CASE StartDaemon
  BY <1>1 DEF StartDaemon, NewDatabase, OwnerInv, SendAtomic
<1>2. CASE \/ LedgerStep
           \/ WalletNext /\ UNCHANGED <<vars, owner, mempoolFile, loopStep, diskMempool, request,
                                        sending, submitted, lapses>>
  BY <1>2 DEF LedgerStep, MiningStep, daemonVars, OwnerInv, SendAtomic
<1>3. CASE Kill \/ Stop
  BY <1>3, NotSendingTyped DEF Kill, Stop, ProcessGone, OwnerInv, SendAtomic
<1>4. CASE LoadMempool
  BY <1>4 DEF LoadMempool, Running, OwnerInv, SendAtomic
<1>5. CASE InstallMempool \/ LoopMines
  BY <1>5 DEF InstallMempool, LoopMines, OwnerInv, SendAtomic
<1>6. CASE LoopClears
  <2>1. <<>> \in Seq(Transfers)
    OBVIOUS
  <2> QED BY <1>6, <2>1 DEF LoopClears, OwnerInv, SendAtomic
<1>7. CASE Generate
  BY <1>7 DEF Generate, Running, OwnerInv, SendAtomic
<1>8. CASE HandlerMines \/ HandlerMined \/ HandlerPanics
  BY <1>8 DEF HandlerMines, HandlerMined, HandlerPanics, OwnerInv, SendAtomic, NoRequest
<1>9. CASE HandlerClears
  <2>1. <<>> \in Seq(Transfers)
    OBVIOUS
  <2> QED BY <1>9, <2>1 DEF HandlerClears, OwnerInv, SendAtomic, NoRequest
<1> QED BY <1>1, <1>2, <1>3, <1>4, <1>5, <1>6, <1>7, <1>8, <1>9

LEMMA OwnerNext == OwnerInv /\ [DaemonNext]_allVars => OwnerInv' /\ (SendAtomic => SendAtomic')
<1> SUFFICES ASSUME OwnerInv, [DaemonNext]_allVars PROVE OwnerInv' /\ (SendAtomic => SendAtomic')
  OBVIOUS
<1>1. CASE DaemonNext
  BY <1>1, OwnerSends, OwnerDaemon DEF DaemonNext
<1>2. CASE UNCHANGED allVars
  BY <1>2 DEF allVars, daemonVars, OwnerInv, SendAtomic
<1> QED BY <1>1, <1>2

\* "xcosh send" reads, truncates and rewrites mempool.json without another
\* process touching it in between, whatever dies and restarts, because the
\* database is open all along (handlers.go:170-182, storage/db.go:31-37).
THEOREM DaemonSendAtomic == DaemonSpec => []SendAtomic
<1>1. DaemonInit => OwnerInv /\ SendAtomic
  BY OwnerInitial, NotSendingTyped DEF DaemonInit, SendAtomic
<1>2. OwnerInv /\ SendAtomic /\ [DaemonNext]_allVars => (OwnerInv /\ SendAtomic)'
  BY OwnerNext
<1> QED BY <1>1, <1>2, PTL DEF DaemonSpec

-----------------------------------------------------------------------------
(* wallet.dat                                                              *)

CreateSteps == {"idle", "generated", "opened", "saved", "done"}

\* The container has every key it should have, the oldest one first.
Keeps(file) ==
    /\ created \cup ToSet(OldAccounts) \subseteq ToSet(file)
    /\ OldAccounts # <<>> => file # <<>> /\ file[1] = OldAccounts[1]

WalletTyped ==
    /\ wallet \in Seq(Addr)
    /\ create \in [Creates -> [step : CreateSteps, wf : Seq(Addr)]]
    /\ created \subseteq Creates
    /\ harmed \in BOOLEAN

\* One command at a time: between opening the file and writing it the file is
\* empty, and what the command has at hand is the old content and the new key.
WalletInv ==
    /\ WalletTyped
    /\ \A c, d \in Creates : Creating(c) /\ Creating(d) => c = d
    /\ \A c \in Creates : create[c].step = "opened" => wallet = <<>>
    /\ ~harmed => /\ ~Opened => Keeps(wallet)
                  /\ \A c \in Creates :
                        /\ create[c].step \in {"generated", "opened"}
                             => Keeps(create[c].wf) /\ c \in ToSet(create[c].wf)
                        /\ create[c].step = "saved" => c \in ToSet(wallet)

LEMMA ToSetOfAppend ==
    ASSUME NEW s \in Seq(Addr), NEW e \in Addr
    PROVE  /\ Append(s, e) \in Seq(Addr) /\ Append(s, e) # <<>>
           /\ ToSet(Append(s, e)) = ToSet(s) \cup {e}
           /\ s # <<>> => Append(s, e)[1] = s[1]
<1>1. /\ Append(s, e) \in Seq(Addr)
      /\ Len(Append(s, e)) = Len(s) + 1 /\ Len(s) \in Nat
      /\ DOMAIN Append(s, e) = 1 .. Len(s) + 1 /\ DOMAIN s = 1 .. Len(s)
      /\ \A i \in 1 .. Len(s) : Append(s, e)[i] = s[i]
      /\ Append(s, e)[Len(s) + 1] = e
  OBVIOUS
<1>2. ToSet(Append(s, e)) = ToSet(s) \cup {e}
  <2>1. \A x \in ToSet(Append(s, e)) : x \in ToSet(s) \cup {e}
    BY <1>1, SMT DEF ToSet
  <2>2. \A x \in ToSet(s) \cup {e} : x \in ToSet(Append(s, e))
    BY <1>1, SMT DEF ToSet
  <2> QED BY <2>1, <2>2
<1>3. s # <<>> => Len(s) > 0
  OBVIOUS
<1>4. Append(s, e) # <<>>
  BY <1>1
<1> QED BY <1>1, <1>2, <1>3, <1>4

\* A command that ends, or has not begun, has nothing at hand.
LEMMA NotCreatingTyped ==
    /\ NotCreating \in [step : CreateSteps, wf : Seq(Addr)]
    /\ NotCreating.step = "idle"
    /\ [NotCreating EXCEPT !.step = "done"] \in [step : CreateSteps, wf : Seq(Addr)]
    /\ [NotCreating EXCEPT !.step = "done"].step = "done"
<1>1. <<>> \in Seq(Addr)
  OBVIOUS
<1> QED BY <1>1 DEF NotCreating, CreateSteps

LEMMA WalletInitial == DaemonInit => WalletInv
<1> SUFFICES ASSUME DaemonInit PROVE WalletInv
  OBVIOUS
<1>1. /\ wallet = OldAccounts /\ create = [c \in Creates |-> NotCreating]
      /\ created = {} /\ harmed = FALSE
  BY DEF DaemonInit, WalletInit
<1>2. WalletTyped
  BY <1>1, NotCreatingTyped, DaemonAssumption DEF WalletTyped
<1>3. \A c \in Creates : create[c].step = "idle"
  BY <1>1, NotCreatingTyped
<1>4. Keeps(wallet)
  BY <1>1 DEF Keeps
<1> QED BY <1>2, <1>3, <1>4 DEF WalletInv, Creating

\* Replacing the entry of one command leaves the others.
LEMMA CreateReplaced ==
    ASSUME WalletTyped, NEW c \in Creates,
           NEW e \in [step : CreateSteps, wf : Seq(Addr)],
           create' = [create EXCEPT ![c] = e]
    PROVE  /\ create' \in [Creates -> [step : CreateSteps, wf : Seq(Addr)]]
           /\ create'[c] = e
           /\ \A d \in Creates : d # c => create'[d] = create[d]
BY DEF WalletTyped

LEMMA KeyGenerated ==
    ASSUME CreatesOverlap = FALSE, WalletInv, NEW c \in Creates, GenerateNewAccount(c)
    PROVE  WalletInv'
<1> DEFINE e == [step |-> "generated", wf |-> Append(wallet, c)]
<1>1. /\ create[c].step = "idle" /\ \A d \in Creates : ~Creating(d)
      /\ create' = [create EXCEPT ![c] = e]
      /\ UNCHANGED <<wallet, created, harmed>>
  BY DEF GenerateNewAccount, WithAccount, LoadWallet
<1>2. WalletTyped /\ wallet \in Seq(Addr) /\ c \in Addr
  BY DaemonAssumption DEF WalletInv, WalletTyped
<1>3. /\ Append(wallet, c) \in Seq(Addr) /\ Append(wallet, c) # <<>>
      /\ ToSet(Append(wallet, c)) = ToSet(wallet) \cup {c}
      /\ wallet # <<>> => Append(wallet, c)[1] = wallet[1]
  BY <1>2, ToSetOfAppend
<1>4. e \in [step : CreateSteps, wf : Seq(Addr)] /\ e.step = "generated"
      /\ e.wf = Append(wallet, c)
  BY <1>3 DEF CreateSteps
<1> HIDE DEF e
<1>5. /\ create' \in [Creates -> [step : CreateSteps, wf : Seq(Addr)]]
      /\ create'[c] = e
      /\ \A d \in Creates : d # c => create'[d] = create[d]
  BY <1>1, <1>2, <1>4, CreateReplaced
<1>6. WalletTyped'
  BY <1>1, <1>2, <1>5 DEF WalletTyped
<1>7. \A d \in Creates : create[d].step \in {"idle", "done"}
  BY <1>1 DEF Creating
<1>8. ~Opened
  BY <1>7 DEF Opened
<1>9. ~harmed => Keeps(wallet)
  BY <1>8 DEF WalletInv
<1>10. ~harmed => Keeps(Append(wallet, c))'
  BY <1>1, <1>3, <1>9 DEF Keeps
<1> QED BY <1>1, <1>3, <1>4, <1>5, <1>6, <1>7, <1>9, <1>10 DEF WalletInv, Creating, Keeps

LEMMA WalletOpened ==
    ASSUME WalletInv, NEW c \in Creates, OpenWallet(c)
    PROVE  WalletInv'
<1> DEFINE e == [create[c] EXCEPT !.step = "opened"]
<1>1. /\ create[c].step = "generated" /\ create' = [create EXCEPT ![c] = e]
      /\ wallet' = <<>> /\ UNCHANGED <<created, harmed>>
  BY DEF OpenWallet, File!Truncated
<1>2. WalletTyped /\ create[c] \in [step : CreateSteps, wf : Seq(Addr)]
  BY DEF WalletInv, WalletTyped
<1>3. e \in [step : CreateSteps, wf : Seq(Addr)] /\ e.step = "opened" /\ e.wf = create[c].wf
  BY <1>2 DEF CreateSteps
<1> HIDE DEF e
<1>4. /\ create' \in [Creates -> [step : CreateSteps, wf : Seq(Addr)]]
      /\ create'[c] = e
      /\ \A d \in Creates : d # c => create'[d] = create[d]
  BY <1>1, <1>2, <1>3, CreateReplaced
<1>5. <<>> \in Seq(Addr)
  OBVIOUS
<1>6. WalletTyped'
  BY <1>1, <1>2, <1>4, <1>5 DEF WalletTyped
<1>7. \A d \in Creates : d # c => create[d].step \in {"idle", "done"}
  BY <1>1 DEF WalletInv, Creating
<1>8. Opened'
  BY <1>3, <1>4 DEF Opened
<1>9. ~harmed => Keeps(create[c].wf) /\ c \in ToSet(create[c].wf)
  BY <1>1 DEF WalletInv
<1> QED BY <1>1, <1>3, <1>4, <1>6, <1>7, <1>8, <1>9 DEF WalletInv, Creating, Keeps

LEMMA WalletSaved ==
    ASSUME WalletInv, NEW c \in Creates, SaveWallet(c)
    PROVE  WalletInv'
<1> DEFINE e == [create[c] EXCEPT !.step = "saved"]
<1>1. /\ create[c].step = "opened" /\ create' = [create EXCEPT ![c] = e]
      /\ wallet = <<>> /\ wallet' \in File!Written(wallet, create[c].wf)
      /\ UNCHANGED <<created, harmed>>
  BY DEF SaveWallet, WalletInv
<1>2. wallet' = create[c].wf
  BY <1>1 DEF File!Written
<1>3. WalletTyped /\ create[c] \in [step : CreateSteps, wf : Seq(Addr)]
  BY DEF WalletInv, WalletTyped
<1>4. e \in [step : CreateSteps, wf : Seq(Addr)] /\ e.step = "saved"
  BY <1>3 DEF CreateSteps
<1> HIDE DEF e
<1>5. /\ create' \in [Creates -> [step : CreateSteps, wf : Seq(Addr)]]
      /\ create'[c] = e
      /\ \A d \in Creates : d # c => create'[d] = create[d]
  BY <1>1, <1>3, <1>4, CreateReplaced
<1>6. WalletTyped'
  BY <1>1, <1>2, <1>3, <1>5 DEF WalletTyped
<1>7. \A d \in Creates : d # c => create[d].step \in {"idle", "done"}
  BY <1>1 DEF WalletInv, Creating
<1>8. ~harmed => Keeps(create[c].wf) /\ c \in ToSet(create[c].wf)
  BY <1>1 DEF WalletInv
<1> QED BY <1>1, <1>2, <1>4, <1>5, <1>6, <1>7, <1>8 DEF WalletInv, Creating, Keeps

\* The command prints the address, fails or is killed.
LEMMA CreateEnds ==
    ASSUME WalletInv, NEW c \in Creates, SaveFails(c) \/ PrintAccount(c) \/ KillCreate(c)
    PROVE  WalletInv'
<1> DEFINE e == [NotCreating EXCEPT !.step = "done"]
<1>1. create' = [create EXCEPT ![c] = e] /\ Creating(c)
  BY DEF SaveFails, PrintAccount, KillCreate, Creating
<1>2. WalletTyped /\ wallet \in Seq(Addr)
  BY DEF WalletInv, WalletTyped
<1>3. e \in [step : CreateSteps, wf : Seq(Addr)] /\ e.step = "done"
  BY NotCreatingTyped
<1> HIDE DEF e
<1>4. /\ create' \in [Creates -> [step : CreateSteps, wf : Seq(Addr)]]
      /\ create'[c] = e
      /\ \A d \in Creates : d # c => create'[d] = create[d]
  BY <1>1, <1>2, <1>3, CreateReplaced
<1>5. \A d \in Creates : d # c => create[d].step \in {"idle", "done"}
  BY <1>1 DEF WalletInv, Creating
<1>6. <<>> \in Seq(Addr)
  OBVIOUS
<1>7. /\ harmed' \in BOOLEAN
      /\ ~harmed' => ~harmed /\ create[c].step # "opened" /\ wallet' = wallet
      /\ wallet' = wallet \/ wallet' = <<>>
      /\ \/ created' = created
         \/ created' = created \cup {c} /\ create[c].step = "saved"
  <2>0. harmed \in BOOLEAN
    BY <1>2 DEF WalletTyped
  <2>1. CASE SaveFails(c)
    BY <2>0, <2>1 DEF SaveFails
  <2>2. CASE PrintAccount(c)
    BY <2>0, <2>2 DEF PrintAccount
  <2>3. CASE KillCreate(c)
    BY <2>0, <2>3 DEF KillCreate
  <2> QED BY <2>1, <2>2, <2>3
<1>8. WalletTyped'
  BY <1>2, <1>4, <1>6, <1>7 DEF WalletTyped
<1>9. ~harmed' => Keeps(wallet) /\ (create[c].step = "saved" => c \in ToSet(wallet))
  BY <1>5, <1>7 DEF WalletInv, Opened
<1>10. ~harmed' => Keeps(wallet)'
  BY <1>7, <1>9 DEF Keeps
<1>11. \A d \in Creates : create'[d].step \in {"idle", "done"}
  BY <1>3, <1>4, <1>5
<1> QED BY <1>8, <1>10, <1>11 DEF WalletInv, Creating

LEMMA WalletNextStep ==
    ASSUME CreatesOverlap = FALSE, WalletInv, WalletNext \/ UNCHANGED walletVars
    PROVE  WalletInv'
<1>1. CASE WalletNext
  BY <1>1, KeyGenerated, WalletOpened, WalletSaved, CreateEnds DEF WalletNext
<1>2. CASE UNCHANGED walletVars
  BY <1>2 DEF walletVars, WalletInv, WalletTyped, Keeps, Opened, Creating
<1> QED BY <1>1, <1>2

\* Steps outside WalletNext leave wallet.dat and its commands alone.
LEMMA WalletLeftAlone ==
    ASSUME [DaemonNext]_allVars
    PROVE  \/ UNCHANGED walletVars
           \/ WalletNext /\ UNCHANGED <<vars, owner, mempoolFile, loopStep, diskMempool, request,
                                        sending, submitted, lapses>>
<1>1. CASE UNCHANGED allVars
  BY <1>1 DEF allVars, daemonVars, otherVars
<1>2. CASE StartDaemon \/ LedgerStep \/ Kill \/ Stop \/ BalancePrinted
  BY <1>2 DEF StartDaemon, LedgerStep, MiningStep, Kill, Stop, BalancePrinted, ProcessGone,
              daemonVars, otherVars
<1>3. CASE LoadMempool \/ InstallMempool \/ LoopMines \/ LoopClears
  BY <1>3 DEF LoadMempool, InstallMempool, LoopMines, LoopClears, otherVars
<1>4. CASE Generate \/ HandlerMines \/ HandlerMined \/ HandlerPanics \/ HandlerClears
  BY <1>4 DEF Generate, HandlerMines, HandlerMined, HandlerPanics, HandlerClears, otherVars
<1>5. CASE \/ \E tx \in Transfers : HandleSendTx(tx)
           \/ ReadMempoolFile \/ HandleCheckBalance
           \/ TruncateMempoolFile \/ WriteMempoolFile
  BY <1>5 DEF HandleSendTx, ReadMempoolFile, HandleCheckBalance, TruncateMempoolFile,
              WriteMempoolFile, otherVars
<1> QED BY <1>1, <1>2, <1>3, <1>4, <1>5 DEF DaemonNext

LEMMA WalletInvKept ==
    ASSUME CreatesOverlap = FALSE, WalletInv, [DaemonNext]_allVars
    PROVE  WalletInv'
BY WalletLeftAlone, WalletNextStep

\* While create commands take turns, no key that was printed, or that was there
\* before, ever leaves wallet.dat, however many commands run; a command that
\* dies between truncating the file and writing it is what the history variable
\* harmed leaves out (wallet.go:160-209).
THEOREM DaemonKeysKept ==
    ASSUME CreatesOverlap = FALSE
    PROVE  DaemonSpec => []KeysKept
<1>1. DaemonInit => WalletInv
  BY WalletInitial
<1>2. WalletInv /\ [DaemonNext]_allVars => WalletInv'
  BY WalletInvKept
<1>3. WalletInv => KeysKept
  BY DEF WalletInv, KeysKept, Keeps
<1> QED BY <1>1, <1>2, <1>3, PTL DEF DaemonSpec

-----------------------------------------------------------------------------
(* Whom the daemon mines for                                               *)

\* A running daemon was started when the file was whole, or empty.
MinerInv ==
    /\ WalletInv
    /\ owner = "daemon" /\ ~harmed => MinerAddress \in {OldAccounts[1], SYSTEM_MINER}

\* MineBlock reads the miner's address and never changes it.
LEMMA MiningKeepsMiner ==
    ASSUME \/ SpawnGenesis \/ IndexGenesis
           \/ \E t \in Threads : MineStep(t) \/ RecoverPanic(t)
    PROVE  MinerAddress' = MinerAddress
<1>1. CASE SpawnGenesis \/ IndexGenesis
  BY <1>1 DEF SpawnGenesis, IndexGenesis, memory
<1>2. ASSUME NEW t \in Threads, MineStep(t) \/ RecoverPanic(t)
      PROVE  MinerAddress' = MinerAddress
  <2>1. CASE RejectMiner(t) \/ MineBlock(t) \/ RecoverPanic(t)
    BY <2>1 DEF RejectMiner, MineBlock, RecoverPanic, memory
  <2>2. CASE SelectTransfer(t) \/ SkipTransfer(t) \/ FinishSelection(t)
    BY <2>2 DEF SelectTransfer, SkipTransfer, FinishSelection, memory
  <2>3. CASE ComputeReward(t) \/ AdjustDifficulty(t) \/ AssembleBlock(t)
    BY <2>3 DEF ComputeReward, AdjustDifficulty, AssembleBlock, memory
  <2>4. CASE MineAndValidate(t) \/ CommitBlock(t) \/ CreditMiner(t)
    BY <2>4 DEF MineAndValidate, CommitBlock, CreditMiner, memory
  <2> QED BY <1>2, <2>1, <2>2, <2>3, <2>4 DEF MineStep
<1> QED BY <1>1, <1>2

\* Only a start gives the database to the daemon.
LEMMA MinerSteps ==
    ASSUME [DaemonNext]_allVars, ~StartDaemon
    PROVE  owner' = "daemon" => owner = "daemon" /\ MinerAddress' = MinerAddress
<1>1. CASE UNCHANGED allVars
  BY <1>1 DEF allVars, daemonVars, vars, memory
<1>2. CASE LedgerStep
  BY <1>2, MiningKeepsMiner DEF LedgerStep, MiningStep, Continue, daemonVars
<1>3. CASE Kill \/ Stop \/ BalancePrinted
  BY <1>3 DEF Kill, Stop, BalancePrinted, ProcessGone
<1>4. CASE LoadMempool \/ InstallMempool \/ LoopClears
  BY <1>4 DEF LoadMempool, InstallMempool, LoopClears, vars, memory
<1>5. CASE LoopMines \/ HandlerMines \/ HandlerPanics
  <2>1. loop \in Threads /\ handler \in Threads
    BY DaemonAssumption
  <2> QED BY <1>5, <2>1, MiningKeepsMiner DEF LoopMines, HandlerMines, HandlerPanics, MineStep
<1>6. CASE Generate \/ HandlerMined \/ HandlerClears
  BY <1>6 DEF Generate, HandlerMined, HandlerClears, vars, memory
<1>7. CASE \/ \E tx \in Transfers : HandleSendTx(tx)
           \/ HandleCheckBalance \/ WriteMempoolFile
  BY <1>7 DEF HandleSendTx, HandleCheckBalance, WriteMempoolFile, NewDatabase
<1>8. CASE ReadMempoolFile \/ TruncateMempoolFile
  BY <1>8 DEF ReadMempoolFile, TruncateMempoolFile, vars, memory
<1>9. CASE WalletNext /\ UNCHANGED <<vars, owner, mempoolFile, loopStep, diskMempool, request,
                                     sending, submitted, lapses>>
  BY <1>9 DEF vars, memory
<1> QED BY <1>1, <1>2, <1>3, <1>4, <1>5, <1>6, <1>7, <1>8, <1>9 DEF DaemonNext

\* A command that does harm stays on record.
LEMMA HarmStays ==
    ASSUME WalletInv, [DaemonNext]_allVars, ~harmed'
    PROVE  ~harmed
<1>1. CASE UNCHANGED walletVars
  BY <1>1 DEF walletVars
<1>2. CASE WalletNext
  BY <1>2 DEF WalletNext, GenerateNewAccount, OpenWallet, SaveWallet, SaveFails, PrintAccount,
              KillCreate
<1> QED BY <1>1, <1>2, WalletLeftAlone

\* A start while a command has truncated the file finds no account.
LEMMA StartMinesForOldest ==
    ASSUME OldAccounts # <<>>, WalletInv, StartDaemon, ~harmed
    PROVE  MinerAddress' \in {OldAccounts[1], SYSTEM_MINER}
<1>1. MinerAddress' = WalletMiner
  BY DEF StartDaemon, InitializeLedger
<1>2. CASE Opened
  <2>1. wallet = <<>>
    BY <1>2 DEF Opened, WalletInv
  <2> QED BY <1>1, <2>1 DEF WalletMiner, LoadWallet
<1>3. CASE ~Opened
  <2>1. wallet # <<>> /\ wallet[1] = OldAccounts[1]
    BY <1>3 DEF WalletInv, Keeps
  <2> QED BY <1>1, <2>1 DEF WalletMiner, LoadWallet
<1> QED BY <1>2, <1>3

LEMMA MinerNext ==
    ASSUME CreatesOverlap = FALSE, OldAccounts # <<>>, MinerInv, [DaemonNext]_allVars
    PROVE  MinerInv'
<1>1. WalletInv /\ WalletInv'
  BY WalletInvKept DEF MinerInv
<1>2. ASSUME owner' = "daemon", ~harmed' PROVE MinerAddress' \in {OldAccounts[1], SYSTEM_MINER}
  <2>1. ~harmed
    BY <1>1, <1>2, HarmStays
  <2>2. CASE StartDaemon
    BY <1>1, <2>1, <2>2, StartMinesForOldest
  <2>3. CASE ~StartDaemon
    BY <1>2, <2>1, <2>3, MinerSteps DEF MinerInv
  <2> QED BY <2>2, <2>3
<1> QED BY <1>1, <1>2 DEF MinerInv

\* With an account in the wallet and create commands that take turns, the
\* daemon mines for the oldest account or for none, whatever is created while
\* it is down or running (daemon/server.go:37-43, wallet.go:160-209).
THEOREM DaemonMinesForOldest ==
    ASSUME CreatesOverlap = FALSE, OldAccounts # <<>>
    PROVE  DaemonSpec => []MinesForOldest
<1>1. DaemonInit => MinerInv
  BY WalletInitial DEF DaemonInit, MinerInv
<1>2. MinerInv /\ [DaemonNext]_allVars => MinerInv'
  BY MinerNext
<1>3. MinerInv => MinesForOldest
  BY DEF MinerInv, MinesForOldest, Running
<1> QED BY <1>1, <1>2, <1>3, PTL DEF DaemonSpec

-----------------------------------------------------------------------------
(* Types while processes come and go                                       *)

\* Besides the types: a call under way belongs to the loop that waits for it or
\* to the request that is being served.
RunInv ==
    /\ OwnerInv /\ TypeInv /\ WalletTyped
    /\ reorg = NoReorg
    /\ diskMempool \in Seq(Transfers)
    /\ request \in [step : {"none", "next", "mining"}, left : Nat]
    /\ pc[loop] # "idle" => loopStep = "mining"
    /\ pc[handler] # "idle" => request.step = "mining"

LEMMA ThreadsAre ==
    /\ Threads = {loop, handler} /\ loop # handler
    /\ loop \in Threads /\ handler \in Threads /\ Handlers = {handler}
    /\ DaemonDifficulty \in InitialDifficulties /\ CliDifficulty \in InitialDifficulties
  BY DaemonAssumption

LEMMA NoRequestTyped ==
    /\ NoRequest \in [step : {"none", "next", "mining"}, left : Nat]
    /\ NoRequest.step = "none"
  BY DEF NoRequest

\* A step of one call leaves the others where they are.
LEMMA CallsApart ==
    ASSUME NEW t \in Threads, NEW u \in Threads, u # t, CallsTyped,
           MineStep(t) \/ RecoverPanic(t)
    PROVE  /\ pc'[u] = pc[u] /\ newBlock'[u] = newBlock[u] /\ cursor'[u] = cursor[u]
           /\ reorg' = reorg
<1>1. CASE RejectMiner(t) \/ MineBlock(t) \/ RecoverPanic(t)
  BY <1>1 DEF RejectMiner, MineBlock, RecoverPanic, CallsTyped
<1>2. CASE SelectTransfer(t) \/ SkipTransfer(t) \/ FinishSelection(t)
  BY <1>2 DEF SelectTransfer, SkipTransfer, FinishSelection, CallsTyped
<1>3. CASE ComputeReward(t) \/ AdjustDifficulty(t) \/ AssembleBlock(t)
  BY <1>3 DEF ComputeReward, AdjustDifficulty, AssembleBlock, CallsTyped
<1>4. CASE MineAndValidate(t) \/ CommitBlock(t) \/ CreditMiner(t)
  <2>1. reorg' = reorg /\ \E how \in PcStates :
            \/ pc' = [pc EXCEPT ![t] = how] /\ cursor' = cursor
                  /\ (newBlock' = newBlock
                        \/ \E b : newBlock' = [newBlock EXCEPT ![t] = b])
            \/ Finish(t, how)
    <3>1. CASE MineAndValidate(t)
      BY <3>1 DEF MineAndValidate, PcStates
    <3>2. CASE CommitBlock(t)
      BY <3>2 DEF CommitBlock, PcStates
    <3>3. CASE CreditMiner(t)
      BY <3>3 DEF CreditMiner, PcStates
    <3> QED BY <1>4, <3>1, <3>2, <3>3
  <2> QED BY <2>1 DEF Finish, CallsTyped
<1> QED BY <1>1, <1>2, <1>3, <1>4 DEF MineStep

\* A process without a call under way exits.
LEMMA ExitTyped ==
    ASSUME TypeInv, reorg = NoReorg, \A t \in Threads : pc[t] = "idle", Exit
    PROVE  TypeInv'
<1>1. MemoryTyped'
  BY NoStateTyped, NoReorgTyped DEF Exit, TypeInv, MemoryTyped, Miners
<1>2. MemorySound'
  BY NoReorgTyped DEF Exit, MemorySound
<1>3. CallsTyped' /\ CallsSound'
  BY DEF Exit, locals, TypeInv, CallsTyped, CallsSound, CallSound
<1>4. DiskTyped' /\ DiskSound'
  BY DEF Exit, disk, TypeInv, DiskTyped, DiskSound
<1> QED BY <1>1, <1>2, <1>3, <1>4 DEF TypeInv

LEMMA InstallTyped ==
    ASSUME TypeInv, diskMempool \in Seq(Transfers), InstallMempool
    PROVE  TypeInv'
<1>1. /\ Mempool' = diskMempool
      /\ UNCHANGED <<status, Chain, State, MinerAddress, TargetDifficulty, Mu, reorg>>
      /\ UNCHANGED locals /\ UNCHANGED disk
  BY DEF InstallMempool
<1>2. MemoryTyped' /\ MemorySound'
  BY <1>1 DEF TypeInv, MemoryTyped, MemorySound
<1>3. CallsTyped' /\ CallsSound' /\ DiskTyped' /\ DiskSound'
  BY <1>1 DEF locals, disk, TypeInv, CallsTyped, CallsSound, CallSound, DiskTyped, DiskSound
<1> QED BY <1>2, <1>3 DEF TypeInv

\* Genesis, a call or its recovery: steps of module Ledger.
LEMMA LedgerStepTyped ==
    ASSUME TypeInv,
           \/ SpawnGenesis \/ IndexGenesis \/ Crash \/ UNCHANGED vars
           \/ \E t \in Threads : MineStep(t) \/ RecoverPanic(t)
    PROVE  TypeInv'
<1>1. [Next]_vars
  BY DEF Next
<1> QED BY <1>1, TypeNext

\* A start: whoever mines is an account, or nobody.
LEMMA MinersAre ==
    ASSUME WalletTyped
    PROVE  WalletMiner \in Miners /\ SYSTEM_MINER \in Miners
<1>1. wallet # <<>> => wallet[1] \in Addr
  <2>1. wallet # <<>> => 1 \in 1 .. Len(wallet)
    BY DEF WalletTyped
  <2> QED BY <2>1 DEF WalletTyped
<1> QED BY <1>1 DEF WalletMiner, LoadWallet, Miners, Accounts

LEMMA StartTyped ==
    ASSUME TypeInv, WalletTyped,
           \/ StartDaemon \/ HandleCheckBalance \/ \E tx \in Transfers : HandleSendTx(tx)
    PROVE  TypeInv' /\ UNCHANGED locals /\ UNCHANGED reorg
<1>1. CASE StartDaemon
  BY <1>1, MinersAre, ThreadsAre, TypeInitialize DEF StartDaemon, InitializeLedger
<1>2. CASE HandleCheckBalance
  BY <1>2, MinersAre, ThreadsAre, TypeInitialize DEF HandleCheckBalance, InitializeLedger
<1>3. ASSUME NEW tx \in Transfers, HandleSendTx(tx)
      PROVE  TypeInv' /\ UNCHANGED locals /\ UNCHANGED reorg
  <2>1. tx.from \in Miners
    BY TransferAssumption DEF Miners, Accounts
  <2> QED BY <1>3, <2>1, ThreadsAre, TypeInitialize DEF HandleSendTx, InitializeLedger
<1> QED BY <1>1, <1>2, <1>3

LEMMA RunInitial == DaemonInit => RunInv
<1> SUFFICES ASSUME DaemonInit PROVE RunInv
  OBVIOUS
<1>1. OwnerInv /\ TypeInv /\ WalletTyped
  BY OwnerInitial, InitTyped, WalletInitial DEF DaemonInit, WalletInv
<1>2. <<>> \in Seq(Transfers)
  OBVIOUS
<1> QED BY <1>1, <1>2, NoRequestTyped, ThreadsAre DEF DaemonInit, Init, PerThread, RunInv

\* wallet.dat always holds some container, overlapping commands or not.
LEMMA WalletTypedKept ==
    ASSUME WalletTyped, [DaemonNext]_allVars
    PROVE  WalletTyped'
<1>1. CASE UNCHANGED walletVars
  BY <1>1 DEF walletVars, WalletTyped
<1>2. ASSUME NEW c \in Creates,
             \/ GenerateNewAccount(c) \/ OpenWallet(c) \/ SaveWallet(c)
             \/ SaveFails(c) \/ PrintAccount(c) \/ KillCreate(c)
      PROVE  WalletTyped'
  <2>0. /\ wallet \in Seq(Addr) /\ c \in Addr /\ created \cup {c} \subseteq Creates
        /\ create[c] \in [step : CreateSteps, wf : Seq(Addr)] /\ create[c].wf \in Seq(Addr)
    BY DaemonAssumption DEF WalletTyped
  <2>1. <<>> \in Seq(Addr)
    OBVIOUS
  <2>2. CASE GenerateNewAccount(c)
    <3> DEFINE e == [step |-> "generated", wf |-> Append(wallet, c)]
    <3>1. create' = [create EXCEPT ![c] = e] /\ UNCHANGED <<wallet, created, harmed>>
      BY <2>2 DEF GenerateNewAccount, WithAccount, LoadWallet
    <3>2. e \in [step : CreateSteps, wf : Seq(Addr)]
      BY <2>0, ToSetOfAppend DEF CreateSteps
    <3> HIDE DEF e
    <3> QED BY <3>1, <3>2, CreateReplaced DEF WalletTyped
  <2>3. CASE OpenWallet(c) \/ SaveWallet(c)
    <3>1. PICK step \in CreateSteps : create' = [create EXCEPT ![c].step = step]
      BY <2>3 DEF OpenWallet, SaveWallet, CreateSteps
    <3> DEFINE e == [create[c] EXCEPT !.step = step]
    <3>2. create' = [create EXCEPT ![c] = e] /\ e \in [step : CreateSteps, wf : Seq(Addr)]
      BY <2>0, <3>1
    <3>3. wallet' \in {<<>>, create[c].wf} /\ UNCHANGED <<created, harmed>>
      BY <2>3 DEF OpenWallet, SaveWallet, File!Truncated, File!Written
    <3> HIDE DEF e
    <3>4. create' \in [Creates -> [step : CreateSteps, wf : Seq(Addr)]]
      BY <3>2, CreateReplaced
    <3> QED BY <2>0, <2>1, <3>3, <3>4 DEF WalletTyped
  <2>4. CASE SaveFails(c) \/ PrintAccount(c) \/ KillCreate(c)
    <3> DEFINE e == [NotCreating EXCEPT !.step = "done"]
    <3>1. create' = [create EXCEPT ![c] = e]
      BY <2>4 DEF SaveFails, PrintAccount, KillCreate
    <3>2. e \in [step : CreateSteps, wf : Seq(Addr)]
      BY NotCreatingTyped
    <3> HIDE DEF e
    <3>3. create' \in [Creates -> [step : CreateSteps, wf : Seq(Addr)]]
      BY <3>1, <3>2, CreateReplaced
    <3>4. wallet' \in {<<>>, wallet} /\ created' \in {created, created \cup {c}}
      BY <2>4 DEF SaveFails, PrintAccount, KillCreate
    <3>5. harmed' \in BOOLEAN
      BY <2>4 DEF SaveFails, PrintAccount, KillCreate, WalletTyped
    <3> QED BY <2>0, <2>1, <3>3, <3>4, <3>5 DEF WalletTyped
  <2> QED BY <1>2, <2>2, <2>3, <2>4
<1> QED BY <1>1, <1>2, WalletLeftAlone DEF WalletNext

\* The variables of the ledger, step by step.
LEMMA RunTypes ==
    ASSUME RunInv, [DaemonNext]_allVars
    PROVE  TypeInv' /\ reorg' = NoReorg
<1>0. TypeInv /\ WalletTyped /\ reorg = NoReorg /\ diskMempool \in Seq(Transfers)
  BY DEF RunInv
<1>1. CASE \/ StartDaemon \/ HandleCheckBalance \/ \E tx \in Transfers : HandleSendTx(tx)
  BY <1>0, <1>1, StartTyped
<1>2. CASE LedgerStep \/ LoopMines \/ HandlerMines \/ HandlerPanics
  <2>1. \/ SpawnGenesis \/ IndexGenesis
        \/ \E t \in Threads : MineStep(t) \/ RecoverPanic(t)
    BY <1>2, ThreadsAre DEF LedgerStep, MiningStep, Continue, LoopMines, HandlerMines,
                            HandlerPanics, MineStep
  <2>2. reorg' = reorg
    <3>1. CASE SpawnGenesis \/ IndexGenesis
      BY <3>1 DEF SpawnGenesis, IndexGenesis
    <3>2. ASSUME NEW t \in Threads, MineStep(t) \/ RecoverPanic(t) PROVE reorg' = reorg
      <4>1. \E u \in Threads : u # t
        BY ThreadsAre
      <4> QED BY <1>0, <3>2, <4>1, CallsApart DEF TypeInv
    <3> QED BY <2>1, <3>1, <3>2
  <2> QED BY <1>0, <2>1, <2>2, LedgerStepTyped
<1>3. CASE Kill \/ Stop
  BY <1>0, <1>3, TypeEnds DEF Kill, Crash, Stop, ProcessEnds
<1>4. CASE WriteMempoolFile \/ BalancePrinted
  <2>1. loopStep = "asleep" /\ request = NoRequest
    BY <1>4 DEF WriteMempoolFile, BalancePrinted, RunInv, OwnerInv
  <2>2. \A t \in Threads : pc[t] = "idle"
    BY <2>1, ThreadsAre, NoRequestTyped DEF RunInv
  <2>3. Exit
    BY <1>4 DEF WriteMempoolFile, BalancePrinted
  <2> QED BY <1>0, <2>2, <2>3, ExitTyped DEF Exit
<1>5. CASE InstallMempool
  BY <1>0, <1>5, InstallTyped DEF InstallMempool
<1>6. CASE \/ LoadMempool \/ LoopClears
           \/ Generate \/ HandlerMined \/ HandlerClears
           \/ ReadMempoolFile \/ TruncateMempoolFile
           \/ UNCHANGED allVars
           \/ WalletNext /\ UNCHANGED <<vars, owner, mempoolFile, loopStep, diskMempool, request,
                                        sending, submitted, lapses>>
  <2>1. UNCHANGED vars
    BY <1>6 DEF LoadMempool, LoopClears, Generate, HandlerMined, HandlerClears,
                ReadMempoolFile, TruncateMempoolFile, allVars
  <2> QED BY <1>0, <2>1, LedgerStepTyped DEF vars
<1> QED BY <1>1, <1>2, <1>3, <1>4, <1>5, <1>6 DEF DaemonNext

\* Who is mining, and for whom.
LEMMA RunCalls ==
    ASSUME RunInv, [DaemonNext]_allVars
    PROVE  /\ pc'[loop] # "idle" => loopStep' = "mining"
           /\ pc'[handler] # "idle" => request'.step = "mining"
           /\ diskMempool' \in Seq(Transfers)
           /\ request' \in [step : {"none", "next", "mining"}, left : Nat]
<1>0. /\ CallsTyped /\ mempoolFile \in Seq(Transfers) /\ <<>> \in Seq(Transfers)
      /\ pc[loop] # "idle" => loopStep = "mining"
      /\ pc[handler] # "idle" => request.step = "mining"
      /\ diskMempool \in Seq(Transfers)
      /\ request \in [step : {"none", "next", "mining"}, left : Nat]
  <2>1. <<>> \in Seq(Transfers)
    OBVIOUS
  <2> QED BY <2>1 DEF RunInv, TypeInv, OwnerInv
<1>1. CASE \/ StartDaemon \/ HandleCheckBalance \/ \E tx \in Transfers : HandleSendTx(tx)
  <2>1. UNCHANGED locals /\ UNCHANGED <<loopStep, diskMempool, request>>
    BY <1>1, StartTyped DEF StartDaemon, HandleCheckBalance, HandleSendTx, RunInv
  <2> QED BY <1>0, <2>1 DEF locals
<1>2. CASE LedgerStep
  <2>0. UNCHANGED <<loopStep, diskMempool, request>>
    BY <1>2 DEF LedgerStep, MiningStep, daemonVars
  <2>1. CASE SpawnGenesis \/ IndexGenesis
    BY <1>0, <2>0, <2>1 DEF SpawnGenesis, IndexGenesis, locals
  <2>2. ASSUME NEW t \in Threads, Continue(t)
        PROVE  \A u \in Threads : pc'[u] # "idle" => pc[u] # "idle"
    BY <1>0, <2>2, CallsApart DEF Continue
  <2> QED BY <1>0, <1>2, <2>0, <2>1, <2>2, ThreadsAre DEF LedgerStep, MiningStep
<1>3. CASE LoopMines
  BY <1>0, <1>3, CallsApart, ThreadsAre DEF LoopMines, MineStep
<1>4. CASE HandlerMines
  <2>1. pc'[loop] = pc[loop] /\ loopStep' = loopStep /\ diskMempool' = diskMempool
    BY <1>0, <1>4, CallsApart, ThreadsAre DEF HandlerMines, MineStep
  <2>2. request' = [request EXCEPT !.step = "mining", !.left = @ - 1] /\ request.left > 0
    BY <1>4 DEF HandlerMines
  <2>3. request.left \in Nat /\ request.left - 1 \in Nat
    BY <1>0, <2>2
  <2>4. /\ request' \in [step : {"none", "next", "mining"}, left : Nat]
        /\ request'.step = "mining"
    BY <1>0, <2>2, <2>3
  <2> QED BY <1>0, <2>1, <2>4
<1>5. CASE HandlerPanics
  <2>1. pc'[loop] = pc[loop] /\ loopStep' = loopStep /\ diskMempool' = diskMempool
    BY <1>0, <1>5, CallsApart, ThreadsAre DEF HandlerPanics
  <2>2. pc'[handler] = "idle" /\ request' = NoRequest
    BY <1>0, <1>5, ThreadsAre DEF HandlerPanics, RecoverPanic, CallsTyped
  <2> QED BY <1>0, <2>1, <2>2, NoRequestTyped
<1>6. CASE Kill \/ Stop
  BY <1>0, <1>6, ThreadsAre, NoRequestTyped DEF Kill, Crash, Stop, ProcessEnds, PerThread,
     ProcessGone
<1>7. CASE BalancePrinted
  <2>1. pc' = pc /\ loopStep = "asleep" /\ request = NoRequest
    BY <1>7 DEF BalancePrinted, Exit, locals, RunInv, OwnerInv
  <2> QED BY <1>0, <1>7, <2>1, NoRequestTyped DEF BalancePrinted, ProcessGone
<1>8. CASE WriteMempoolFile
  BY <1>0, <1>8 DEF WriteMempoolFile, Exit, locals
<1>9. CASE \/ LoadMempool \/ LoopClears \/ InstallMempool
           \/ ReadMempoolFile \/ TruncateMempoolFile \/ UNCHANGED allVars
           \/ WalletNext /\ UNCHANGED <<vars, owner, mempoolFile, loopStep, diskMempool, request,
                                        sending, submitted, lapses>>
  <2>1. CASE LoadMempool \/ LoopClears \/ InstallMempool
    BY <1>0, <2>1 DEF LoadMempool, LoopClears, InstallMempool, vars, locals
  <2>2. CASE ~(LoadMempool \/ LoopClears \/ InstallMempool)
    BY <1>0, <1>9, <2>2 DEF ReadMempoolFile, TruncateMempoolFile, allVars, daemonVars,
                            vars, locals
  <2> QED BY <2>1, <2>2
<1>10. CASE Generate \/ HandlerMined \/ HandlerClears
  <2>1. pc' = pc /\ UNCHANGED <<loopStep, diskMempool>>
    BY <1>10 DEF Generate, HandlerMined, HandlerClears, vars, locals
  <2>2. pc[handler] = "idle"
    BY <1>0, <1>10, NoRequestTyped DEF Generate, HandlerMined, HandlerClears
  <2>3. request' \in [step : {"none", "next", "mining"}, left : Nat]
    <3>1. CASE Generate
      BY <3>1, DaemonAssumption DEF Generate
    <3>2. CASE HandlerMined \/ HandlerClears
      BY <1>0, <3>2, NoRequestTyped DEF HandlerMined, HandlerClears
    <3> QED BY <1>10, <3>1, <3>2
  <2> QED BY <1>0, <2>1, <2>2, <2>3
<1> QED BY <1>1, <1>2, <1>3, <1>4, <1>5, <1>6, <1>7, <1>8, <1>9, <1>10 DEF DaemonNext

LEMMA RunNext == RunInv /\ [DaemonNext]_allVars => RunInv'
<1> SUFFICES ASSUME RunInv, [DaemonNext]_allVars PROVE RunInv'
  OBVIOUS
<1>1. OwnerInv'
  BY OwnerNext DEF RunInv
<1>2. WalletTyped'
  BY WalletTypedKept DEF RunInv
<1>3. TypeInv' /\ reorg' = NoReorg
  BY RunTypes
<1>4. /\ pc'[loop] # "idle" => loopStep' = "mining"
      /\ pc'[handler] # "idle" => request'.step = "mining"
      /\ diskMempool' \in Seq(Transfers)
      /\ request' \in [step : {"none", "next", "mining"}, left : Nat]
  BY RunCalls
<1> QED BY <1>1, <1>2, <1>3, <1>4 DEF RunInv

\* Every variable of the ledger keeps its type while daemons and commands take
\* turns at the database, the loop replaces the mempool and processes are killed:
\* the mempool the loop installs and the miner a start reads from wallet.dat are
\* as good as those module Ledger starts from (daemon/server.go:37-43, 112-126,
\* handlers.go:142-182).
THEOREM DaemonTyped == DaemonSpec => []TypeOK
<1>1. RunInv => TypeOK
  BY TypeInvTypes DEF RunInv
<1> QED BY <1>1, RunInitial, RunNext, PTL DEF DaemonSpec

-----------------------------------------------------------------------------
(* A transfer is executed once                                             *)

Once(s) == \A j, l \in DOMAIN s : s[j] = s[l] => j = l

\* The transfers of a chain, of the database above block_0, and of blocks that
\* have none in common and none twice.
ChainTxs(c)   == UNION {ToSet(c[i].txs) : i \in DOMAIN c}
StoredTxs(bl) == UNION {ToSet(bl[n].txs) : n \in 1 .. MaxHeight}
Apart(bl, S)  ==
    /\ \A n \in S : Once(bl[n].txs)
    /\ \A n, m \in S : n # m => ToSet(bl[n].txs) \cap ToSet(bl[m].txs) = {}

\* A list of transfers of which each is to be executed once, and not yet was.
Waits(s, W) == Once(s) /\ ToSet(s) \subseteq W

LEMMA OnceAppend ==
    ASSUME NEW s \in Seq(Transfers), NEW e \in Transfers
    PROVE  /\ Append(s, e) \in Seq(Transfers)
           /\ ToSet(Append(s, e)) = ToSet(s) \cup {e}
           /\ Once(s) /\ e \notin ToSet(s) => Once(Append(s, e))
<1>1. /\ Append(s, e) \in Seq(Transfers) /\ Len(s) \in Nat
      /\ DOMAIN Append(s, e) = 1 .. Len(s) + 1 /\ DOMAIN s = 1 .. Len(s)
      /\ \A i \in 1 .. Len(s) : Append(s, e)[i] = s[i]
      /\ Append(s, e)[Len(s) + 1] = e
  OBVIOUS
<1> DEFINE r == Append(s, e)
           n == Len(s)
<1>2. /\ n \in Nat /\ DOMAIN r = 1 .. n + 1 /\ DOMAIN s = 1 .. n
      /\ \A i \in 1 .. n : r[i] = s[i]
      /\ r[n + 1] = e
  BY <1>1
<1> HIDE DEF r, n
<1>3. ToSet(r) = ToSet(s) \cup {e}
  <2>1. \A x \in ToSet(r) : x \in ToSet(s) \cup {e}
    BY <1>2, SMT DEF ToSet
  <2>2. \A x \in ToSet(s) \cup {e} : x \in ToSet(r)
    BY <1>2, SMT DEF ToSet
  <2> QED BY <2>1, <2>2
<1>4. ASSUME Once(s), e \notin ToSet(s) PROVE Once(r)
  <2>1. \A i \in 1 .. n : s[i] # e
    BY <1>2, <1>4 DEF ToSet
  <2> QED BY <1>2, <1>4, <2>1 DEF Once
<1> QED BY <1>1, <1>3, <1>4 DEF r

LEMMA NothingOnce == Once(<<>>) /\ ToSet(<<>>) = {} /\ \A W : Waits(<<>>, W)
  BY DEF Once, ToSet, Waits

\* The chain that storage holds.
LEMMA ApartLoads ==
    ASSUME DiskTyped, Apart(blocks, 1 .. MaxHeight), blocks[0].txs = <<>>
    PROVE  /\ Apart(LoadedChain, DOMAIN LoadedChain)
           /\ ChainTxs(LoadedChain) \subseteq StoredTxs(blocks)
<1>1. /\ DOMAIN LoadedChain = 1 .. LoadedLength /\ LoadedLength \in Nat
      /\ \A i \in 1 .. LoadedLength : i - 1 \in Heights /\ LoadedChain[i] = blocks[i-1]
  <2>1. LoadedLength \in Nat
    BY LoadedLengthIs, BoundAssumption DEF DiskTyped, Heights, NoIndex
  <2> QED BY <2>1, LoadedChainIs DEF DiskTyped
<1>2. ASSUME NEW i \in 1 .. LoadedLength
      PROVE  \/ i = 1 /\ LoadedChain[i].txs = <<>>
             \/ i - 1 \in 1 .. MaxHeight /\ LoadedChain[i].txs = blocks[i-1].txs
  BY <1>1, BoundAssumption DEF Heights
<1>3. \A i \in 1 .. LoadedLength : Once(LoadedChain[i].txs)
  BY <1>2, NothingOnce DEF Apart
<1>4. ASSUME NEW i \in 1 .. LoadedLength, NEW k \in 1 .. LoadedLength, i # k
      PROVE  ToSet(LoadedChain[i].txs) \cap ToSet(LoadedChain[k].txs) = {}
  <2>1. CASE i = 1 \/ k = 1
    BY <1>2, <2>1, NothingOnce
  <2>2. CASE i # 1 /\ k # 1
    <3>1. i - 1 \in 1 .. MaxHeight /\ k - 1 \in 1 .. MaxHeight /\ i - 1 # k - 1
      BY <1>1, <1>2, <1>4, <2>2
    <3>2. /\ LoadedChain[i].txs = blocks[i-1].txs /\ LoadedChain[k].txs = blocks[k-1].txs
      BY <1>2, <2>2
    <3> QED BY <3>1, <3>2 DEF Apart
  <2> QED BY <2>1, <2>2
<1>5. \A i \in 1 .. LoadedLength : ToSet(LoadedChain[i].txs) \subseteq StoredTxs(blocks)
  BY <1>2, NothingOnce DEF StoredTxs
<1> QED BY <1>1, <1>3, <1>4, <1>5 DEF Apart, ChainTxs

LEMMA ApartAppend ==
    ASSUME NEW c \in Seq(Block), NEW b \in Block
    PROVE  /\ ChainTxs(Append(c, b)) = ChainTxs(c) \cup ToSet(b.txs)
           /\ (/\ Apart(c, DOMAIN c) /\ Once(b.txs)
               /\ ToSet(b.txs) \cap ChainTxs(c) = {})
                => Apart(Append(c, b), DOMAIN Append(c, b))
<1> DEFINE r == Append(c, b)
           n == Len(c)
<1>1. /\ n \in Nat /\ DOMAIN r = 1 .. n + 1 /\ DOMAIN c = 1 .. n
      /\ \A i \in 1 .. n : r[i] = c[i]
      /\ r[n + 1] = b
  OBVIOUS
<1> HIDE DEF r, n
<1>2. ChainTxs(r) = ChainTxs(c) \cup ToSet(b.txs)
  <2>1. ASSUME NEW x \in ChainTxs(r) PROVE x \in ChainTxs(c) \cup ToSet(b.txs)
    <3>1. PICK i \in 1 .. n + 1 : x \in ToSet(r[i].txs)
      BY <1>1 DEF ChainTxs
    <3>2. CASE i = n + 1
      BY <1>1, <3>1, <3>2
    <3>3. CASE i # n + 1
      <4>1. i \in 1 .. n /\ r[i] = c[i]
        BY <1>1, <3>3
      <4> QED BY <1>1, <3>1, <4>1 DEF ChainTxs
    <3> QED BY <3>2, <3>3
  <2>2. ASSUME NEW x \in ChainTxs(c) PROVE x \in ChainTxs(r)
    <3>1. PICK i \in 1 .. n : x \in ToSet(c[i].txs)
      BY <1>1 DEF ChainTxs
    <3>2. i \in 1 .. n + 1 /\ r[i] = c[i]
      BY <1>1
    <3> QED BY <1>1, <3>1, <3>2 DEF ChainTxs
  <2>3. ASSUME NEW x \in ToSet(b.txs) PROVE x \in ChainTxs(r)
    <3>1. n + 1 \in 1 .. n + 1
      BY <1>1
    <3> QED BY <1>1, <2>3, <3>1 DEF ChainTxs
  <2> QED BY <2>1, <2>2, <2>3
<1>3. ASSUME Apart(c, DOMAIN c), Once(b.txs), ToSet(b.txs) \cap ChainTxs(c) = {}
      PROVE  Apart(r, DOMAIN r)
  <2>0. \A i \in 1 .. n : Once(c[i].txs) /\ ToSet(b.txs) \cap ToSet(c[i].txs) = {}
    BY <1>1, <1>3 DEF Apart, ChainTxs
  <2>1. ASSUME NEW i \in 1 .. n + 1 PROVE Once(r[i].txs)
    <3>1. i \in 1 .. n \/ i = n + 1
      BY <1>1
    <3> QED BY <1>1, <1>3, <2>0, <3>1
  <2>2. ASSUME NEW i \in 1 .. n + 1, NEW k \in 1 .. n + 1, i # k
        PROVE  ToSet(r[i].txs) \cap ToSet(r[k].txs) = {}
    <3>1. CASE i = n + 1
      <4>1. k \in 1 .. n
        BY <1>1, <2>2, <3>1
      <4> QED BY <1>1, <2>0, <3>1, <4>1
    <3>2. CASE k = n + 1
      <4>1. i \in 1 .. n
        BY <1>1, <2>2, <3>2
      <4> QED BY <1>1, <2>0, <3>2, <4>1
    <3>3. CASE i # n + 1 /\ k # n + 1
      <4>1. i \in 1 .. n /\ k \in 1 .. n
        BY <1>1, <3>3
      <4> QED BY <1>1, <1>3, <2>2, <4>1 DEF Apart
    <3> QED BY <3>1, <3>2, <3>3
  <2> QED BY <1>1, <2>1, <2>2 DEF Apart
<1> QED BY <1>2, <1>3 DEF r

LEMMA ApartPut ==
    ASSUME NEW bl \in [Heights -> Block], NEW n \in 1 .. MaxHeight, NEW b \in Block,
           Apart(bl, 1 .. MaxHeight), Once(b.txs), ToSet(b.txs) \cap StoredTxs(bl) = {}
    PROVE  /\ Apart([bl EXCEPT ![n] = b], 1 .. MaxHeight)
           /\ StoredTxs([bl EXCEPT ![n] = b]) \subseteq StoredTxs(bl) \cup ToSet(b.txs)
<1> DEFINE r == [bl EXCEPT ![n] = b]
<1>1. \A m \in 1 .. MaxHeight : r[m] = IF m = n THEN b ELSE bl[m]
  BY BoundAssumption DEF Heights
<1> HIDE DEF r
<1>2. \A m \in 1 .. MaxHeight : Once(bl[m].txs) /\ ToSet(b.txs) \cap ToSet(bl[m].txs) = {}
  BY DEF Apart, StoredTxs
<1>3. Apart(r, 1 .. MaxHeight)
  BY <1>1, <1>2 DEF Apart
<1>4. StoredTxs(r) \subseteq StoredTxs(bl) \cup ToSet(b.txs)
  BY <1>1 DEF StoredTxs
<1> QED BY <1>3, <1>4 DEF r

\* Chain and database, ...
ChainOnce ==
    /\ Apart(Chain, DOMAIN Chain) /\ Apart(blocks, 1 .. MaxHeight)
    /\ blocks[0].policy = "current" => blocks[0].txs = <<>>
    /\ ChainTxs(Chain) \cup StoredTxs(blocks) \subseteq submitted
Unmined == submitted \ (ChainTxs(Chain) \cup StoredTxs(blocks))

\* What the calls under way take from the queue, until it is in the chain.
Flying(t) == IF pc[t] \in {"saved", "unsaved"} THEN {} ELSE ToSet(newBlock[t].txs)
CallsOnce ==
    \A t \in Threads :
        /\ pc[t] \in {"idle", "panicked"} => newBlock[t].txs = <<>>
        /\ pc[t] \notin {"saved", "unsaved"} => Waits(newBlock[t].txs, Unmined)
        /\ \A u \in Threads : u # t => Flying(t) \cap Flying(u) = {}

\* What waits in the queue no call has taken, but for the call that is selecting
\* from it right now, behind whose cursor it is.
QueueOnce ==
    /\ Once(Mempool)
    /\ \A k \in DOMAIN Mempool :
        /\ Mempool[k] \in Unmined
        /\ \A u \in Threads :
             Mempool[k] \in Flying(u) => pc[u] = "selecting" /\ k < cursor[u]

\* The file until its content is queued, and what was read from it.
FileOnce ==
    /\ loopStep \notin {"installed", "mining"} => Waits(mempoolFile, Unmined)
    /\ loopStep = "loaded" => Waits(diskMempool, Unmined)

\* The command at work on the file.
SendOnce ==
    /\ sending.step \in {"opening", "read", "truncated"} =>
         \A tx \in sending.tx :
            /\ tx \in Unmined
            /\ tx \notin ToSet(mempoolFile) \cup ToSet(sending.existingMempool)
    /\ sending.step \in {"read", "truncated"} => Waits(sending.existingMempool, Unmined)

Sound == ChainOnce /\ CallsOnce /\ QueueOnce /\ FileOnce /\ SendOnce

\* A process has nothing to mine before its loop has read mempool.json: the file
\* is not written to while the daemon lives, except to empty it.
Empty == Mempool = <<>> /\ \A t \in Threads : newBlock[t].txs = <<>>
Early ==
    \/ owner # "daemon"
    \/ loopStep \notin {"installed", "mining"} /\ (mempoolFile # <<>> \/ loopStep = "loaded")
FreshInv == Early => Empty

OnceInv == RunInv /\ LockInv /\ SendAtomic /\ FreshInv /\ (lapses = {} => Sound)

-----------------------------------------------------------------------------
\* Starts, stops and the rest of the daemon's steps keep the mutex and the calls
\* in step; so do the steps of module Ledger.
LEMMA LockKept ==
    ASSUME RunInv, LockInv, [DaemonNext]_allVars
    PROVE  LockInv'
<1>1. CASE \/ StartDaemon \/ HandleCheckBalance \/ \E tx \in Transfers : HandleSendTx(tx)
  <2>1. Mu' = Mu /\ pc' = pc
    BY <1>1 DEF StartDaemon, HandleCheckBalance, HandleSendTx, InitializeLedger, locals
  <2> QED BY <2>1, LockStutter
<1>2. CASE LedgerStep \/ LoopMines \/ HandlerMines \/ HandlerPanics
  <2>1. \/ SpawnGenesis \/ IndexGenesis
        \/ \E t \in Threads : MineStep(t) \/ RecoverPanic(t)
    BY <1>2, ThreadsAre DEF LedgerStep, MiningStep, Continue, LoopMines, HandlerMines,
                            HandlerPanics, MineStep
  <2>2. Next
    BY <2>1 DEF Next
  <2> QED BY <2>2, LockNext
<1>3. CASE Kill \/ Stop
  <2>1. Mu' = Free /\ pc' = [t \in Threads |-> "idle"]
    BY <1>3 DEF Kill, Stop, Crash, ProcessEnds, PerThread
  <2> QED BY <2>1, ThreadAssumption DEF LockInv, LockDiscipline, Free, PcStates
<1>4. CASE WriteMempoolFile \/ BalancePrinted
  <2>1. Mu' = Mu /\ pc' = pc
    BY <1>4 DEF WriteMempoolFile, BalancePrinted, Exit, locals
  <2> QED BY <2>1, LockStutter
<1>5. CASE InstallMempool
  <2>1. Mu' = Mu /\ pc' = pc
    BY <1>5 DEF InstallMempool, locals
  <2> QED BY <2>1, LockStutter
<1>6. CASE \/ LoadMempool \/ LoopClears
           \/ Generate \/ HandlerMined \/ HandlerClears
           \/ ReadMempoolFile \/ TruncateMempoolFile
           \/ UNCHANGED allVars
           \/ WalletNext /\ UNCHANGED <<vars, owner, mempoolFile, loopStep, diskMempool, request,
                                        sending, submitted, lapses>>
  <2>1. Mu' = Mu /\ pc' = pc
    BY <1>6 DEF LoadMempool, LoopClears, Generate, HandlerMined, HandlerClears,
                ReadMempoolFile, TruncateMempoolFile, allVars, vars, locals
  <2> QED BY <2>1, LockStutter
<1> QED BY <1>1, <1>2, <1>3, <1>4, <1>5, <1>6 DEF DaemonNext

LEMMA OneSelects ==
    ASSUME LockInv, NEW t \in Threads, NEW u \in Threads,
           pc[t] = "selecting", pc[u] = "selecting"
    PROVE  t = u
<1>1. Mu = t /\ Mu = u
  BY DEF LockInv, LockDiscipline
<1> QED BY <1>1

\* The queue without its first n entries.
LEMMA OnceSuffix ==
    ASSUME NEW s \in Seq(Transfers), NEW n \in Nat
    PROVE  /\ Once(s) => Once(SubSeq(s, n + 1, Len(s)))
           /\ ToSet(SubSeq(s, n + 1, Len(s))) \subseteq ToSet(s)
           /\ s = <<>> => SubSeq(s, n + 1, Len(s)) = <<>>
<1> DEFINE m == Len(s)
           r == SubSeq(s, n + 1, Len(s))
<1>1. /\ m \in Nat /\ DOMAIN s = 1 .. m
      /\ r \in Seq(Transfers) /\ Len(r) = IF n + 1 <= m THEN m - n ELSE 0
      /\ DOMAIN r = 1 .. Len(r)
      /\ \A i \in 1 .. Len(r) : i + n \in 1 .. m /\ r[i] = s[i + n]
  BY SMT
<1> HIDE DEF r, m
<1>2. Once(s) => Once(r)
  <2> SUFFICES ASSUME Once(s), NEW i \in 1 .. Len(r), NEW j \in 1 .. Len(r), r[i] = r[j]
               PROVE  i = j
    BY <1>1 DEF Once
  <2>1. s[i + n] = s[j + n] /\ i + n \in 1 .. m /\ j + n \in 1 .. m
    BY <1>1
  <2>2. i + n = j + n
    BY <1>1, <2>1 DEF Once
  <2> QED BY <1>1, <2>2
<1>3. ToSet(r) \subseteq ToSet(s)
  <2> SUFFICES ASSUME NEW i \in 1 .. Len(r) PROVE r[i] \in ToSet(s)
    BY <1>1 DEF ToSet
  <2> QED BY <1>1 DEF ToSet
<1>4. s = <<>> => r = <<>>
  BY <1>1 DEF m
<1> QED BY <1>2, <1>3, <1>4 DEF r

\* The steps of a call, by what they do to the transfers at hand: besides those
\* that select, finish selecting and commit, a step begins or ends a call or
\* keeps the block's list.
Quiet(t) ==
    \/ /\ newBlock'[t].txs = newBlock[t].txs
       /\ pc[t] \in {"idle", "panicked"} /\ pc'[t] \notin {"saved", "unsaved"}
    \/ newBlock'[t].txs = <<>> /\ pc'[t] \in {"idle", "panicked"}
    \/ /\ newBlock'[t].txs = newBlock[t].txs
       /\ pc[t] \notin {"saved", "unsaved", "selecting"}
       /\ pc'[t] \in {"priced", "retargeted", "assembled", "mined"}

LEMMA CallSteps ==
    ASSUME TypeInv, NEW t \in Threads, MineStep(t) \/ RecoverPanic(t)
    PROVE  \/ SelectTransfer(t) \/ SkipTransfer(t) \/ FinishSelection(t) \/ CommitBlock(t)
           \/ Quiet(t) /\ UNCHANGED <<Chain, blocks, Mempool>>
<1>0. /\ newBlock \in [Threads -> Block] /\ pc \in [Threads -> PcStates]
      /\ newBlock[t] \in Block
  BY DEF TypeInv, CallsTyped
<1>1. CASE RejectMiner(t) \/ MineBlock(t) \/ RecoverPanic(t)
  <2>1. UNCHANGED <<Chain, blocks, Mempool, newBlock>>
    BY <1>1 DEF RejectMiner, MineBlock, RecoverPanic, memory, disk
  <2>2. pc[t] \in {"idle", "panicked"} /\ pc'[t] \in {"idle", "panicked", "selecting"}
    BY <1>0, <1>1 DEF RejectMiner, MineBlock, RecoverPanic, CanMine
  <2> QED BY <2>1, <2>2 DEF Quiet
<1>2. CASE ComputeReward(t) \/ AdjustDifficulty(t) \/ AssembleBlock(t)
  <2>1. UNCHANGED <<Chain, blocks, Mempool>>
    BY <1>2 DEF ComputeReward, AdjustDifficulty, AssembleBlock, memory, disk
  <2>2. newBlock'[t].txs = newBlock[t].txs
    <3>1. CASE ComputeReward(t)
      BY <1>0, <3>1 DEF ComputeReward, Block
    <3>2. CASE AdjustDifficulty(t)
      BY <1>0, <3>2 DEF AdjustDifficulty, Block
    <3>3. CASE AssembleBlock(t)
      BY <1>0, <3>3 DEF AssembleBlock, Block
    <3> QED BY <1>2, <3>1, <3>2, <3>3
  <2>3. /\ pc[t] \in {"selected", "priced", "retargeted"}
        /\ pc'[t] \in {"priced", "retargeted", "assembled"}
    BY <1>0, <1>2 DEF ComputeReward, AdjustDifficulty, AssembleBlock
  <2> QED BY <2>1, <2>2, <2>3 DEF Quiet
<1>3. CASE MineAndValidate(t)
  <2>0. UNCHANGED <<Chain, blocks, Mempool>> /\ pc[t] = "assembled"
    BY <1>3 DEF MineAndValidate, memory, disk
  <2>1. \/ Finish(t, "panicked")
        \/ /\ \E h, work : newBlock' = [newBlock EXCEPT
                              ![t] = [newBlock[t] EXCEPT !.hash = h, !.work = work]]
           /\ pc' = [pc EXCEPT ![t] = "mined"]
    BY <1>3 DEF MineAndValidate
  <2>2. CASE Finish(t, "panicked")
    <3>1. newBlock'[t].txs = <<>> /\ pc'[t] = "panicked"
      BY <1>0, <2>2 DEF Finish, NoBlock
    <3> QED BY <2>0, <3>1 DEF Quiet
  <2>3. ASSUME NEW h, NEW work, pc' = [pc EXCEPT ![t] = "mined"],
               newBlock' = [newBlock EXCEPT
                              ![t] = [newBlock[t] EXCEPT !.hash = h, !.work = work]]
        PROVE  Quiet(t)
    <3>1. newBlock'[t].txs = newBlock[t].txs /\ pc'[t] = "mined"
      BY <1>0, <2>3 DEF Block
    <3> QED BY <2>0, <3>1 DEF Quiet
  <2> QED BY <2>0, <2>1, <2>2, <2>3
<1>4. CASE CreditMiner(t)
  <2>1. UNCHANGED <<Chain, blocks, Mempool>> /\ Finish(t, "idle")
    BY <1>4 DEF CreditMiner
  <2>2. newBlock'[t].txs = <<>> /\ pc'[t] = "idle"
    BY <1>0, <2>1 DEF Finish, NoBlock
  <2> QED BY <2>1, <2>2 DEF Quiet
<1> QED BY <1>1, <1>2, <1>3, <1>4 DEF MineStep

\* Selecting, by its effect.
LEMMA SelectingSteps ==
    ASSUME TypeInv, NEW t \in Threads, SelectTransfer(t) \/ SkipTransfer(t)
    PROVE  /\ UNCHANGED <<Chain, blocks, pc, Mempool>> /\ pc[t] = "selecting"
           /\ cursor[t] \in 1 .. Len(Mempool) /\ cursor'[t] = cursor[t] + 1
           /\ Mempool[cursor[t]] \in Transfers
           /\ \/ newBlock'[t].txs = newBlock[t].txs
              \/ newBlock'[t].txs = Append(newBlock[t].txs, Mempool[cursor[t]])
<1>0. /\ newBlock \in [Threads -> Block] /\ cursor \in [Threads -> Nat]
      /\ newBlock[t] \in Block /\ Mempool \in Seq(Transfers) /\ CallSound(t)
  BY DEF TypeInv, CallsTyped, MemoryTyped, CallsSound
<1>1. /\ UNCHANGED <<Chain, blocks, pc, Mempool>>
      /\ pc[t] = "selecting" /\ cursor[t] <= Len(Mempool)
      /\ cursor' = [cursor EXCEPT ![t] = @ + 1]
  BY DEF SelectTransfer, SkipTransfer, AtTransfer, memory, disk
<1>2. cursor[t] \in 1 .. Len(Mempool) /\ cursor'[t] = cursor[t] + 1
  BY <1>0, <1>1 DEF CallSound
<1>3. Mempool[cursor[t]] \in Transfers
  BY <1>0, <1>2
<1>4. \/ newBlock'[t].txs = newBlock[t].txs
      \/ newBlock'[t].txs = Append(newBlock[t].txs, Mempool[cursor[t]])
  <2>1. CASE SkipTransfer(t)
    BY <2>1 DEF SkipTransfer
  <2>2. CASE SelectTransfer(t)
    BY <1>0, <2>2 DEF SelectTransfer, Candidate, Block
  <2> QED BY <2>1, <2>2
<1> QED BY <1>1, <1>2, <1>3, <1>4

LEMMA FinishSteps ==
    ASSUME TypeInv, NEW t \in Threads, FinishSelection(t)
    PROVE  /\ UNCHANGED <<Chain, blocks, newBlock>>
           /\ pc[t] = "selecting" /\ pc'[t] = "selected"
           /\ Len(newBlock[t].txs) \in Nat /\ Mempool \in Seq(Transfers)
           /\ Mempool' = SubSeq(Mempool, Len(newBlock[t].txs) + 1, Len(Mempool))
<1>1. newBlock[t].txs \in Seq(Transfers) /\ pc \in [Threads -> PcStates]
  BY BlockFields DEF TypeInv, CallsTyped
<1>2. Len(newBlock[t].txs) \in Nat
  BY <1>1
<1> QED BY <1>1, <1>2 DEF FinishSelection, disk, TypeInv, MemoryTyped

\* Mining finds nothing where there is nothing.
LEMMA EmptyMines ==
    ASSUME TypeInv, Empty, NEW t \in Threads, MineStep(t) \/ RecoverPanic(t)
    PROVE  Empty'
<1>1. \A u \in Threads : u # t => newBlock'[u] = newBlock[u]
  BY CallsApart DEF TypeInv
<1>2. newBlock[t].txs = <<>> /\ Mempool = <<>>
  BY DEF Empty
<1>3. Mempool' = <<>> /\ newBlock'[t].txs = <<>>
  <2>1. CASE SelectTransfer(t) \/ SkipTransfer(t)
    <3>1. cursor[t] \in 1 .. Len(Mempool)
      BY <2>1, SelectingSteps
    <3>2. Len(Mempool) = 0
      BY <1>2
    <3> QED BY <3>1, <3>2
  <2>2. CASE FinishSelection(t)
    BY <1>2, <2>2, FinishSteps, OnceSuffix
  <2>3. CASE CommitBlock(t)
    BY <1>2, <2>3 DEF CommitBlock
  <2>4. CASE Quiet(t) /\ UNCHANGED <<Chain, blocks, Mempool>>
    BY <1>2, <2>4 DEF Quiet
  <2> QED BY <2>1, <2>2, <2>3, <2>4, CallSteps
<1> QED BY <1>1, <1>3 DEF Empty

\* A process that has just begun, or has ended.
LEMMA FreshNext ==
    ASSUME RunInv, FreshInv, [DaemonNext]_allVars
    PROVE  FreshInv'
<1>0. /\ TypeInv /\ OwnerInv
      /\ owner # "daemon" => loopStep = "asleep" /\ request = NoRequest
  BY DEF RunInv, OwnerInv
<1>1. CASE \/ StartDaemon \/ HandleCheckBalance \/ \E tx \in Transfers : HandleSendTx(tx)
  <2>1. UNCHANGED <<Mempool, newBlock>> /\ owner # "daemon"
    BY <1>1 DEF StartDaemon, HandleCheckBalance, HandleSendTx, InitializeLedger, locals,
                NewDatabase
  <2> QED BY <2>1 DEF FreshInv, Early, Empty
<1>2. CASE LedgerStep
  <2>1. UNCHANGED <<owner, loopStep, mempoolFile>>
    BY <1>2 DEF LedgerStep, MiningStep, daemonVars
  <2>2. Empty => Empty'
    <3>1. CASE SpawnGenesis \/ IndexGenesis
      BY <3>1 DEF SpawnGenesis, IndexGenesis, locals, memory, Empty
    <3> QED BY <1>0, <1>2, <3>1, EmptyMines DEF LedgerStep, MiningStep, Continue
  <2> QED BY <2>1, <2>2 DEF FreshInv, Early
<1>3. CASE Kill \/ Stop
  <2>1. Mempool' = <<>> /\ newBlock' = PerThread(NoBlock)
    BY <1>3 DEF Kill, Stop, Crash, ProcessEnds
  <2> QED BY <2>1 DEF Empty, FreshInv, PerThread, NoBlock
<1>4. CASE WriteMempoolFile \/ BalancePrinted
  <2>1. Mempool' = <<>> /\ newBlock' = newBlock /\ sending.step # "none"
    BY <1>4 DEF WriteMempoolFile, BalancePrinted, Exit, locals
  <2>2. owner # "daemon"
    BY <1>0, <2>1 DEF OwnerInv
  <2> QED BY <2>1, <2>2 DEF FreshInv, Early, Empty
<1>5. CASE InstallMempool \/ LoopMines
  <2>1. loopStep' \in {"installed", "mining"} /\ owner' = owner /\ loopStep # "asleep"
    BY <1>5 DEF InstallMempool, LoopMines
  <2> QED BY <1>0, <2>1 DEF FreshInv, Early
<1>6. CASE LoopClears
  <2>1. /\ loopStep' = "asleep" /\ mempoolFile' = <<>> /\ owner' = owner
        /\ loopStep = "mining"
    BY <1>6 DEF LoopClears
  <2> QED BY <1>0, <2>1 DEF FreshInv, Early
<1>7. CASE HandlerMines \/ HandlerPanics
  <2>1. UNCHANGED <<owner, loopStep, mempoolFile>>
    BY <1>7 DEF HandlerMines, HandlerPanics
  <2>2. Empty => Empty'
    BY <1>0, <1>7, ThreadsAre, EmptyMines DEF HandlerMines, HandlerPanics, MineStep
  <2> QED BY <2>1, <2>2 DEF FreshInv, Early
<1>8. CASE LoadMempool
  <2>1. UNCHANGED <<Mempool, newBlock, owner, mempoolFile>>
    BY <1>8 DEF LoadMempool, vars, memory, locals
  <2>2. loopStep = "asleep" /\ mempoolFile # <<>>
    BY <1>8 DEF LoadMempool
  <2> QED BY <2>1, <2>2 DEF FreshInv, Early, Empty
<1>9. CASE Generate \/ HandlerMined \/ HandlerClears
  <2>1. UNCHANGED <<Mempool, newBlock, owner, loopStep>>
    BY <1>9 DEF Generate, HandlerMined, HandlerClears, vars, memory, locals
  <2>2. mempoolFile' = mempoolFile \/ mempoolFile' = <<>>
    BY <1>9 DEF Generate, HandlerMined, HandlerClears
  <2> QED BY <2>1, <2>2 DEF FreshInv, Early, Empty
<1>10. CASE ReadMempoolFile \/ TruncateMempoolFile
  <2>1. UNCHANGED <<Mempool, newBlock, owner>> /\ sending.step # "none"
    BY <1>10 DEF ReadMempoolFile, TruncateMempoolFile, vars, memory, locals
  <2>2. owner # "daemon"
    BY <1>0, <2>1 DEF OwnerInv
  <2> QED BY <2>1, <2>2 DEF FreshInv, Early, Empty
<1>11. CASE \/ UNCHANGED allVars
            \/ WalletNext /\ UNCHANGED <<vars, owner, mempoolFile, loopStep, diskMempool, request,
                                         sending, submitted, lapses>>
  <2>1. UNCHANGED <<Mempool, newBlock, owner, loopStep, mempoolFile>>
    BY <1>11 DEF allVars, daemonVars, vars, memory, locals
  <2> QED BY <2>1 DEF FreshInv, Early, Empty
<1> QED BY <1>1, <1>2, <1>3, <1>4, <1>5, <1>6, <1>7, <1>8, <1>9, <1>10, <1>11 DEF DaemonNext

-----------------------------------------------------------------------------
(* The steps of a call and the transfers at hand                           *)

Live == RunInv /\ LockInv /\ SendAtomic /\ FreshInv /\ Sound

LEMMA FlyingIs ==
    ASSUME NEW t \in Threads
    PROVE  /\ pc[t] \notin {"saved", "unsaved"} => Flying(t) = ToSet(newBlock[t].txs)
           /\ pc[t] \in {"saved", "unsaved"} => Flying(t) = {}
  BY DEF Flying

\* One call moves and the others stay what they were.
LEMMA OneCallOnce ==
    ASSUME CallsOnce, NEW t \in Threads,
           \A u \in Threads : u # t => pc'[u] = pc[u] /\ newBlock'[u] = newBlock[u],
           pc'[t] \in {"idle", "panicked"} => newBlock'[t].txs = <<>>,
           pc'[t] \notin {"saved", "unsaved"} => Waits(newBlock'[t].txs, Unmined'),
           \A u \in Threads : u # t /\ pc[u] \notin {"saved", "unsaved"}
                                => Waits(newBlock[u].txs, Unmined'),
           \A u \in Threads : u # t => Flying(t)' \cap Flying(u) = {}
    PROVE  CallsOnce' /\ \A u \in Threads : u # t => Flying(u)' = Flying(u)
<1>1. \A u \in Threads : u # t => Flying(u)' = Flying(u)
  BY DEF Flying
<1>2. ASSUME NEW u \in Threads
      PROVE  /\ pc'[u] \in {"idle", "panicked"} => newBlock'[u].txs = <<>>
             /\ pc'[u] \notin {"saved", "unsaved"} => Waits(newBlock'[u].txs, Unmined')
  BY DEF CallsOnce
<1>3. ASSUME NEW u \in Threads, NEW v \in Threads, u # v
      PROVE  Flying(u)' \cap Flying(v)' = {}
  <2>1. CASE u = t
    BY <1>1, <1>3, <2>1
  <2>2. CASE v = t
    BY <1>1, <1>3, <2>2
  <2>3. CASE u # t /\ v # t
    <3>1. Flying(u) \cap Flying(v) = {}
      BY <1>3 DEF CallsOnce
    <3> QED BY <1>1, <2>3, <3>1
  <2> QED BY <2>1, <2>2, <2>3
<1>4. CallsOnce'
  BY <1>2, <1>3 DEF CallsOnce
<1> QED BY <1>1, <1>4

LEMMA OnceQuiet ==
    ASSUME Live, NEW t \in Threads, MineStep(t) \/ RecoverPanic(t), Quiet(t),
           UNCHANGED <<Chain, blocks, Mempool, submitted>>
    PROVE  ChainOnce' /\ Unmined' = Unmined /\ CallsOnce' /\ QueueOnce'
<1>0. TypeInv /\ ChainOnce /\ CallsOnce /\ QueueOnce
  BY DEF Live, RunInv, Sound
<1>1. ChainOnce' /\ Unmined' = Unmined
  BY <1>0 DEF ChainOnce, Unmined
<1>2. \A u \in Threads : u # t =>
         pc'[u] = pc[u] /\ newBlock'[u] = newBlock[u] /\ cursor'[u] = cursor[u]
  BY <1>0, CallsApart DEF TypeInv
<1>3. /\ Flying(t)' = {} \/ (Flying(t)' = Flying(t) /\ pc[t] # "selecting")
      /\ pc'[t] \in {"idle", "panicked"} => newBlock'[t].txs = <<>>
      /\ pc'[t] \notin {"saved", "unsaved"} => Waits(newBlock'[t].txs, Unmined)
  <2>1. CASE newBlock'[t].txs = <<>> /\ pc'[t] \notin {"saved", "unsaved"}
    BY <2>1, NothingOnce DEF Flying
  <2>2. CASE /\ newBlock'[t].txs = newBlock[t].txs
             /\ pc[t] \in {"idle", "panicked"} /\ pc'[t] \notin {"saved", "unsaved"}
    <3>1. newBlock[t].txs = <<>>
      BY <1>0, <2>2 DEF CallsOnce
    <3> QED BY <2>1, <2>2, <3>1
  <2>3. CASE /\ newBlock'[t].txs = newBlock[t].txs
             /\ pc[t] \notin {"saved", "unsaved", "selecting"}
             /\ pc'[t] \in {"priced", "retargeted", "assembled", "mined"}
    <3>1. Waits(newBlock[t].txs, Unmined)
      BY <1>0, <2>3 DEF CallsOnce
    <3> QED BY <2>3, <3>1 DEF Flying
  <2> QED BY <2>1, <2>2, <2>3 DEF Quiet
<1>4. ASSUME NEW u \in Threads, u # t
      PROVE  /\ pc[u] \notin {"saved", "unsaved"} => Waits(newBlock[u].txs, Unmined)
             /\ Flying(t)' \cap Flying(u) = {}
  BY <1>0, <1>3, <1>4 DEF CallsOnce
<1>5. CallsOnce' /\ \A u \in Threads : u # t => Flying(u)' = Flying(u)
  BY <1>0, <1>1, <1>2, <1>3, <1>4, OneCallOnce
<1>6. ASSUME NEW k \in DOMAIN Mempool, NEW u \in Threads, Mempool[k] \in Flying(u)'
      PROVE  pc'[u] = "selecting" /\ k < cursor'[u]
  <2>1. CASE u = t
    BY <1>0, <1>3, <1>6, <2>1 DEF QueueOnce
  <2>2. CASE u # t
    BY <1>0, <1>2, <1>5, <1>6, <2>2 DEF QueueOnce
  <2> QED BY <2>1, <2>2
<1>7. QueueOnce'
  BY <1>0, <1>1, <1>6 DEF QueueOnce
<1> QED BY <1>1, <1>5, <1>7

\* Selecting a transfer adds it to the block, and the cursor passes it.
LEMMA OnceSelects ==
    ASSUME Live, NEW t \in Threads, SelectTransfer(t) \/ SkipTransfer(t), UNCHANGED submitted
    PROVE  ChainOnce' /\ Unmined' = Unmined /\ CallsOnce' /\ QueueOnce'
<1>0. /\ TypeInv /\ LockInv /\ ChainOnce /\ CallsOnce /\ QueueOnce
      /\ newBlock[t].txs \in Seq(Transfers) /\ Mempool \in Seq(Transfers)
      /\ cursor \in [Threads -> Nat]
  BY BlockFields DEF Live, RunInv, Sound, TypeInv, CallsTyped, MemoryTyped
<1> DEFINE n == cursor[t]
           tx == Mempool[n]
           txs == newBlock[t].txs
<1>1. /\ UNCHANGED <<Chain, blocks, pc, Mempool>> /\ pc[t] = "selecting"
      /\ n \in 1 .. Len(Mempool) /\ cursor'[t] = n + 1 /\ tx \in Transfers
      /\ newBlock'[t].txs = txs \/ newBlock'[t].txs = Append(txs, tx)
  BY <1>0, SelectingSteps
<1>2. ChainOnce' /\ Unmined' = Unmined
  BY <1>0, <1>1 DEF ChainOnce, Unmined
<1>3. \A u \in Threads : u # t =>
         /\ pc'[u] = pc[u] /\ newBlock'[u] = newBlock[u] /\ cursor'[u] = cursor[u]
         /\ pc[u] # "selecting"
  <2>1. MineStep(t)
    BY DEF MineStep
  <2> QED BY <1>0, <1>1, <2>1, CallsApart, OneSelects DEF TypeInv
<1>4. /\ n \in DOMAIN Mempool /\ DOMAIN Mempool = 1 .. Len(Mempool) /\ Len(Mempool) \in Nat
      /\ n \in Nat
  BY <1>0, <1>1
<1>5. tx \in Unmined /\ \A u \in Threads : tx \notin Flying(u)
  <2>1. tx \in Unmined /\ \A u \in Threads : tx \in Flying(u) => pc[u] = "selecting" /\ n < cursor[u]
    BY <1>0, <1>4 DEF QueueOnce
  <2>2. ~(n < n)
    BY <1>4
  <2> QED BY <1>3, <2>1, <2>2
<1>6. Flying(t) = ToSet(txs) /\ Waits(txs, Unmined) /\ Flying(t)' = ToSet(newBlock'[t].txs)
  BY <1>0, <1>1 DEF CallsOnce, Flying
<1>7. /\ Waits(newBlock'[t].txs, Unmined)
      /\ Flying(t)' \subseteq Flying(t) \cup {tx}
  <2>1. CASE newBlock'[t].txs = txs
    BY <1>6, <2>1
  <2>2. CASE newBlock'[t].txs = Append(txs, tx)
    <3>1. tx \notin ToSet(txs)
      BY <1>5, <1>6
    <3> HIDE DEF tx, txs
    <3>2. /\ ToSet(Append(txs, tx)) = ToSet(txs) \cup {tx}
          /\ Once(txs) => Once(Append(txs, tx))
      BY <1>0, <1>1, <3>1, OnceAppend DEF txs
    <3> QED BY <1>5, <1>6, <2>2, <3>2 DEF Waits
  <2> QED BY <1>1, <2>1, <2>2
<1> HIDE DEF n, tx, txs
<1>8. ASSUME NEW u \in Threads, u # t
      PROVE  /\ pc[u] \notin {"saved", "unsaved"} => Waits(newBlock[u].txs, Unmined)
             /\ Flying(t)' \cap Flying(u) = {}
  BY <1>0, <1>5, <1>7, <1>8 DEF CallsOnce
<1>9. CallsOnce' /\ \A u \in Threads : u # t => Flying(u)' = Flying(u)
  <2>1. pc'[t] = "selecting"
    BY <1>1
  <2> QED BY <1>0, <1>2, <1>3, <1>7, <1>8, <2>1, OneCallOnce
<1>10. ASSUME NEW k \in DOMAIN Mempool, NEW u \in Threads, Mempool[k] \in Flying(u)'
       PROVE  pc'[u] = "selecting" /\ k < cursor'[u]
  <2>1. CASE u # t
    BY <1>0, <1>3, <1>9, <1>10, <2>1 DEF QueueOnce
  <2>2. CASE u = t /\ Mempool[k] \in Flying(t)
    <3>1. k < n /\ k \in Nat
      BY <1>0, <1>4, <2>2 DEF QueueOnce, n
    <3>2. k < n + 1
      BY <1>4, <3>1
    <3> QED BY <1>1, <2>2, <3>2
  <2>3. CASE u = t /\ Mempool[k] = tx
    <3>1. k = n
      BY <1>0, <1>4, <2>3 DEF QueueOnce, Once, tx
    <3>2. n < n + 1
      BY <1>4
    <3> QED BY <1>1, <2>3, <3>1, <3>2
  <2> QED BY <1>7, <1>10, <2>1, <2>2, <2>3
<1>11. QueueOnce'
  BY <1>0, <1>1, <1>2, <1>10 DEF QueueOnce
<1> QED BY <1>2, <1>9, <1>11

\* The selected transfers have left the queue, if none stayed.
LEMMA OnceFinishes ==
    ASSUME Live, NEW t \in Threads, FinishSelection(t), UNCHANGED submitted,
           ToSet(newBlock[t].txs) \cap ToSet(Mempool') = {}
    PROVE  ChainOnce' /\ Unmined' = Unmined /\ CallsOnce' /\ QueueOnce'
<1>0. TypeInv /\ LockInv /\ ChainOnce /\ CallsOnce /\ QueueOnce
  BY DEF Live, RunInv, Sound
<1> DEFINE n == Len(newBlock[t].txs)
<1>1. /\ UNCHANGED <<Chain, blocks, newBlock>>
      /\ pc[t] = "selecting" /\ pc'[t] = "selected"
      /\ n \in Nat /\ Mempool \in Seq(Transfers)
      /\ Mempool' = SubSeq(Mempool, n + 1, Len(Mempool))
  BY <1>0, FinishSteps
<1> HIDE DEF n
<1>2. ChainOnce' /\ Unmined' = Unmined
  BY <1>0, <1>1 DEF ChainOnce, Unmined
<1>3. \A u \in Threads : u # t =>
         /\ pc'[u] = pc[u] /\ newBlock'[u] = newBlock[u] /\ pc[u] # "selecting"
  <2>1. MineStep(t)
    BY DEF MineStep
  <2> QED BY <1>0, <1>1, <2>1, CallsApart, OneSelects DEF TypeInv
<1>4. Flying(t) = ToSet(newBlock[t].txs) /\ Flying(t)' = Flying(t)
  BY <1>1 DEF Flying
<1>5. Waits(newBlock'[t].txs, Unmined)
  BY <1>0, <1>1 DEF CallsOnce
<1>6. ASSUME NEW u \in Threads, u # t
      PROVE  /\ pc[u] \notin {"saved", "unsaved"} => Waits(newBlock[u].txs, Unmined)
             /\ Flying(t)' \cap Flying(u) = {}
  BY <1>0, <1>4, <1>6 DEF CallsOnce
<1>7. CallsOnce' /\ \A u \in Threads : u # t => Flying(u)' = Flying(u)
  <2>1. pc'[t] = "selected"
    BY <1>1
  <2> QED BY <1>0, <1>2, <1>3, <1>5, <1>6, <2>1, OneCallOnce
<1>8. Once(Mempool') /\ ToSet(Mempool') \subseteq ToSet(Mempool)
  BY <1>0, <1>1, OnceSuffix DEF QueueOnce
<1>9. ASSUME NEW x \in ToSet(Mempool')
      PROVE  x \in Unmined /\ \A u \in Threads : x \notin Flying(u)'
  <2>1. PICK k \in DOMAIN Mempool : x = Mempool[k]
    BY <1>8 DEF ToSet
  <2>2. x \in Unmined /\ \A u \in Threads : x \in Flying(u) => pc[u] = "selecting"
    BY <1>0, <2>1 DEF QueueOnce
  <2>3. x \notin Flying(t)'
    BY <1>4
  <2> QED BY <1>3, <1>7, <2>2, <2>3
<1>10. \A k \in DOMAIN Mempool' : Mempool'[k] \in ToSet(Mempool')
  BY DEF ToSet
<1>11. QueueOnce'
  BY <1>2, <1>8, <1>9, <1>10 DEF QueueOnce
<1> QED BY <1>2, <1>7, <1>11

\* The block's transfers leave those that wait.
LEMMA OnceCommits ==
    ASSUME Live, NEW t \in Threads, CommitBlock(t), UNCHANGED submitted
    PROVE  /\ ChainOnce' /\ CallsOnce' /\ QueueOnce'
           /\ Unmined \ Flying(t) \subseteq Unmined'
<1> DEFINE b == newBlock[t]
<1>0. /\ newBlock \in [Threads -> Block] /\ pc \in [Threads -> PcStates]
      /\ b \in Block /\ Chain \in Seq(Block) /\ blocks \in [Heights -> Block]
      /\ CallSound(t) /\ TypeInv /\ ChainOnce /\ CallsOnce /\ QueueOnce
  BY DEF Live, Sound, RunInv, TypeInv, CallsTyped, MemoryTyped, DiskTyped, CallsSound
<1>1. /\ pc[t] = "mined" /\ Chain' = Append(Chain, b) /\ newBlock' = newBlock
      /\ pc'[t] \in {"saved", "unsaved"} /\ Mempool' = Mempool
      /\ blocks' = blocks \/ blocks' = [blocks EXCEPT ![b.index] = b]
  BY <1>0 DEF CommitBlock, AppendBlock, PutBlock
<1>2. b.index \in 1 .. MaxHeight
  BY <1>0, <1>1 DEF CallSound
<1>3. Once(b.txs) /\ ToSet(b.txs) \subseteq Unmined /\ Flying(t) = ToSet(b.txs)
  BY <1>0, <1>1 DEF CallsOnce, Waits, Flying
<1> HIDE DEF b
<1>4. /\ Apart(Chain, DOMAIN Chain) /\ Apart(blocks, 1 .. MaxHeight)
      /\ blocks[0].policy = "current" => blocks[0].txs = <<>>
      /\ ToSet(b.txs) \cap ChainTxs(Chain) = {} /\ ToSet(b.txs) \cap StoredTxs(blocks) = {}
      /\ ToSet(b.txs) \cup ChainTxs(Chain) \cup StoredTxs(blocks) \subseteq submitted
  BY <1>0, <1>3 DEF ChainOnce, Unmined
<1>5. /\ Apart(Chain', DOMAIN Chain')
      /\ ChainTxs(Chain') = ChainTxs(Chain) \cup ToSet(b.txs)
  BY <1>0, <1>1, <1>3, <1>4, ApartAppend
<1>6. /\ Apart(blocks', 1 .. MaxHeight)
      /\ StoredTxs(blocks') \subseteq StoredTxs(blocks) \cup ToSet(b.txs)
  BY <1>0, <1>1, <1>2, <1>3, <1>4, ApartPut
<1>7. blocks'[0] = blocks[0]
  <2>1. b.index # 0
    BY <1>2
  <2>2. CASE blocks' = [blocks EXCEPT ![b.index] = b]
    BY <2>1, <2>2
  <2> QED BY <1>1, <2>2
<1>8. ChainOnce'
  BY <1>4, <1>5, <1>6, <1>7 DEF ChainOnce
<1>9. Unmined \ Flying(t) \subseteq Unmined'
  BY <1>3, <1>5, <1>6 DEF Unmined
<1>10. \A u \in Threads : u # t =>
          pc'[u] = pc[u] /\ newBlock'[u] = newBlock[u] /\ cursor'[u] = cursor[u]
  <2>1. MineStep(t)
    BY DEF MineStep
  <2> QED BY <1>0, <2>1, CallsApart DEF TypeInv
<1>11. Flying(t)' = {}
  BY <1>1 DEF Flying
<1>12. ASSUME NEW u \in Threads, u # t, pc[u] \notin {"saved", "unsaved"}
       PROVE  Waits(newBlock[u].txs, Unmined')
  <2>1. Waits(newBlock[u].txs, Unmined) /\ Flying(t) \cap Flying(u) = {}
    BY <1>0, <1>12 DEF CallsOnce
  <2>2. Flying(u) = ToSet(newBlock[u].txs)
    BY <1>12 DEF Flying
  <2> QED BY <1>9, <2>1, <2>2 DEF Waits
<1>13. CallsOnce' /\ \A u \in Threads : u # t => Flying(u)' = Flying(u)
  <2>1. pc'[t] \in {"saved", "unsaved"}
    BY <1>1
  <2> QED BY <1>0, <1>10, <1>11, <1>12, <2>1, OneCallOnce
<1>14. ASSUME NEW k \in DOMAIN Mempool
       PROVE  /\ Mempool[k] \in Unmined'
              /\ \A u \in Threads : Mempool[k] \in Flying(u)' => pc'[u] = "selecting" /\ k < cursor'[u]
  <2>1. /\ Mempool[k] \in Unmined
        /\ \A u \in Threads : Mempool[k] \in Flying(u) => pc[u] = "selecting" /\ k < cursor[u]
    BY <1>0 DEF QueueOnce
  <2>2. Mempool[k] \notin Flying(t)
    BY <1>1, <2>1
  <2> QED BY <1>9, <1>10, <1>11, <1>13, <2>1, <2>2
<1>15. QueueOnce'
  BY <1>0, <1>1, <1>14 DEF QueueOnce
<1> QED BY <1>8, <1>9, <1>13, <1>15

\* Any step of a call, if it leaves no selected transfer in the queue.
LEMMA OnceCallStep ==
    ASSUME Live, NEW t \in Threads, MineStep(t) \/ RecoverPanic(t), UNCHANGED submitted,
           pc[t] = "selecting" /\ pc'[t] = "selected"
             => ToSet(newBlock[t].txs) \cap ToSet(Mempool') = {}
    PROVE  /\ ChainOnce' /\ CallsOnce' /\ QueueOnce'
           /\ Unmined \ Flying(t) \subseteq Unmined'
<1>0. TypeInv
  BY DEF Live, RunInv
<1>1. CASE SelectTransfer(t) \/ SkipTransfer(t)
  BY <1>1, OnceSelects
<1>2. CASE FinishSelection(t)
  <2>1. pc[t] = "selecting" /\ pc'[t] = "selected"
    BY <1>0, <1>2, FinishSteps
  <2> QED BY <1>2, <2>1, OnceFinishes
<1>3. CASE CommitBlock(t)
  BY <1>3, OnceCommits
<1>4. CASE Quiet(t) /\ UNCHANGED <<Chain, blocks, Mempool>>
  BY <1>4, OnceQuiet
<1> QED BY <1>0, <1>1, <1>2, <1>3, <1>4, CallSteps

\* What leaves the chain and the database, or is submitted, waits again.
LEMMA OnceStays ==
    ASSUME Unmined \subseteq Unmined'
    PROVE  /\ CallsOnce /\ UNCHANGED <<pc, newBlock>> => CallsOnce'
           /\ QueueOnce /\ UNCHANGED <<pc, newBlock, Mempool, cursor>> => QueueOnce'
           /\ FileOnce /\ UNCHANGED <<loopStep, mempoolFile, diskMempool>> => FileOnce'
           /\ SendOnce /\ UNCHANGED <<sending, mempoolFile>> => SendOnce'
<1>1. CallsOnce /\ UNCHANGED <<pc, newBlock>> => CallsOnce'
  BY DEF CallsOnce, Waits, Flying
<1>2. QueueOnce /\ UNCHANGED <<pc, newBlock, Mempool, cursor>> => QueueOnce'
  BY DEF QueueOnce, Flying
<1>3. FileOnce /\ UNCHANGED <<loopStep, mempoolFile, diskMempool>> => FileOnce'
  BY DEF FileOnce, Waits
<1>4. SendOnce /\ UNCHANGED <<sending, mempoolFile>> => SendOnce'
  BY DEF SendOnce, Waits
<1> QED BY <1>1, <1>2, <1>3, <1>4

\* A block with transfers in it is only mined when the file's content is queued.
LEMMA OnceFiles ==
    ASSUME Live, NEW t \in Threads, Unmined \ Flying(t) \subseteq Unmined',
           owner = "daemon", UNCHANGED <<mempoolFile, diskMempool, sending>>,
           loopStep' = loopStep \/ loopStep' = "mining"
    PROVE  FileOnce' /\ SendOnce'
<1>0. FileOnce /\ FreshInv /\ sending.step = "none"
  BY DEF Live, Sound, RunInv, OwnerInv
<1>1. SendOnce'
  BY <1>0 DEF SendOnce
<1>2. CASE loopStep' = "mining" \/ (mempoolFile = <<>> /\ loopStep # "loaded")
  BY <1>1, <1>2, NothingOnce DEF FileOnce
<1>3. CASE ~(mempoolFile = <<>> /\ loopStep # "loaded") /\ loopStep' = loopStep
  <2>1. CASE loopStep \in {"installed", "mining"}
    BY <1>1, <1>3, <2>1 DEF FileOnce
  <2>2. CASE loopStep \notin {"installed", "mining"}
    <3>1. Early
      BY <1>3, <2>2 DEF Early
    <3>2. newBlock[t].txs = <<>>
      BY <1>0, <3>1 DEF FreshInv, Empty
    <3>3. Flying(t) = {}
      BY <3>2, NothingOnce DEF Flying
    <3>4. Unmined \subseteq Unmined'
      BY <3>3
    <3> QED BY <1>0, <1>1, <1>3, <3>4, OnceStays
  <2> QED BY <2>1, <2>2
<1> QED BY <1>1, <1>2, <1>3

-----------------------------------------------------------------------------
(* The steps of the processes and the transfers at hand                    *)

LEMMA OnceLoads ==
    ASSUME TypeInv, ChainOnce, NEW m, NEW d, InitializeLedger(m, d),
           submitted \subseteq submitted'
    PROVE  /\ ChainOnce' /\ Unmined \subseteq Unmined'
           /\ submitted' \ submitted \subseteq Unmined'
           /\ UNCHANGED <<pc, newBlock, Mempool, cursor>>
<1>1. /\ UNCHANGED <<pc, newBlock, Mempool, cursor>>
      /\ \/ Chain' = Chain /\ blocks' = blocks
         \/ Chain' = Chain /\ blocks' = [n \in Heights |-> NoBlock]
         \/ /\ Chain' = LoadedChain /\ blocks' = blocks
            /\ LoadedChain # <<>> /\ LoadedChain[1].policy = "current"
  BY DEF InitializeLedger, locals, disk
<1> DEFINE Fine == /\ Apart(Chain', DOMAIN Chain') /\ Apart(blocks', 1 .. MaxHeight)
                   /\ blocks'[0].policy = "current" => blocks'[0].txs = <<>>
                   /\ ChainTxs(Chain') \cup StoredTxs(blocks')
                        \subseteq ChainTxs(Chain) \cup StoredTxs(blocks)
<1>2. ASSUME Chain' = Chain, blocks' = blocks PROVE Fine
  BY <1>2 DEF ChainOnce
<1>3. ASSUME Chain' = Chain, blocks' = [n \in Heights |-> NoBlock] PROVE Fine
  <2>1. \A n \in Heights : blocks'[n].txs = <<>>
    BY <1>3 DEF NoBlock
  <2>2. 0 \in Heights /\ \A n \in 1 .. MaxHeight : blocks'[n].txs = <<>>
    BY <2>1, BoundAssumption DEF Heights
  <2>3. Apart(blocks', 1 .. MaxHeight) /\ StoredTxs(blocks') = {}
    BY <2>2, NothingOnce DEF Apart, StoredTxs
  <2> QED BY <1>3, <2>1, <2>2, <2>3 DEF ChainOnce
<1>4. ASSUME Chain' = LoadedChain, blocks' = blocks,
             LoadedChain # <<>>, LoadedChain[1].policy = "current"
      PROVE  Fine
  <2>1. LoadedChain[1] = blocks[0]
    <3>1. 1 \in 1 .. LoadedLength
      <4>1. LoadedLength \in Nat
        BY LoadedLengthIs, BoundAssumption DEF TypeInv, DiskTyped, Heights, NoIndex
      <4>2. LoadedChain \in Seq(Block) /\ Len(LoadedChain) = LoadedLength
        BY LoadedChainIs DEF TypeInv, DiskTyped
      <4> QED BY <1>4, <4>1, <4>2
    <3> QED BY <3>1, LoadedChainIs DEF TypeInv, DiskTyped
  <2>2. blocks[0].txs = <<>>
    BY <1>4, <2>1 DEF ChainOnce
  <2> QED BY <1>4, <2>2, ApartLoads DEF TypeInv, ChainOnce
<1>5. Fine
  BY <1>1, <1>2, <1>3, <1>4
<1> QED BY <1>1, <1>5 DEF ChainOnce, Unmined

\* A genesis block has no transfers.
LEMMA OnceGenesis ==
    ASSUME Live, SpawnGenesis \/ IndexGenesis, UNCHANGED submitted
    PROVE  /\ ChainOnce' /\ Unmined \subseteq Unmined'
           /\ UNCHANGED <<pc, newBlock, Mempool, cursor>>
<1>1. UNCHANGED <<pc, newBlock, Mempool, cursor>>
  BY DEF SpawnGenesis, IndexGenesis, locals, memory
<1>2. ASSUME SpawnGenesis
      PROVE  /\ ChainOnce'
             /\ ChainTxs(Chain') \cup StoredTxs(blocks')
                  \subseteq ChainTxs(Chain) \cup StoredTxs(blocks)
  <2>1. PICK g : /\ g.txs = <<>> /\ Chain' = <<g>>
                 /\ blocks' = blocks \/ blocks' = [blocks EXCEPT ![0] = g]
    <3>1. PICK h \in GenesisHashes[TargetDifficulty] :
            LET genesis == [NoBlock EXCEPT !.hash = h, !.work = TargetDifficulty,
                              !.time = GenesisTime, !.diff = TargetDifficulty,
                              !.reward = CalculateBlockReward(0)]
            IN  /\ Chain' = <<genesis>>
                /\ \/ PutBlock(genesis) /\ status' = "indexing"
                   \/ DiskFaults /\ UNCHANGED blocks /\ status' = "up"
      BY <1>2 DEF SpawnGenesis
    <3> DEFINE g == [NoBlock EXCEPT !.hash = h, !.work = TargetDifficulty,
                       !.time = GenesisTime, !.diff = TargetDifficulty,
                       !.reward = CalculateBlockReward(0)]
    <3>2. g.txs = <<>> /\ g.index = 0
      BY DEF NoBlock
    <3> HIDE DEF g
    <3> QED BY <3>1, <3>2 DEF PutBlock, g
  <2>2. ChainTxs(Chain') = {} /\ Apart(Chain', DOMAIN Chain')
    BY <2>1, NothingOnce DEF ChainTxs, Apart
  <2>3. /\ \A n \in 1 .. MaxHeight : blocks'[n] = blocks[n]
        /\ blocks'[0] = blocks[0] \/ blocks'[0] = g
    <3>1. /\ DOMAIN blocks = Heights /\ 0 \in Heights
          /\ \A n \in 1 .. MaxHeight : n \in Heights /\ n # 0
      BY BoundAssumption DEF Live, RunInv, TypeInv, DiskTyped, Heights
    <3>2. CASE blocks' = blocks
      BY <3>2
    <3>3. CASE blocks' = [blocks EXCEPT ![0] = g]
      BY <3>1, <3>3
    <3> QED BY <2>1, <3>2, <3>3
  <2>4. Apart(blocks', 1 .. MaxHeight) /\ StoredTxs(blocks') = StoredTxs(blocks)
    BY <2>3 DEF Live, Sound, ChainOnce, Apart, StoredTxs
  <2> QED BY <2>1, <2>2, <2>3, <2>4 DEF Live, Sound, ChainOnce
<1>3. ASSUME IndexGenesis
      PROVE  ChainOnce' /\ Chain' = Chain /\ blocks' = blocks
  BY <1>3 DEF IndexGenesis, memory, Live, Sound, ChainOnce
<1> QED BY <1>1, <1>2, <1>3 DEF Unmined

LEMMA OnceLedgerStep ==
    ASSUME Live, LedgerStep, lapses' = {}
    PROVE  Sound'
<1>0. UNCHANGED <<submitted, mempoolFile, loopStep, diskMempool, sending, owner>>
  BY DEF LedgerStep, MiningStep, daemonVars
<1>1. CASE SpawnGenesis \/ IndexGenesis
  <2>1. /\ ChainOnce' /\ Unmined \subseteq Unmined'
        /\ UNCHANGED <<pc, newBlock, Mempool, cursor>>
    BY <1>0, <1>1, OnceGenesis
  <2> QED BY <1>0, <2>1, OnceStays DEF Live, Sound
<1>2. ASSUME NEW t \in Threads, MiningStep(t)
      PROVE  Sound'
  <2>1. MineStep(t) /\ pc[t] # "idle" /\ ~KeepsSelected(t)
    BY <1>2 DEF MiningStep, Continue
  <2>2. owner = "daemon"
    BY <2>1, ThreadsAre DEF Live, RunInv, OwnerInv, NoRequest
  <2>3. /\ ChainOnce' /\ CallsOnce' /\ QueueOnce'
        /\ Unmined \ Flying(t) \subseteq Unmined'
    BY <1>0, <2>1, OnceCallStep DEF KeepsSelected
  <2> QED BY <1>0, <2>2, <2>3, OnceFiles DEF Sound
<1> QED BY <1>1, <1>2 DEF LedgerStep

LEMMA OnceStart ==
    ASSUME Live, StartDaemon \/ HandleCheckBalance
    PROVE  Sound'
<1>1. /\ UNCHANGED <<submitted, mempoolFile, loopStep, diskMempool>>
      /\ \E m, d : InitializeLedger(m, d)
      /\ sending' = sending \/ sending'.step = "viewing"
  <2>1. CASE StartDaemon
    BY <2>1 DEF StartDaemon, otherVars
  <2>2. CASE HandleCheckBalance
    BY <2>2 DEF HandleCheckBalance, otherVars, NotSending
  <2> QED BY <2>1, <2>2
<1>2. /\ ChainOnce' /\ Unmined \subseteq Unmined'
      /\ UNCHANGED <<pc, newBlock, Mempool, cursor>>
  BY <1>1, OnceLoads DEF Live, Sound, RunInv
<1>3. CallsOnce' /\ QueueOnce' /\ FileOnce'
  BY <1>1, <1>2, OnceStays DEF Live, Sound
<1>4. SendOnce'
  <2>1. CASE sending' = sending
    BY <1>1, <1>2, <2>1, OnceStays DEF Live, Sound
  <2>2. CASE sending'.step = "viewing"
    BY <2>2 DEF SendOnce
  <2> QED BY <1>1, <2>1, <2>2
<1> QED BY <1>2, <1>3, <1>4 DEF Sound

\* The transfer of a new command was never seen before.
LEMMA OnceSendBegins ==
    ASSUME Live, NEW tx \in Transfers, HandleSendTx(tx)
    PROVE  Sound'
<1>1. /\ UNCHANGED <<mempoolFile, loopStep, diskMempool>> /\ owner = "none"
      /\ InitializeLedger(tx.from, CliDifficulty)
      /\ sending' = [NotSending EXCEPT !.step = "opening", !.tx = {tx}]
      /\ submitted' = submitted \cup {tx} /\ tx \notin submitted
  BY DEF HandleSendTx, NewDatabase
<1>2. /\ ChainOnce' /\ Unmined \subseteq Unmined' /\ tx \in Unmined'
      /\ UNCHANGED <<pc, newBlock, Mempool, cursor>>
  BY <1>1, OnceLoads DEF Live, Sound, RunInv
<1>3. CallsOnce' /\ QueueOnce' /\ FileOnce'
  BY <1>1, <1>2, OnceStays DEF Live, Sound
<1>4. tx \notin ToSet(mempoolFile)
  <2>1. loopStep = "asleep"
    BY <1>1 DEF Live, RunInv, OwnerInv
  <2> QED BY <1>1, <2>1 DEF Live, Sound, FileOnce, Waits, Unmined
<1>5. sending'.step = "opening" /\ sending'.tx = {tx} /\ ToSet(sending'.existingMempool) = {}
  BY <1>1, NothingOnce DEF NotSending
<1>6. SendOnce'
  BY <1>1, <1>2, <1>4, <1>5 DEF SendOnce
<1> QED BY <1>2, <1>3, <1>6 DEF Sound

\* The chain goes with its process, the database stays.
LEMMA OnceDown ==
    ASSUME Live, Chain' = <<>>, blocks' = blocks, submitted' = submitted
    PROVE  ChainOnce' /\ Unmined \subseteq Unmined'
<1>1. ChainTxs(Chain') = {} /\ Apart(Chain', DOMAIN Chain')
  BY DEF ChainTxs, Apart
<1> QED BY <1>1 DEF Live, Sound, ChainOnce, Unmined

\* A process ends anywhere but between mining from the file and clearing it.
LEMMA OnceEnds ==
    ASSUME Live, Kill \/ Stop, lapses' = {}
    PROVE  Sound'
<1>1. /\ Chain' = <<>> /\ Mempool' = <<>> /\ blocks' = blocks
      /\ pc' = PerThread("idle") /\ newBlock' = PerThread(NoBlock)
      /\ loopStep' = "asleep" /\ sending' = NotSending
      /\ UNCHANGED <<mempoolFile, submitted>>
      /\ loopStep \in {"installed", "mining"} => mempoolFile = <<>>
  BY DEF Kill, Stop, Crash, ProcessEnds, ProcessGone, disk
<1>2. ChainOnce' /\ Unmined \subseteq Unmined'
  BY <1>1, OnceDown
<1>3. \A t \in Threads : newBlock'[t].txs = <<>>
  BY <1>1 DEF PerThread, NoBlock
<1>4. CallsOnce'
  BY <1>3, NothingOnce DEF CallsOnce, Flying
<1>5. QueueOnce'
  BY <1>1, NothingOnce DEF QueueOnce
<1>6. FileOnce'
  <2>1. Waits(mempoolFile, Unmined)
    <3>1. CASE loopStep \in {"installed", "mining"}
      BY <1>1, <3>1, NothingOnce
    <3>2. CASE loopStep \notin {"installed", "mining"}
      BY <3>2 DEF Live, Sound, FileOnce
    <3> QED BY <3>1, <3>2
  <2> QED BY <1>1, <1>2, <2>1 DEF FileOnce, Waits
<1>7. SendOnce'
  BY <1>1, NotSendingTyped DEF SendOnce
<1> QED BY <1>2, <1>4, <1>5, <1>6, <1>7 DEF Sound

\* A command exits; it has no calls under way.
LEMMA OnceExit ==
    ASSUME Live, Exit, submitted' = submitted
    PROVE  ChainOnce' /\ CallsOnce' /\ QueueOnce' /\ Unmined \subseteq Unmined'
<1>1. /\ Chain' = <<>> /\ Mempool' = <<>> /\ blocks' = blocks
      /\ UNCHANGED <<pc, newBlock>>
  BY DEF Exit, locals, disk
<1>2. ChainOnce' /\ Unmined \subseteq Unmined'
  BY <1>1, OnceDown
<1>3. CallsOnce'
  BY <1>1, <1>2, OnceStays DEF Live, Sound
<1>4. QueueOnce'
  BY <1>1, NothingOnce DEF QueueOnce
<1> QED BY <1>2, <1>3, <1>4

\* Nothing of the ledger moves.
LEMMA OnceRests ==
    ASSUME Live, UNCHANGED <<vars, submitted>>
    PROVE  ChainOnce' /\ CallsOnce' /\ QueueOnce' /\ Unmined' = Unmined
<1>1. UNCHANGED <<Chain, blocks, submitted, pc, newBlock, Mempool, cursor>>
  BY DEF vars, memory, locals, disk
<1>2. ChainOnce' /\ Unmined' = Unmined
  BY <1>1 DEF Live, Sound, ChainOnce, Unmined
<1> QED BY <1>1, <1>2, OnceStays DEF Live, Sound

\* The command puts its transfer behind what it has read.
LEMMA OnceSends ==
    ASSUME Live, ReadMempoolFile \/ TruncateMempoolFile \/ WriteMempoolFile \/ BalancePrinted
    PROVE  Sound'
<1>0. /\ sending \in [step : SendSteps, tx : SUBSET Transfers, existingMempool : Seq(Transfers)]
      /\ loopStep = "asleep" /\ FileOnce /\ SendOnce
  BY DEF Live, Sound, RunInv, OwnerInv, ReadMempoolFile, TruncateMempoolFile, WriteMempoolFile,
         BalancePrinted
<1>1. CASE ReadMempoolFile
  <2>1. /\ sending' = [sending EXCEPT !.step = "read", !.existingMempool = mempoolFile]
        /\ sending.step = "opening" /\ UNCHANGED <<mempoolFile, loopStep, diskMempool>>
        /\ UNCHANGED <<vars, submitted>>
    BY <1>1 DEF ReadMempoolFile, otherVars
  <2>2. /\ sending'.step = "read" /\ sending'.tx = sending.tx
        /\ sending'.existingMempool = mempoolFile
    BY <1>0, <2>1
  <2>3. ChainOnce' /\ CallsOnce' /\ QueueOnce' /\ Unmined' = Unmined
    BY <2>1, OnceRests
  <2>4. Waits(mempoolFile, Unmined)
    BY <1>0 DEF FileOnce
  <2>5. SendOnce'
    BY <1>0, <2>1, <2>2, <2>3, <2>4 DEF SendOnce, Waits
  <2>6. FileOnce'
    BY <1>0, <2>1, <2>3, OnceStays
  <2> QED BY <2>3, <2>5, <2>6 DEF Sound
<1>2. CASE TruncateMempoolFile
  <2>1. /\ sending' = [sending EXCEPT !.step = "truncated"]
        /\ sending.step = "read" /\ mempoolFile' = <<>> /\ UNCHANGED <<loopStep, diskMempool>>
        /\ UNCHANGED <<vars, submitted>>
    BY <1>2 DEF TruncateMempoolFile, otherVars
  <2>2. /\ sending'.step = "truncated" /\ sending'.tx = sending.tx
        /\ sending'.existingMempool = sending.existingMempool
    BY <1>0, <2>1
  <2>3. ChainOnce' /\ CallsOnce' /\ QueueOnce' /\ Unmined' = Unmined
    BY <2>1, OnceRests
  <2>4. SendOnce'
    BY <1>0, <2>1, <2>2, <2>3, NothingOnce DEF SendOnce, Waits
  <2>5. FileOnce'
    BY <1>0, <2>1, NothingOnce DEF FileOnce
  <2> QED BY <2>3, <2>4, <2>5 DEF Sound
<1>3. CASE WriteMempoolFile
  <2> DEFINE tx == CHOOSE x \in sending.tx : TRUE
             s == sending.existingMempool
  <2>1. /\ sending.step = "truncated" /\ sending' = NotSending /\ Exit
        /\ mempoolFile' = Append(s, tx) /\ UNCHANGED <<loopStep, submitted>>
    BY <1>3 DEF WriteMempoolFile, otherVars
  <2>2. tx \in sending.tx /\ tx \in Transfers
    BY <1>0, <2>1 DEF Live, RunInv, OwnerInv
  <2> HIDE DEF tx
  <2>3. tx \in Unmined /\ tx \notin ToSet(s) /\ Waits(s, Unmined) /\ s \in Seq(Transfers)
    BY <1>0, <2>1, <2>2 DEF SendOnce
  <2>4. Waits(Append(s, tx), Unmined)
    BY <2>2, <2>3, OnceAppend DEF Waits
  <2>5. ChainOnce' /\ CallsOnce' /\ QueueOnce' /\ Unmined \subseteq Unmined'
    BY <2>1, OnceExit
  <2>6. FileOnce'
    BY <1>0, <2>1, <2>4, <2>5 DEF FileOnce, Waits
  <2>7. SendOnce'
    BY <2>1, NotSendingTyped DEF SendOnce
  <2> QED BY <2>5, <2>6, <2>7 DEF Sound
<1>4. CASE BalancePrinted
  <2>1. /\ Exit /\ UNCHANGED <<submitted, mempoolFile>> /\ loopStep' = "asleep"
        /\ sending' = NotSending
    BY <1>4 DEF BalancePrinted, ProcessGone
  <2>2. ChainOnce' /\ CallsOnce' /\ QueueOnce' /\ Unmined \subseteq Unmined'
    BY <2>1, OnceExit
  <2>3. FileOnce'
    BY <1>0, <2>1, <2>2 DEF FileOnce, Waits
  <2>4. SendOnce'
    BY <2>1, NotSendingTyped DEF SendOnce
  <2> QED BY <2>2, <2>3, <2>4 DEF Sound
<1> QED BY <1>1, <1>2, <1>3, <1>4

\* The loop takes the file over, mines and empties the file.
LEMMA OnceLoop ==
    ASSUME Live, LoadMempool \/ InstallMempool \/ LoopMines \/ LoopClears, lapses' = {}
    PROVE  Sound'
<1>0. FileOnce /\ FreshInv /\ SendOnce /\ ChainOnce /\ CallsOnce
  BY DEF Live, Sound
<1>1. CASE LoadMempool
  <2>1. /\ UNCHANGED <<vars, submitted>> /\ UNCHANGED <<mempoolFile, sending>>
        /\ loopStep = "asleep" /\ diskMempool' = mempoolFile
    BY <1>1 DEF LoadMempool, otherVars
  <2>2. ChainOnce' /\ CallsOnce' /\ QueueOnce' /\ Unmined' = Unmined
    BY <2>1, OnceRests
  <2>3. FileOnce'
    BY <1>0, <2>1, <2>2 DEF FileOnce, Waits
  <2>4. SendOnce'
    BY <1>0, <2>1, <2>2, OnceStays
  <2> QED BY <2>2, <2>3, <2>4 DEF Sound
<1>2. CASE InstallMempool
  <2>1. /\ UNCHANGED <<Chain, blocks, submitted, pc, newBlock, cursor>>
        /\ UNCHANGED <<mempoolFile, sending>> /\ loopStep = "loaded" /\ loopStep' = "installed"
        /\ Mempool' = diskMempool
    BY <1>2 DEF InstallMempool, locals, disk, otherVars
  <2>2. ChainOnce' /\ Unmined' = Unmined
    BY <1>0, <2>1 DEF ChainOnce, Unmined
  <2>3. \A t \in Threads : newBlock'[t].txs = <<>>
    BY <1>0, <2>1 DEF FreshInv, Early, Empty
  <2>4. \A t \in Threads : Flying(t)' = {}
    BY <2>3, NothingOnce DEF Flying
  <2>5. Waits(Mempool', Unmined')
    BY <1>0, <2>1, <2>2 DEF FileOnce
  <2>6. \A k \in DOMAIN Mempool' : Mempool'[k] \in ToSet(Mempool')
    BY DEF ToSet
  <2>7. QueueOnce'
    BY <2>4, <2>5, <2>6 DEF QueueOnce, Waits
  <2>8. CallsOnce' /\ SendOnce'
    BY <1>0, <2>1, <2>2, OnceStays
  <2>9. FileOnce'
    BY <2>1 DEF FileOnce
  <2> QED BY <2>2, <2>7, <2>8, <2>9 DEF Sound
<1>3. CASE LoopMines
  <2>1. /\ UNCHANGED <<mempoolFile, diskMempool, sending, submitted>>
        /\ MineStep(loop) /\ pc[loop] = "idle"
        /\ loopStep = "installed" /\ loopStep' = "mining"
    BY <1>3 DEF LoopMines, MineStep, MineBlock, RejectMiner, CanMine, otherVars
  <2>2. owner = "daemon"
    BY <2>1 DEF Live, RunInv, OwnerInv
  <2>3. /\ ChainOnce' /\ CallsOnce' /\ QueueOnce'
        /\ Unmined \ Flying(loop) \subseteq Unmined'
    BY <2>1, ThreadsAre, OnceCallStep
  <2> QED BY <2>1, <2>2, <2>3, ThreadsAre, OnceFiles DEF Sound
<1>4. CASE LoopClears
  <2>1. /\ UNCHANGED <<vars, submitted>> /\ UNCHANGED sending /\ mempoolFile' = <<>>
        /\ loopStep = "mining" /\ loopStep' = "asleep"
    BY <1>4 DEF LoopClears, otherVars
  <2>2. ChainOnce' /\ CallsOnce' /\ QueueOnce'
    BY <2>1, OnceRests
  <2>3. sending.step = "none"
    BY <2>1 DEF Live, RunInv, OwnerInv
  <2>4. FileOnce' /\ SendOnce'
    BY <2>1, <2>3, NothingOnce DEF FileOnce, SendOnce
  <2> QED BY <2>2, <2>4 DEF Sound
<1> QED BY <1>1, <1>2, <1>3, <1>4

\* A request mines and empties the file as well, whatever the loop is doing.
LEMMA OnceRequests ==
    ASSUME Live, Generate \/ HandlerMines \/ HandlerMined \/ HandlerPanics \/ HandlerClears
    PROVE  Sound'
<1>0. FileOnce /\ SendOnce
  BY DEF Live, Sound
<1>1. CASE Generate \/ HandlerMined
  <2>1. /\ UNCHANGED <<vars, submitted>> /\ UNCHANGED <<mempoolFile, diskMempool, loopStep>>
        /\ UNCHANGED sending
    BY <1>1 DEF Generate, HandlerMined, otherVars
  <2>2. ChainOnce' /\ CallsOnce' /\ QueueOnce' /\ Unmined' = Unmined
    BY <2>1, OnceRests
  <2> QED BY <1>0, <2>1, <2>2, OnceStays DEF Sound
<1>2. CASE HandlerMines \/ HandlerPanics
  <2>1. /\ UNCHANGED <<mempoolFile, diskMempool, loopStep, sending, submitted>>
        /\ MineStep(handler) \/ RecoverPanic(handler)
        /\ pc[handler] \in {"idle", "panicked"}
    BY <1>2 DEF HandlerMines, HandlerPanics, MineStep, MineBlock, RejectMiner, RecoverPanic,
                CanMine, otherVars
  <2>2. owner = "daemon"
    <3>1. request # NoRequest
      <4>1. CASE HandlerMines
        BY <4>1, NoRequestTyped DEF HandlerMines
      <4>2. CASE HandlerPanics
        BY <4>2, NoRequestTyped DEF HandlerPanics, RecoverPanic, Live, RunInv
      <4> QED BY <1>2, <4>1, <4>2
    <3> QED BY <3>1 DEF Live, RunInv, OwnerInv
  <2>3. /\ ChainOnce' /\ CallsOnce' /\ QueueOnce'
        /\ Unmined \ Flying(handler) \subseteq Unmined'
    BY <2>1, ThreadsAre, OnceCallStep
  <2> QED BY <2>1, <2>2, <2>3, ThreadsAre, OnceFiles DEF Sound
<1>3. CASE HandlerClears
  <2>1. /\ UNCHANGED <<vars, submitted>> /\ UNCHANGED <<diskMempool, loopStep, sending>>
        /\ mempoolFile' = <<>> /\ request.step = "next"
    BY <1>3 DEF HandlerClears, otherVars
  <2>2. ChainOnce' /\ CallsOnce' /\ QueueOnce' /\ Unmined' = Unmined
    BY <2>1, OnceRests
  <2>3. sending.step = "none"
    BY <2>1, NoRequestTyped DEF Live, RunInv, OwnerInv
  <2>4. FileOnce' /\ SendOnce'
    BY <1>0, <2>1, <2>2, <2>3, NothingOnce DEF FileOnce, SendOnce, Waits
  <2> QED BY <2>2, <2>4 DEF Sound
<1> QED BY <1>1, <1>2, <1>3

\* A lapse stays on record.
LEMMA LapsesGrow ==
    ASSUME [DaemonNext]_allVars
    PROVE  lapses \subseteq lapses'
<1>1. CASE LedgerStep
  BY <1>1 DEF LedgerStep, MiningStep
<1>2. CASE Kill \/ Stop \/ BalancePrinted
  BY <1>2 DEF Kill, Stop, BalancePrinted, ProcessGone
<1>3. CASE StartDaemon \/ LoadMempool \/ InstallMempool \/ LoopMines \/ LoopClears
  BY <1>3 DEF StartDaemon, LoadMempool, InstallMempool, LoopMines, LoopClears, otherVars
<1>4. CASE Generate \/ HandlerMines \/ HandlerMined \/ HandlerPanics \/ HandlerClears
  BY <1>4 DEF Generate, HandlerMines, HandlerMined, HandlerPanics, HandlerClears, otherVars
<1>5. CASE \/ \E tx \in Transfers : HandleSendTx(tx)
           \/ ReadMempoolFile \/ TruncateMempoolFile \/ WriteMempoolFile \/ HandleCheckBalance
  BY <1>5 DEF HandleSendTx, ReadMempoolFile, TruncateMempoolFile, WriteMempoolFile,
              HandleCheckBalance, otherVars
<1>6. CASE \/ UNCHANGED allVars
           \/ WalletNext /\ UNCHANGED <<vars, owner, mempoolFile, loopStep, diskMempool, request,
                                        sending, submitted, lapses>>
  BY <1>6 DEF allVars
<1> QED BY <1>1, <1>2, <1>3, <1>4, <1>5, <1>6 DEF DaemonNext

LEMMA OnceNext ==
    ASSUME OnceInv, [DaemonNext]_allVars
    PROVE  OnceInv'
<1>1. RunInv' /\ LockInv' /\ SendAtomic' /\ FreshInv'
  BY RunNext, LockKept, OwnerNext, FreshNext DEF OnceInv, RunInv
<1>2. ASSUME lapses' = {} PROVE Sound'
  <2>0. Live
    BY <1>2, LapsesGrow DEF OnceInv, Live
  <2>1. CASE \/ UNCHANGED allVars
             \/ WalletNext /\ UNCHANGED <<vars, owner, mempoolFile, loopStep, diskMempool,
                                          request, sending, submitted, lapses>>
    <3>1. UNCHANGED <<vars, submitted>> /\ UNCHANGED <<loopStep, mempoolFile, diskMempool, sending>>
      BY <2>1 DEF allVars, daemonVars
    <3>2. ChainOnce' /\ CallsOnce' /\ QueueOnce' /\ Unmined' = Unmined
      BY <2>0, <3>1, OnceRests
    <3> QED BY <2>0, <3>1, <3>2, OnceStays DEF Live, Sound
  <2>2. CASE \/ StartDaemon \/ HandleCheckBalance \/ LedgerStep
             \/ \E tx \in Transfers : HandleSendTx(tx)
    BY <1>2, <2>0, <2>2, OnceStart, OnceSendBegins, OnceLedgerStep
  <2>3. CASE Kill \/ Stop
    BY <1>2, <2>0, <2>3, OnceEnds
  <2>4. CASE ReadMempoolFile \/ TruncateMempoolFile \/ WriteMempoolFile \/ BalancePrinted
    BY <2>0, <2>4, OnceSends
  <2>5. CASE LoadMempool \/ InstallMempool \/ LoopMines \/ LoopClears
    BY <1>2, <2>0, <2>5, OnceLoop
  <2>6. CASE Generate \/ HandlerMines \/ HandlerMined \/ HandlerPanics \/ HandlerClears
    BY <2>0, <2>6, OnceRequests
  <2> QED BY <2>1, <2>2, <2>3, <2>4, <2>5, <2>6 DEF DaemonNext
<1> QED BY <1>1, <1>2 DEF OnceInv

LEMMA OnceInitial == DaemonInit => OnceInv
<1> SUFFICES ASSUME DaemonInit PROVE OnceInv
  OBVIOUS
<1>1. RunInv /\ SendAtomic
  BY RunInitial, NotSendingTyped DEF DaemonInit, SendAtomic
<1>2. /\ Chain = <<>> /\ Mempool = <<>> /\ mempoolFile = <<>> /\ loopStep = "asleep"
      /\ submitted = {} /\ sending = NotSending /\ Mu = Free
      /\ pc = [t \in Threads |-> "idle"] /\ newBlock = [t \in Threads |-> NoBlock]
      /\ \A n \in 1 .. MaxHeight : blocks[n] = NoBlock
      /\ blocks[0] = NoBlock \/ blocks[0].policy = "legacy"
  BY BoundAssumption, GenesisAssumption DEF DaemonInit, Init, PerThread, Heights
<1>3. LockInv
  BY <1>2, ThreadAssumption DEF LockInv, LockDiscipline, Free, PcStates
<1>4. NoBlock.txs = <<>> /\ \A t \in Threads : newBlock[t].txs = <<>>
  BY <1>2 DEF NoBlock
<1>5. FreshInv
  BY <1>2, <1>4 DEF FreshInv, Empty
<1>6. ChainTxs(Chain) = {} /\ Apart(Chain, DOMAIN Chain)
  BY <1>2 DEF ChainTxs, Apart
<1>7. StoredTxs(blocks) = {} /\ Apart(blocks, 1 .. MaxHeight)
  BY <1>2, <1>4, NothingOnce DEF StoredTxs, Apart
<1>8. ChainOnce
  BY <1>2, <1>4, <1>6, <1>7 DEF ChainOnce
<1>9. CallsOnce
  BY <1>4, NothingOnce DEF CallsOnce, Flying
<1>10. QueueOnce /\ FileOnce /\ SendOnce
  BY <1>2, NothingOnce, NotSendingTyped DEF QueueOnce, FileOnce, SendOnce
<1> QED BY <1>1, <1>3, <1>5, <1>8, <1>9, <1>10 DEF OnceInv, Sound

LEMMA OnceHolds ==
    ASSUME OnceInv
    PROVE  MinedOnce
<1> SUFFICES ASSUME NEW i \in DOMAIN Chain, NEW k \in DOMAIN Chain,
                    NEW j \in DOMAIN Chain[i].txs, NEW l \in DOMAIN Chain[k].txs,
                    Chain[i].txs[j] = Chain[k].txs[l], lapses = {}
             PROVE  i = k /\ j = l
  BY DEF MinedOnce
<1>1. Apart(Chain, DOMAIN Chain)
  BY DEF OnceInv, Sound, ChainOnce
<1>2. Chain[i].txs[j] \in ToSet(Chain[i].txs) /\ Chain[k].txs[l] \in ToSet(Chain[k].txs)
  BY DEF ToSet
<1>3. i = k
  BY <1>1, <1>2 DEF Apart
<1> QED BY <1>1, <1>3 DEF Apart, Once

\* A transfer is executed at most once, however often daemon and commands take
\* turns at mempool.json, wherever they are killed or stopped, whatever LevelDB
\* fails to write, and whoever mines: the loop and a "generate" request that
\* overlap never take the same transfer.  Two lapses of the code are what the
\* history variable excludes: a daemon that ends after its loop has queued the
\* file and before it has cleared it leaves a file that is mined again
\* (daemon/server.go:117-123), and a selected transfer that a skipped one keeps
\* in the queue is mined again by the next call (ledger.go:352-354, 371-373).
THEOREM DaemonMinedOnce == DaemonSpec => []MinedOnce
<1>1. DaemonInit => OnceInv
  BY OnceInitial
<1>2. OnceInv /\ [DaemonNext]_allVars => OnceInv'
  BY OnceNext
<1>3. OnceInv => MinedOnce
  BY OnceHolds
<1> QED BY <1>1, <1>2, <1>3, PTL DEF DaemonSpec
=============================================================================
