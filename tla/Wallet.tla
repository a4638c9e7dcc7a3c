------------------------------- MODULE Wallet -------------------------------
(***************************************************************************)
(* wallet.dat (storage/wallet/wallet.go) and the commands that add an      *)
(* account to it ("xcosh create", internal/cli/handlers.go).  Each command *)
(* is a process of its own: it loads the whole container, appends a key    *)
(* and writes the whole container back.  An account is named after the     *)
(* command that creates it.                                                *)
(***************************************************************************)
EXTENDS Naturals, SequencesExt

File == INSTANCE WholeFile WITH None <- <<>>

CONSTANTS
    Creates,       \* the create commands, and so the accounts they generate
    OldAccounts,   \* what wallet.dat holds at first
    CreatesOverlap, CreatesFail   \* BOOLEAN: two at a time; killed, or disk full

ASSUME WalletAssumption ==
    /\ CreatesOverlap \in BOOLEAN /\ CreatesFail \in BOOLEAN
    /\ \A i \in DOMAIN OldAccounts : OldAccounts[i] \notin Creates

VARIABLES
    wallet,        \* wallet.dat: its accounts, <<>> if absent or unreadable
    create,        \* per command: [step, wf], the container it has at hand
    created,       \* history: accounts a command has printed
    harmed         \* history: a command died, or failed, half-way through writing

walletVars == <<wallet, create, created, harmed>>

NotCreating == [step |-> "idle", wf |-> <<>>]

WalletInit ==
    /\ wallet = OldAccounts
    /\ create = [c \in Creates |-> NotCreating]
    /\ created = {} /\ harmed = FALSE

\* LoadWalletCustom; a file that cannot be read is an empty container.
LoadWallet(file) == file

Creating(c) == create[c].step \notin {"idle", "done"}

\* Mutants: the newest account comes first; it is the only one.
WithAccountFirst(wf, account) == <<account>> \o wf
WithAccountOnly(wf, account) == <<account>>

WithAccount(wf, account) == Append(wf, account)

\* GenerateNewAccount: load, generate a key, append.
GenerateNewAccount(c) ==
    /\ create[c].step = "idle"
    /\ CreatesOverlap \/ \A d \in Creates : ~Creating(d)
    /\ create' = [create EXCEPT ![c] = [step |-> "generated",
                                        wf   |-> WithAccount(LoadWallet(wallet), c)]]
    /\ UNCHANGED <<wallet, created, harmed>>

OpenWallet(c) ==
    /\ create[c].step = "generated"
    /\ create' = [create EXCEPT ![c].step = "opened"]
    /\ wallet' = File!Truncated
    /\ UNCHANGED <<created, harmed>>

SaveWallet(c) ==
    /\ create[c].step = "opened"
    /\ create' = [create EXCEPT ![c].step = "saved"]
    /\ wallet' \in File!Written(wallet, create[c].wf)
    /\ UNCHANGED <<created, harmed>>

\* os.WriteFile fails: to open the file, or half-way.  The command says so.
SaveFails(c) ==
    /\ CreatesFail
    /\ create[c].step \in {"generated", "opened"}
    /\ create' = [create EXCEPT ![c] = [NotCreating EXCEPT !.step = "done"]]
    /\ wallet' = IF create[c].step = "opened" THEN <<>> ELSE wallet
    /\ harmed' = (harmed \/ create[c].step = "opened")
    /\ UNCHANGED created

\* The new address is printed.
PrintAccount(c) ==
    /\ create[c].step = "saved"
    /\ create' = [create EXCEPT ![c] = [NotCreating EXCEPT !.step = "done"]]
    /\ created' = created \cup {c}
    /\ UNCHANGED <<wallet, harmed>>

KillCreate(c) ==
    /\ CreatesFail /\ Creating(c)
    /\ create' = [create EXCEPT ![c] = [NotCreating EXCEPT !.step = "done"]]
    /\ harmed' = (harmed \/ create[c].step = "opened")
    /\ UNCHANGED <<wallet, created>>

WalletNext ==
    \E c \in Creates : \/ GenerateNewAccount(c) \/ OpenWallet(c) \/ SaveWallet(c)
                       \/ SaveFails(c) \/ PrintAccount(c) \/ KillCreate(c)

-----------------------------------------------------------------------------
Opened == \E c \in Creates : create[c].step = "opened"

\* A key whose address was printed, or that was there before, stays in the file,
\* so that whoever holds coins at the address can spend them; only a command that
\* ends between opening the file and writing it loses any (wallet.go:160-209).
KeysKept ==
    ~harmed /\ ~Opened =>
        \A k \in created \cup ToSet(OldAccounts) : k \in ToSet(wallet)
=============================================================================
