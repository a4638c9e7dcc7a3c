---------------------------- MODULE AddressBook ----------------------------
(***************************************************************************)
(* The addresses a node knows (internal/p2p/addrman.go): a map in memory   *)
(* that the goroutines of the server share, saved as a whole to            *)
(* peers_addrman.json after each change.  Only the keys are modelled.      *)
(***************************************************************************)
EXTENDS Naturals

CONSTANTS
    PeerAddress,   \* the keys, "ip:port"
    Goroutines,    \* those that call AddAddress
    Nobody

ASSUME BookAssumption == Nobody \notin Goroutines

File == INSTANCE WholeFile WITH None <- {}

VARIABLES
    Addresses,     \* keys of am.Addresses
    mu,            \* am.mu: who holds it
    addrFile,      \* peers_addrman.json: its keys; unreadable text counts as none
    saving,        \* per goroutine: [step, key, data], its call of AddAddress
    added,         \* history: addresses whose AddAddress could save them
    spoilt         \* history: a write of the file stopped half-way

bookVars == <<Addresses, mu, addrFile, saving, added, spoilt>>

NotSaving == [step |-> "no", key |-> Nobody, data |-> {}]

BookTypeOK ==
    /\ Addresses \subseteq PeerAddress /\ addrFile \subseteq PeerAddress
    /\ mu \in Goroutines \cup {Nobody}
    /\ saving \in [Goroutines -> [step : {"no", "marshalled", "opened"},
                                  key : PeerAddress \cup {Nobody}, data : SUBSET PeerAddress]]
    /\ added \subseteq PeerAddress /\ spoilt \in BOOLEAN

BookInit ==
    /\ addrFile = {} /\ added = {} /\ spoilt = FALSE
    /\ Addresses = {} /\ mu = Nobody
    /\ saving = [g \in Goroutines |-> NotSaving]

\* The data are marshalled before the file is touched.
Marshalled(key) == [step |-> "marshalled", key |-> key, data |-> Addresses \cup {key}]

\* Mutant: am.mu is not taken.
AddAddressUnlocked(g, key) ==
    /\ saving[g] = NotSaving
    /\ Addresses' = Addresses \cup {key}
    /\ saving' = [saving EXCEPT ![g] = Marshalled(key)]
    /\ UNCHANGED <<mu, addrFile, added, spoilt>>

AddAddress(g, key) ==
    /\ saving[g] = NotSaving
    /\ mu = Nobody /\ mu' = g
    /\ Addresses' = Addresses \cup {key}
    /\ saving' = [saving EXCEPT ![g] = Marshalled(key)]
    /\ UNCHANGED <<addrFile, added, spoilt>>

\* os.WriteFile: truncate, ...
OpenAddrFile(g) ==
    /\ saving[g].step = "marshalled"
    /\ addrFile' = File!Truncated
    /\ saving' = [saving EXCEPT ![g].step = "opened"]
    /\ UNCHANGED <<Addresses, mu, added, spoilt>>

\* ... then write; the deferred Unlock follows.
SaveToDisk(g) ==
    /\ saving[g].step = "opened"
    /\ addrFile' \in File!Written(addrFile, saving[g].data)
    /\ added' = added \cup {saving[g].key}
    /\ saving' = [saving EXCEPT ![g] = NotSaving]
    /\ mu' = Nobody
    /\ UNCHANGED <<Addresses, spoilt>>

\* Its error is dropped.
SaveToDiskFails(g) ==
    /\ saving[g] # NotSaving
    /\ spoilt' = (spoilt \/ saving[g].step = "opened")
    /\ saving' = [saving EXCEPT ![g] = NotSaving]
    /\ mu' = Nobody
    /\ UNCHANGED <<Addresses, addrFile, added>>

\* NewAddrManager, LoadFromDisk.
NewAddrManager ==
    /\ Addresses' = addrFile
    /\ UNCHANGED <<mu, addrFile, saving, added, spoilt>>

\* The process ends; the file stays as it is.
ManagerGone ==
    /\ spoilt' = (spoilt \/ \E g \in Goroutines : saving[g].step = "opened")
    /\ Addresses' = {} /\ mu' = Nobody
    /\ saving' = [g \in Goroutines |-> NotSaving]
    /\ UNCHANGED <<addrFile, added>>

BookStep == \E g \in Goroutines : OpenAddrFile(g) \/ SaveToDisk(g) \/ SaveToDiskFails(g)

-----------------------------------------------------------------------------
\* An address the manager has saved stays in the file, whatever the other
\* goroutines add, across restarts, and when a write cannot even begin; only a
\* write that stops half-way loses any (addrman.go:54-100).
AddressesKept ==
    ~spoilt /\ (\A g \in Goroutines : saving[g].step # "opened") => added \subseteq addrFile
=============================================================================
