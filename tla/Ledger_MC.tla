----------------------------- MODULE Ledger_MC -----------------------------
(* Instances of the ledger: two accounts that pay each other, a cap that   *)
(* truncates the second reward, and clocks that run late, stand still or    *)
(* run backwards.                                                           *)
EXTENDS LedgerProperties

CONSTANTS alice, bob, t1, t2

MCCheckpoints == [h \in {0} |-> 0]
GenesisFixed  == [d \in {3} |-> {0}]

\* bob can only pay out of what alice, who mines, has sent him; both transfers
\* just fit into a block, with their comma, and two of alice's do not.
AliceToBob == [id |-> 1, from |-> alice, to |-> bob, value |-> 2, fee |-> 1,
               nonce |-> 1, size |-> 4]
BobToAlice == [id |-> 2, from |-> bob, to |-> alice, value |-> 1, fee |-> 1,
               nonce |-> 5, size |-> 3]
TwoTransfers == {AliceToBob, BobToAlice}
OneTransfer  == {AliceToBob}

MCLegacyGenesis == [NoBlock EXCEPT !.hash = 1, !.policy = "legacy", !.reward = 9,
                                   !.time = 1, !.work = 3, !.diff = 3]

NoPeerTransfers  == {<<>>}
OnePeerTransfer  == {<<AliceToBob>>}
=============================================================================
