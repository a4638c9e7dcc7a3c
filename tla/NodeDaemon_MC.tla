---------------------------- MODULE NodeDaemon_MC ----------------------------
(* Instances of the processes around one data directory.  Difficulty 1 and 3 *)
(* stand for themselves; the genesis hash is the checkpoint, 0, in both, or  *)
(* only in the one the daemon uses.                                          *)
EXTENDS NodeDaemon

CONSTANTS alice, bob, carol, dave

MCCheckpoints    == [h \in {0} |-> 0]
SameGenesis      == [d \in {1, 3} |-> {0}]
OwnGenesis       == [d \in {1, 3} |-> IF d = 3 THEN {0} ELSE {1}]
AliceToBob == [id |-> 1, from |-> alice, to |-> bob, value |-> 3, fee |-> 1,
               nonce |-> 1, size |-> 3]
BobToAlice == [id |-> 2, from |-> bob, to |-> alice, value |-> 2, fee |-> 1,
               nonce |-> 5, size |-> 3]
ThreeTransfers == {AliceToBob, BobToAlice, [AliceToBob EXCEPT !.id = 3, !.fee = 0]}
OneTransfer  == {AliceToBob}
TwoTransfers == {AliceToBob, BobToAlice}

MCLegacyGenesis == [NoBlock EXCEPT !.hash = 1, !.policy = "legacy", !.reward = 9,
                                   !.time = 1, !.work = 3, !.diff = 3]
AliceOnly == <<alice>>
AliceAndDave == <<alice, dave>>
NoPeerTransfers == {<<>>}
=============================================================================
