-------------------------- MODULE DurableChain_MC --------------------------
(* A cap that is not a multiple of any reward, reached after one halving. *)
EXTENDS DurableChain

CONSTANTS MaxBlocks     \* bound: longest chain explored

MCCheckpoints   == [h \in {} |-> 0]
MCLegacyGenesis == [hash |-> 1, prev |-> NoHash, index |-> 0, time |-> 1,
                    reward |-> 9, total |-> 9, policy |-> "legacy"]

\* Hashes are interchangeable here: block i takes hash i.
MCNext == /\ Next
          /\ Len(durable') <= MaxBlocks
          /\ durable' # <<>> => Last(durable').hash = Len(durable')
MCSpec == Init /\ [][MCNext]_durable
=============================================================================
