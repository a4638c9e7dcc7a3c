---------------------------- MODULE PeerTable_MC ----------------------------
(* Two addresses, a seed dialled while peers connect, and three connections. *)
(* Nothing orders addresses or connections.                                   *)
EXTENDS PeerTable, TLC

TableSymmetry == Permutations(PeerAddress) \cup Permutations(Conns)
=============================================================================
