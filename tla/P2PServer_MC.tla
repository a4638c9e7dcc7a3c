--------------------------- MODULE P2PServer_MC ---------------------------
(***************************************************************************)
(* P2PServer for TLC: two remote nodes and ourselves, room for two peers,  *)
(* one of them dialled.  The conn values are interchangeable: a fresh one  *)
(* is any unused one.                                                      *)
(***************************************************************************)
EXTENDS P2PServer

CONSTANTS us, n1, n2, wan, c1, c2, c3, c4

Interchangeable == Permutations(Conns)
=============================================================================
