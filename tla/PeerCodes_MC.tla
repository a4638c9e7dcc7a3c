---------------------------- MODULE PeerCodes_MC ----------------------------
(***************************************************************************)
(* PeerCodes with two protocols in common, 1 and 2.  The first setup has   *)
(* two versions of protocol 1 on both sides; in the second each side has a *)
(* protocol and a version the other lacks.  Orders differ throughout.      *)
(***************************************************************************)
EXTENDS PeerCodes

CONSTANTS c1

Proto(n, v, l) == [name |-> n, version |-> v, length |-> l]

TwoSetups ==
    {[ours   |-> <<Proto(1, 2, 1), Proto(2, 1, 1), Proto(1, 1, 2)>>,
      theirs |-> <<Proto(2, 1, 1), Proto(1, 1, 2), Proto(1, 2, 1)>>],
     [ours   |-> <<Proto(2, 1, 1), Proto(1, 2, 1), Proto(1, 1, 2), Proto(0, 1, 2)>>,
      theirs |-> <<Proto(3, 1, 1), Proto(1, 1, 2), Proto(2, 1, 1)>>]}

ASSUME TwoSetupsAgree == LengthsAgree
=============================================================================
