---------------------------- MODULE MC_TableReplica ----------------------------
(* TLC instance of TableReplica: three nodes, the middle id as creator,  *)
(* so that one node sorts before it and one after it.                   *)
EXTENDS TableReplica

MCNode == {1, 2, 3}
MCNone == 0
MCInitAuthority == 2

(* Two nodes, for the liveness run. *)
MCNode2 == {1, 2}
=============================================================================
