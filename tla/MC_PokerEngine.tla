---------------------------- MODULE MC_PokerEngine ----------------------------
(* Two player ids, ordered as NodeID strings are: every engine run is     *)
(* heads-up.                                                              *)
EXTENDS PokerEngine

MCPlayer2 == {1, 2}

MCMinActorsToAct == -1
=============================================================================
