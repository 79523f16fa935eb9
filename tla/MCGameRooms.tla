---------------------------- MODULE MCGameRooms ----------------------------
(***************************************************************************)
(* Instances of GameRooms for TLC.                                         *)
(***************************************************************************)
EXTENDS GameRooms, TLC

(* Sessions are interchangeable; players and rooms are numbered.           *)
SessionSymmetry == Permutations(Sessions)
=============================================================================
