----------------------------- MODULE MCRoomPlay -----------------------------
(***************************************************************************)
(* Instances of RoomPlay for TLC.  The players that enter the room of the  *)
(* host are alike, and no property is a temporal one.                      *)
(***************************************************************************)
EXTENDS RoomPlay, TLC

GuestSymmetry == Permutations(Players \ {Host})
=============================================================================
