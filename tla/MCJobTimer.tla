----------------------------- MODULE MCJobTimer -----------------------------
(***************************************************************************)
(* Instances of JobTimer for TLC.                                          *)
(***************************************************************************)
EXTENDS JobTimer
=============================================================================
