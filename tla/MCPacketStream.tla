-------------------------- MODULE MCPacketStream --------------------------
(***************************************************************************)
(* An instance of PacketStream for TLC: a buffer of nine bytes stands for  *)
(* one of ten times 64 KB.                                                 *)
(***************************************************************************)
EXTENDS PacketStream
=============================================================================
