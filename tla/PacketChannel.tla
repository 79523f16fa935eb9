---------------------------- MODULE PacketChannel ----------------------------
(***************************************************************************)
(* What the receiving side of a session promises to OnRecvPacket: it is    *)
(* called once for each packet, in the order in which the client sent      *)
(* them, with the bytes of this packet and no others.                      *)
(***************************************************************************)
EXTENDS Naturals, Sequences

CONSTANT PacketSizes

VARIABLES
  sizes,     \* the sizes of the packets that have been sent
  received   \* the packets that have been handed on

vars == <<sizes, received>>

(* The bytes of a packet: byte i of packet k is <<k, i>>.                  *)
Bytes(k, size) == [i \in 1 .. size |-> <<k, i>>]

Init == sizes = <<>> /\ received = <<>>

Send ==
  /\ \E size \in PacketSizes : sizes' = Append(sizes, size)
  /\ UNCHANGED received

Receive ==
  /\ Len(received) < Len(sizes)
  /\ LET k == Len(received) + 1
     IN  received' = Append(received, Bytes(k, sizes[k]))
  /\ UNCHANGED sizes

Next == Send \/ Receive

Spec == Init /\ [][Next]_vars
=============================================================================
