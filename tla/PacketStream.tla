---------------------------- MODULE PacketStream ----------------------------
(***************************************************************************)
(* How the bytes of one connection become packets: RecvBuffer, ProcessRecv *)
(* and PacketSession::OnRecv.  The client sends packets, TCP delivers      *)
(* their bytes in any portions, and each completion appends a portion to   *)
(* the buffer, hands whole packets to OnRecvPacket one after the other,    *)
(* and tidies the buffer before the next WSARecv: one is outstanding at a  *)
(* time, so that only the client does anything meanwhile.                  *)
(***************************************************************************)
EXTENDS Integers, Sequences

CONSTANTS
  HeaderSize,    \* sizeof(PacketHeader)
  PacketSizes,   \* PacketHeader::size of the packets clients send
  BufferSize,    \* _bufferSize, Session::BUFFER_SIZE
  BufferCount,   \* BUFFER_COUNT
  MaxPackets     \* bound: packets the client sends

ASSUME SizesAssumption ==
  /\ HeaderSize \in Nat \ {0}
  /\ PacketSizes \subseteq {n \in Nat : n >= HeaderSize}
  /\ BufferSize \in Nat \ {0} /\ BufferCount \in Nat \ {0}
  /\ MaxPackets \in Nat

Capacity == BufferSize * BufferCount    \* _capacity

VARIABLES
  sizes,       \* the sizes of the packets the client has sent
  inFlight,    \* bytes TCP has not delivered: byte i of packet k is <<k, i>>
  buffer,      \* _buffer
  readPos,     \* _readPos
  writePos,    \* _writePos
  len,         \* the bytes OnRecv has been given
  processLen,  \* the bytes its loop has been through
  received,    \* history: what OnRecvPacket has been called with
  lag,         \* history: the bytes in the buffer after the last completion
  split,       \* history: some portion ended inside a packet
  state        \* "recv": a WSARecv is outstanding; "parse": in OnRecv;
               \* "full": no room for a WSARecv; "garbled": see Clean

streamVars == <<sizes, inFlight, buffer, readPos, writePos, len, processLen,
          received, lag, split, state>>

NoByte == <<0, 0>>

StreamInit ==
  /\ sizes = <<>> /\ inFlight = <<>>
  /\ buffer = [i \in 1 .. Capacity |-> NoByte]
  /\ readPos = 0 /\ writePos = 0
  /\ len = 0 /\ processLen = 0
  /\ received = <<>> /\ lag = 0 /\ split = FALSE
  /\ state = "recv"

FreeSize == Capacity - writePos
DataSize == writePos - readPos

Bytes(k, size) == [i \in 1 .. size |-> <<k, i>>]

(* The client sends a packet.                                              *)
ClientSend(size) ==
  /\ Len(sizes) < MaxPackets
  /\ sizes' = Append(sizes, size)
  /\ inFlight' = inFlight \o Bytes(Len(sizes) + 1, size)
  /\ UNCHANGED <<buffer, readPos, writePos, len, processLen, received, lag,
                 split, state>>

-----------------------------------------------------------------------------
(* The bytes that come in go behind _writePos.                             *)
Written(n) ==
  [i \in 1 .. Capacity |->
     IF i \in writePos + 1 .. writePos + n THEN inFlight[i - writePos] ELSE buffer[i]]

(* OnRecv is given as many bytes as have just come in, counted from the    *)
(* oldest byte in the buffer.  (Variant: as many as the buffer holds.)     *)
AllThereIs(n) == DataSize + n
Given(n) == n

(* ProcessRecv up to OnRecv: n bytes, no more than WSARecv had room for.   *)
OnWrite(n) ==
  /\ state = "recv"
  /\ n <= FreeSize
  /\ buffer' = Written(n) /\ writePos' = writePos + n
  /\ inFlight' = SubSeq(inFlight, n + 1, Len(inFlight))
  /\ len' = Given(n)
  /\ split' = (split \/ inFlight[n][2] # sizes[inFlight[n][1]])
  /\ state' = "parse"
  /\ UNCHANGED <<sizes, readPos, processLen, received, lag>>

(* The first byte the loop of OnRecv has not been through, and the size    *)
(* that a header says.  It says one only where a packet begins.            *)
First == readPos + processLen + 1
SizeAt(i) == IF buffer[i][2] = 1 THEN sizes[buffer[i][1]] ELSE HeaderSize

(* A packet that fits into the bytes left is whole.                        *)
PacketIsWhole ==
  /\ len - processLen >= HeaderSize
  /\ SizeAt(First) <= len - processLen

(* OnRecvPacket is called with the packet.                                 *)
HandlePacket ==
  /\ state = "parse" /\ PacketIsWhole
  /\ received' = Append(received, SubSeq(buffer, First, First + SizeAt(First) - 1))
  /\ processLen' = processLen + SizeAt(First)
  /\ UNCHANGED <<sizes, inFlight, buffer, readPos, writePos, len, lag, split, state>>

(* OnRead moves _readPos over what the loop has been through.  (Variant:   *)
(* over what OnRecv has been given.)                                       *)
ReadToEnd == readPos + len
ReadTo == readPos + processLen

(* Clean starts again at the front when the buffer is empty, and moves the *)
(* data there when less than one BufferSize is free.  memcpy may do        *)
(* anything to data that overlaps its new place.  (Variant: the positions  *)
(* are moved and the data is not.)                                         *)
NotMoved(from, size) == buffer
Moved(from, size) ==
  [i \in 1 .. Capacity |-> IF i <= size THEN buffer[from + i] ELSE buffer[i]]

Clean(r) ==
  \/ /\ r = writePos
     /\ readPos' = 0 /\ writePos' = 0 /\ state' = "recv" /\ UNCHANGED buffer
  \/ /\ r < writePos /\ FreeSize >= BufferSize
     /\ readPos' = r /\ state' = "recv" /\ UNCHANGED <<writePos, buffer>>
  \/ /\ r < writePos /\ FreeSize < BufferSize
     /\ readPos' = 0 /\ writePos' = writePos - r
     /\ buffer' = Moved(r, writePos - r)
     /\ state' \in IF writePos - r > r THEN {"recv", "garbled"} ELSE {"recv"}

(* The rest of ProcessRecv, when no packet in the bytes left is whole.     *)
OnRead ==
  /\ state = "parse" /\ ~PacketIsWhole
  /\ Clean(ReadTo)
  /\ lag' = writePos - ReadTo
  /\ len' = 0 /\ processLen' = 0
  /\ UNCHANGED <<sizes, inFlight, received, split>>

(* A WSARecv without room completes with no bytes: the session ends.       *)
RecvNothing ==
  /\ state = "recv"
  /\ FreeSize = 0
  /\ state' = "full"
  /\ UNCHANGED <<sizes, inFlight, buffer, readPos, writePos, len, processLen,
                 received, lag, split>>

StreamNext ==
  \/ \E size \in PacketSizes : ClientSend(size)
  \/ \E n \in 1 .. Len(inFlight) : OnWrite(n)
  \/ HandlePacket
  \/ OnRead
  \/ RecvNothing

StreamSpec == StreamInit /\ [][StreamNext]_streamVars

-----------------------------------------------------------------------------
(* What OnRecvPacket has not been called with, in the buffer and behind it. *)
Data == SubSeq(buffer, First, writePos)
Unread == Data \o inFlight

(* The byte that comes behind a byte in the stream of the client.          *)
ByteAfter(byte) ==
  IF byte[2] = sizes[byte[1]] THEN <<byte[1] + 1, 1>> ELSE <<byte[1], byte[2] + 1>>

(* Every variable has its type, and the positions are in order.            *)
StreamTypes ==
  /\ sizes \in Seq(PacketSizes) /\ Len(sizes) <= MaxPackets
  /\ inFlight \in Seq(Nat \X Nat) /\ received \in Seq(Seq(Nat \X Nat))
  /\ buffer \in [1 .. Capacity -> Nat \X Nat]
  /\ writePos \in 0 .. Capacity /\ readPos \in 0 .. writePos
  /\ len \in Nat /\ processLen \in Nat /\ lag \in Nat
  /\ split \in BOOLEAN
  /\ state \in {"recv", "parse", "full", "garbled"}

(* What is to be read goes from the first byte of the packet behind the    *)
(* one that was handled last to the last byte that was sent, and nothing   *)
(* is lost or doubled in between.                                          *)
InOrder ==
  /\ Unread = <<>> <=> Len(received) = Len(sizes)
  /\ Unread # <<>> =>
       /\ Unread[1] = <<Len(received) + 1, 1>>
       /\ Unread[Len(Unread)] = <<Len(sizes), sizes[Len(sizes)]>>
  /\ \A i \in 1 .. Len(Unread) - 1 : Unread[i + 1] = ByteAfter(Unread[i])

(* Whatever the portions, the stream is kept in order, although Clean      *)
(* moves the data and OnRecv looks at a part of it only.  The loop stays   *)
(* inside what it was given and what is there, so that ProcessRecv never   *)
(* ends with a read overflow; and as long as no portion has ended inside a *)
(* packet nothing is left behind.                                          *)
StreamIsKept ==
  /\ StreamTypes
  /\ state # "garbled" => InOrder
  /\ processLen <= len /\ len <= DataSize
  /\ ~split => lag = 0

(* OnRecv looks at no more bytes than have just come in, so that what a    *)
(* completion leaves in the buffer never gets less: once a portion has     *)
(* ended inside a packet the last packets wait for bytes the client has no *)
(* reason to send.                                                         *)
LagNeverShrinks == [][lag' >= lag]_streamVars

(* OnRecvPacket gets every packet whole, once and in order.                *)
Channel == INSTANCE PacketChannel
ImplementsPacketChannel == Channel!Spec
=============================================================================
