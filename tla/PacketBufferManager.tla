------------------------- MODULE PacketBufferManager -------------------------
(* PacketBufferManager.cs: the buffer in which the test client puts together  *)
(* the packets of the stream.  Bytes are copied behind WritePos and packets   *)
(* taken at ReadPos; when less than MaxPacketSize is left at the end, the     *)
(* unread bytes move to the front.  Bytes are opaque, except that the first   *)
(* two of a packet are its size.                                              *)
EXTENDS Integers, Sequences

CONSTANTS BufferSize, HeaderSize, MaxPacketSize,
          Byte,      \* the bytes
          Zero,      \* the byte a new array is filled with
          ToInt16    \* the integer that two adjacent bytes encode

(* What Init demands; a header is at least the two bytes of the size.         *)
ASSUME BufferAssumption ==
         /\ BufferSize \in Nat /\ HeaderSize \in Nat /\ MaxPacketSize \in Nat
         /\ BufferSize >= 2 * MaxPacketSize
         /\ MaxPacketSize >= 1 /\ HeaderSize >= 2
         /\ Zero \in Byte
         /\ ToInt16 \in [Byte \X Byte -> Int]

VARIABLES PacketData, ReadPos, WritePos

bufferVars == <<PacketData, ReadPos, WritePos>>

BufferInit == /\ PacketData = [i \in 0 .. BufferSize - 1 |-> Zero]
              /\ ReadPos = 0
              /\ WritePos = 0

enableReadSize == WritePos - ReadPos

(* The bytes a caller may still read.                                         *)
Unread == [i \in 1 .. enableReadSize |-> PacketData[ReadPos + i - 1]]

Fits(data) == Len(data) <= BufferSize - WritePos

(* Buffer.BlockCopy to position `pos` of `array`.                             *)
BlockCopy(data, array, pos) ==
  [i \in 0 .. BufferSize - 1 |->
     IF i \in pos .. pos + Len(data) - 1 THEN data[i - pos + 1] ELSE array[i]]

NextFree(pos) == BufferSize - pos >= MaxPacketSize

Copied(data) == BlockCopy(data, PacketData, WritePos)

BufferRelocate_fromStart(data) ==
  /\ PacketData' = BlockCopy([i \in 1 .. enableReadSize + Len(data) |->
                                Copied(data)[i - 1]], Copied(data), 0)
  /\ ReadPos' = 0
  /\ WritePos' = enableReadSize + Len(data)

BufferRelocate_keepsReadPos(data) ==
  /\ PacketData' = BlockCopy(Unread \o data, Copied(data), 0)
  /\ WritePos' = enableReadSize + Len(data)
  /\ UNCHANGED ReadPos

(* BufferRelocate after `data` was copied: all unread bytes go to the front.  *)
BufferRelocate(data) ==
  /\ PacketData' = BlockCopy(Unread \o data, Copied(data), 0)
  /\ ReadPos' = 0
  /\ WritePos' = enableReadSize + Len(data)

Write_neverRelocates(data) ==
  \/ ~ Fits(data) /\ UNCHANGED bufferVars
  \/ /\ Fits(data)
     /\ PacketData' = Copied(data)
     /\ WritePos' = WritePos + Len(data)
     /\ UNCHANGED ReadPos

(* Data that does not fit is refused as a whole.                              *)
Write(data) ==
  \/ ~ Fits(data) /\ UNCHANGED bufferVars
  \/ /\ Fits(data)
     /\ NextFree(WritePos + Len(data))
     /\ PacketData' = Copied(data)
     /\ WritePos' = WritePos + Len(data)
     /\ UNCHANGED ReadPos
  \/ /\ Fits(data)
     /\ ~ NextFree(WritePos + Len(data))
     /\ BufferRelocate(data)

(* The size that the next packet says it has.                                 *)
packetDataSize == ToInt16[PacketData[ReadPos], PacketData[ReadPos + 1]]

PacketReady == /\ enableReadSize >= HeaderSize
               /\ enableReadSize >= packetDataSize

completePacketData == SubSeq(Unread, 1, packetDataSize)

Read_headerOnly == /\ PacketReady
                   /\ packetDataSize > 0
                   /\ ReadPos' = ReadPos + HeaderSize
                   /\ UNCHANGED <<PacketData, WritePos>>

(* Read when a packet is there.  A negative size makes the constructor of     *)
(* ArraySegment throw; size 0 is an empty segment, which leaves ReadPos where *)
(* it is and looks to the caller as if no packet were there.                  *)
Read == /\ PacketReady
        /\ packetDataSize > 0
        /\ ReadPos' = ReadPos + packetDataSize
        /\ UNCHANGED <<PacketData, WritePos>>

(* The buffer by itself: whatever is written, whatever sizes it contains.     *)
BufferNext == (\E data \in Seq(Byte) : Write(data)) \/ Read

BufferSpec == BufferInit /\ [][BufferNext]_bufferVars
-----------------------------------------------------------------------------
BufferTypeOK == /\ ReadPos \in Nat /\ WritePos \in Nat
                /\ ReadPos <= WritePos /\ WritePos <= BufferSize
                /\ PacketData \in [0 .. BufferSize - 1 -> Byte]

Stream == INSTANCE ByteStream WITH unread <- Unread

(* The two positions and the array, with every move of unread bytes to the    *)
(* front, are a stream: what was accepted is read in order, once, unchanged.  *)
ImplementsByteStream == Stream!Spec
=============================================================================
