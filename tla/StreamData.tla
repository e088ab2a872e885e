----------------------------- MODULE StreamData -----------------------------
(* StreamData.h: bytes that arrived and were not used yet, at the front of an *)
(* array.  Bytes are put behind them, by putData or by a caller that writes   *)
(* at current() and says how many with increaseSize; flushTo drops the front. *)
EXTENDS Integers, Sequences

CONSTANTS m_Capacity,   \* StreamDataSize
          Byte,
          NullByte,     \* what ZeroMemory writes
          Pieces        \* bound: what arrives at once

ASSUME StreamAssumption == /\ m_Capacity \in Nat \ {0}
                           /\ NullByte \in Byte
                           /\ Pieces \subseteq Seq(Byte)

VARIABLES m_Value, m_SizeOfReceived

streamVars == <<m_Value, m_SizeOfReceived>>

Positions == 0 .. m_Capacity - 1

StreamInit == /\ m_Value = [i \in Positions |-> NullByte]
              /\ m_SizeOfReceived = 0

availableSize == m_Capacity - m_SizeOfReceived

(* The bytes from current() on become `datas`.                                *)
CopyToCurrent(datas) ==
  m_Value' = [i \in Positions |->
                IF i \in m_SizeOfReceived .. m_SizeOfReceived + Len(datas) - 1
                THEN datas[i - m_SizeOfReceived + 1] ELSE m_Value[i]]

increaseSize(size) == m_SizeOfReceived' = m_SizeOfReceived + size

(* Data is put as a whole, or not at all and 0 is returned.                   *)
putData(datas) ==
  \/ (Len(datas) = 0 \/ availableSize < Len(datas)) /\ UNCHANGED streamVars
  \/ /\ Len(datas) # 0 /\ availableSize >= Len(datas)
     /\ CopyToCurrent(datas)
     /\ increaseSize(Len(datas))

(* A caller that has received at most availableSize() bytes at current().     *)
receive(datas) == /\ Len(datas) <= availableSize
                  /\ CopyToCurrent(datas)
                  /\ increaseSize(Len(datas))

(* memmove to the front of the array; the bytes behind it stay there twice.   *)
memmove(sz) == m_Value' = [i \in Positions |-> IF i < m_SizeOfReceived - sz
                                               THEN m_Value[i + sz] ELSE m_Value[i]]

flushTo_keepsBytes(sz) ==
  /\ m_SizeOfReceived' = IF m_SizeOfReceived > sz THEN m_SizeOfReceived - sz ELSE 0
  /\ UNCHANGED m_Value

flushTo(sz) ==
  \/ /\ m_SizeOfReceived > sz
     /\ memmove(sz)
     /\ m_SizeOfReceived' = m_SizeOfReceived - sz
  \/ /\ m_SizeOfReceived <= sz
     /\ m_SizeOfReceived' = 0
     /\ UNCHANGED m_Value

streamReset == /\ m_SizeOfReceived' = 0
               /\ m_Value' = [i \in Positions |-> NullByte]

(* The caller goes on with a copy, which has the whole array and the size.    *)
streamClone == /\ m_Value' = [i \in Positions |-> m_Value[i]]
               /\ m_SizeOfReceived' = m_SizeOfReceived

(* Every amount from m_Capacity on flushes all there is.                      *)
StreamNext == \/ \E datas \in Pieces : putData(datas) \/ receive(datas)
              \/ \E sz \in 0 .. m_Capacity : flushTo(sz)
              \/ streamReset \/ streamClone

StreamSpec == StreamInit /\ [][StreamNext]_streamVars
-----------------------------------------------------------------------------
StreamTypeOK == /\ m_SizeOfReceived \in 0 .. m_Capacity
                /\ m_Value \in [Positions -> Byte]

(* What a caller finds at getStream(), getSize() bytes of it.                 *)
getStream == [i \in 1 .. m_SizeOfReceived |-> m_Value[i - 1]]

Arrived == INSTANCE ByteStream WITH unread <- getStream

(* StreamData::putData, flushTo: whatever is put, received and dropped in any *)
(* order, the bytes at the front are those that arrived and were not dropped, *)
(* in their order, also when a put does not fit and when the moved bytes      *)
(* overlap their old place. That the bytes that arrived are those that the    *)
(* caller gave to putData is not part of it.                                  *)
StreamIsByteStream == Arrived!Spec
=============================================================================
