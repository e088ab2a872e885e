----------------------------- MODULE DataBuffer -----------------------------
(* DataBuffer.h: fields are pushed one after the other into a buffer          *)
(* (DynamicDataBuffer and StaticDataBuffer, alike but for one method), and    *)
(* read one after the other by a ReadOnlyDataBuffer over what was pushed.     *)
(* Nothing in the bytes says what they are: writer and reader agree on the    *)
(* kinds of the fields beforehand, and the writer stops at a push that fails. *)
EXTENDS Integers, Sequences, SequencesExt

CONSTANTS maxLength,      \* bytes of the buffer
          IntSize, Int64Size, WcharSize,
          TextLengths,    \* in characters
          MaxFields,      \* bound: fields that writer and reader agree on
          MaxCharacters   \* room that the reader has for a text

ASSUME DataBufferAssumption ==
         /\ {maxLength, IntSize, Int64Size, WcharSize, MaxCharacters} \subseteq Nat \ {0}
         /\ TextLengths \subseteq Nat /\ MaxFields \in Nat

(* An array of no characters can be pushed, but ReadArray throws at it.       *)
FieldKinds ==
  [kind : {"Int", "Int64"}, count : {0}]
  \cup [kind : {"String", "WStringArray"}, count : TextLengths]
  \cup [kind : {"WString"}, count : TextLengths \ {0}]

VARIABLES fields,      \* what writer and reader agree on
          pushed,      \* how many fields were pushed
          writer,      \* "pushes", "failed" or "reads": the buffer was handed on
          bytes,       \* datas: in each byte, whose it is and which of its bytes
          curLength,
          curPos, got, \* of the reader: position, bytes of each field read
          thrown

writerVars == <<pushed, writer, bytes, curLength>>
readerVars == <<curPos, got, thrown>>
dataBufferVars == <<fields, writerVars, readerVars>>

BytesOf(owner, size) == [k \in 1 .. size |-> [of |-> owner, byte |-> k]]
Content(i, size) == BytesOf(<<"field", i>>, size)
Length(n) == BytesOf(<<"length", n>>, IntSize)

ZeroMemory == BytesOf(<<"zero", 0>>, maxLength)

DataBufferInit == /\ fields \in SeqOf(FieldKinds, MaxFields)
                  /\ pushed = 0 /\ writer = "pushes"
                  /\ bytes = ZeroMemory /\ curLength = 0
                  /\ curPos = 0 /\ got = <<>> /\ thrown = FALSE
-----------------------------------------------------------------------------
(* The writer.                                                                *)
Fits(data) == Len(data) <= maxLength - curLength

CopyMemory(data) ==
  /\ bytes' = [i \in 1 .. maxLength |-> IF i - curLength \in DOMAIN data
                                        THEN data[i - curLength] ELSE bytes[i]]
  /\ curLength' = curLength + Len(data)

PushSucceeds(data) == /\ Fits(data) /\ CopyMemory(data)
                      /\ pushed' = pushed + 1 /\ UNCHANGED writer

PushFails == writer' = "failed" /\ UNCHANGED <<pushed, bytes, curLength>>

(* pushInt, pushInt64, pushWString: all of it or nothing.                     *)
pushdata(data) == PushSucceeds(data) \/ (~ Fits(data) /\ PushFails)

(* pushString, pushWStringArray: without room for the length it throws;       *)
(* without room for the text behind it, the length stays.                     *)
pushAfterLength(n, data) ==
  \/ PushSucceeds(Length(n) \o data)
  \/ /\ Fits(Length(n)) /\ ~ Fits(Length(n) \o data)
     /\ CopyMemory(Length(n))
     /\ writer' = "failed" /\ UNCHANGED pushed
  \/ ~ Fits(Length(n)) /\ PushFails

Push == LET i == pushed + 1
            size == fields[i].count * WcharSize
        IN /\ writer = "pushes" /\ pushed < Len(fields)
           /\ \/ fields[i].kind = "Int" /\ pushdata(Content(i, IntSize))
              \/ fields[i].kind = "Int64" /\ pushdata(Content(i, Int64Size))
              \/ fields[i].kind = "WString" /\ pushdata(Content(i, size))
              \/ fields[i].kind = "String" /\ pushAfterLength(size, Content(i, size))
              \/ /\ fields[i].kind = "WStringArray"
                 /\ pushAfterLength(fields[i].count, Content(i, size))
           /\ UNCHANGED <<fields, readerVars>>

(* The buffer, complete or not, is handed to a ReadOnlyDataBuffer.            *)
HandOn == /\ writer = "failed" \/ pushed = Len(fields)
          /\ writer' = "reads"
          /\ UNCHANGED <<fields, pushed, bytes, curLength, readerVars>>

(* reset, for the same fields again, with a new reader.                       *)
reset == /\ writer = "reads"
         /\ pushed' = 0 /\ writer' = "pushes"
         /\ bytes' = ZeroMemory /\ curLength' = 0
         /\ curPos' = 0 /\ got' = <<>> /\ thrown' = FALSE
         /\ UNCHANGED fields
-----------------------------------------------------------------------------
(* The reader.                                                                *)
Throws(pos) == thrown' = TRUE /\ curPos' = pos /\ UNCHANGED got

Left(pos) == curLength - pos

Skips_copied(pos, size, room) == curPos' = pos + (IF size > room THEN room ELSE size)
Skips(pos, size, room) == curPos' = pos + size

(* `size` bytes at `pos`, of which `room` are copied at most.                 *)
ReadBytes(pos, size, room) ==
  \/ Left(pos) < size /\ Throws(pos)
  \/ /\ Left(pos) >= size
     /\ got' = Append(got, SubSeq(bytes, pos + 1, pos + (IF size > room THEN room ELSE size)))
     /\ Skips(pos, size, room)
     /\ UNCHANGED thrown

(* The number at `pos`; if it is no length, some number.                      *)
LengthAt(pos) == bytes[pos + 1].of[2]

(* ReadString and ReadStringByCount: a length in units of `unit` bytes, which *)
(* is passed over before the text turns out not to be there.                  *)
ReadAfterLength(unit) ==
  \/ Left(curPos) < IntSize /\ Throws(curPos)
  \/ /\ Left(curPos) >= IntSize
     /\ ReadBytes(curPos + IntSize, LengthAt(curPos) * unit, MaxCharacters * WcharSize)

Read == LET f == fields[Len(got) + 1]
        IN /\ writer = "reads" /\ ~ thrown /\ Len(got) < Len(fields)
           /\ \/ f.kind = "Int" /\ ReadBytes(curPos, IntSize, IntSize)
              \/ f.kind = "Int64" /\ ReadBytes(curPos, Int64Size, Int64Size)
              \/ /\ f.kind = "WString"
                 /\ ReadBytes(curPos, f.count * WcharSize, f.count * WcharSize)
              \/ f.kind = "String" /\ ReadAfterLength(1)
              \/ f.kind = "WStringArray" /\ ReadAfterLength(WcharSize)
           /\ UNCHANGED <<fields, writerVars>>

DataBufferNext == Push \/ HandOn \/ reset \/ Read

DataBufferSpec == DataBufferInit /\ [][DataBufferNext]_dataBufferVars
-----------------------------------------------------------------------------
DataBufferTypeOK == /\ curLength \in 0 .. maxLength /\ curPos \in 0 .. curLength
                    /\ pushed \in 0 .. Len(fields) /\ thrown \in BOOLEAN
                    /\ writer \in {"pushes", "failed", "reads"}

(* What the reader should find in field i: its first bytes.                   *)
Expected(i) ==
  LET size == fields[i].count * WcharSize
      room == MaxCharacters * WcharSize
      inBytes == IF fields[i].kind = "Int" THEN IntSize
                 ELSE IF fields[i].kind = "Int64" THEN Int64Size
                 ELSE IF fields[i].kind = "WString" \/ size <= room THEN size ELSE room
  IN Content(i, inBytes)

(* ReadOnlyDataBuffer gives back the fields that were pushed completely, each *)
(* with its own bytes, also behind a text that the reader had no room for;    *)
(* and it throws at the field whose push failed, not before and not later,    *)
(* although a failed pushString leaves a length behind.                       *)
FieldsInSync == /\ Len(got) <= pushed
                /\ \A i \in DOMAIN got : got[i] = Expected(i)
                /\ thrown => Len(got) = pushed /\ pushed < Len(fields)
=============================================================================
