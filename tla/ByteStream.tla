----------------------------- MODULE ByteStream -----------------------------
(* What the test client needs of its reassembly buffer, and StreamData.h      *)
(* promises as well: the bytes that have arrived and not been read come out   *)
(* complete, in order and once.                                               *)
EXTENDS Naturals, Sequences

CONSTANT Byte

VARIABLE unread

Init == unread = <<>>

(* Bytes arrive behind the unread ones, which stay as they are. Which bytes   *)
(* they are is not said here: the stream is about what happens to them inside *)
(* the buffer. That they are those of the server is PacketsInOrder.           *)
Put == /\ unread' \in Seq(Byte)
       /\ Len(unread) <= Len(unread')
       /\ unread = SubSeq(unread', 1, Len(unread))

(* A piece is taken from the front.                                           *)
Take == \E size \in 1 .. Len(unread) :
          unread' = SubSeq(unread, size + 1, Len(unread))

Spec == Init /\ [][Put \/ Take]_unread
=============================================================================
