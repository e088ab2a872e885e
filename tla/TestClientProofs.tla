-------------------------- MODULE TestClientProofs --------------------------
(* The reassembly buffer of the test client is a byte stream, for every       *)
(* buffer size, header size, greatest packet size and contents; the queue of  *)
(* packets to send keeps its indices, and gives each packet out once unless   *)
(* two methods met as SendQueue says; and the threads of the client use both  *)
(* as their own specifications say, so that this holds for the running        *)
(* program.  Of the client itself, for any connections, packets and           *)
(* interleavings: its types, and, while no bytes were refused and none left   *)
(* behind by a lost connection, that there is room for a packet and that what *)
(* is delivered is what the servers sent, in order.                           *)
EXTENDS TestClient, SequenceTheorems, TLAPS

LEMMA SeqIsFunction ==
  ASSUME NEW S, NEW q \in Seq(S)
  PROVE  q = [i \in 1 .. Len(q) |-> q[i]]
<1>1. q \in [1 .. Len(q) -> S]
  BY LenProperties
<1> QED
  BY <1>1

(* The unread bytes, read off the array.                                      *)
LEMMA UnreadBytes ==
  ASSUME BufferTypeOK
  PROVE  /\ enableReadSize \in Nat
         /\ Unread \in Seq(Byte)
         /\ Len(Unread) = enableReadSize
         /\ \A i \in 1 .. enableReadSize : Unread[i] = PacketData[ReadPos + i - 1]
<1>1. enableReadSize \in Nat
  BY DEF BufferTypeOK, enableReadSize
<1>2. \A i \in 1 .. enableReadSize : ReadPos + i - 1 \in 0 .. BufferSize - 1
  BY BufferAssumption DEF BufferTypeOK, enableReadSize
<1>3. \A i \in 1 .. enableReadSize : PacketData[ReadPos + i - 1] \in Byte
  BY <1>2 DEF BufferTypeOK
<1> QED
  BY <1>1, <1>3 DEF Unread

LEMMA UnreadLength == BufferTypeOK => Len(Unread) = enableReadSize
  BY UnreadBytes

(* A copy changes the bytes it covers and no others.                          *)
LEMMA BlockCopyBytes ==
  ASSUME NEW data \in Seq(Byte), NEW array \in [0 .. BufferSize - 1 -> Byte],
         NEW pos \in Nat, pos + Len(data) <= BufferSize
  PROVE  /\ BlockCopy(data, array, pos) \in [0 .. BufferSize - 1 -> Byte]
         /\ \A i \in 1 .. Len(data) : BlockCopy(data, array, pos)[pos + i - 1] = data[i]
         /\ \A i \in 0 .. pos - 1 : BlockCopy(data, array, pos)[i] = array[i]
<1>1. Len(data) \in Nat /\ \A i \in 1 .. Len(data) : data[i] \in Byte
  OBVIOUS
<1>2. ASSUME NEW i \in 0 .. BufferSize - 1, i \in pos .. pos + Len(data) - 1
      PROVE  data[i - pos + 1] \in Byte
  <2>1. i - pos + 1 \in 1 .. Len(data)
    BY <1>1, <1>2, BufferAssumption
  <2> QED
    BY <1>1, <2>1
<1>3. BlockCopy(data, array, pos) \in [0 .. BufferSize - 1 -> Byte]
  BY <1>2 DEF BlockCopy
<1>4. ASSUME NEW i \in 1 .. Len(data)
      PROVE  BlockCopy(data, array, pos)[pos + i - 1] = data[i]
  <2>1. /\ pos + i - 1 \in 0 .. BufferSize - 1
        /\ pos + i - 1 \in pos .. pos + Len(data) - 1
        /\ (pos + i - 1) - pos + 1 = i
    BY <1>1, BufferAssumption
  <2> QED
    BY <2>1 DEF BlockCopy
<1>5. ASSUME NEW i \in 0 .. pos - 1
      PROVE  BlockCopy(data, array, pos)[i] = array[i]
  <2>1. i \in 0 .. BufferSize - 1 /\ i \notin pos .. pos + Len(data) - 1
    BY <1>1, BufferAssumption
  <2> QED
    BY <2>1 DEF BlockCopy
<1> QED
  BY <1>3, <1>4, <1>5

(* Write leaves the unread bytes as they are, or puts all of its data behind  *)
(* them, whether or not it moves them.                                        *)
LEMMA WriteAppends ==
  ASSUME BufferTypeOK, NEW data \in Seq(Byte), Write(data)
  PROVE  /\ BufferTypeOK'
         /\ Unread' = IF Fits(data) THEN Unread \o data ELSE Unread
<1>1. /\ Len(data) \in Nat
      /\ enableReadSize \in Nat /\ Unread \in Seq(Byte)
      /\ Len(Unread) = enableReadSize
      /\ \A i \in 1 .. enableReadSize : Unread[i] = PacketData[ReadPos + i - 1]
  BY UnreadBytes
<1>2. /\ Unread \o data \in Seq(Byte)
      /\ Len(Unread \o data) = enableReadSize + Len(data)
      /\ \A i \in 1 .. enableReadSize : (Unread \o data)[i] = Unread[i]
      /\ \A i \in enableReadSize + 1 .. enableReadSize + Len(data) :
           (Unread \o data)[i] = data[i - enableReadSize]
  BY <1>1
<1>3. CASE ~ Fits(data) /\ UNCHANGED bufferVars
  BY <1>3 DEF bufferVars, BufferTypeOK, Unread, enableReadSize
<1>4. ASSUME Fits(data)
      PROVE  /\ Copied(data) \in [0 .. BufferSize - 1 -> Byte]
             /\ \A i \in 1 .. Len(data) : Copied(data)[WritePos + i - 1] = data[i]
             /\ \A i \in 0 .. WritePos - 1 : Copied(data)[i] = PacketData[i]
  <2>1. WritePos + Len(data) <= BufferSize
    BY <1>1, <1>4, BufferAssumption DEF Fits, BufferTypeOK
  <2> QED
    BY <2>1, BlockCopyBytes DEF Copied, BufferTypeOK
<1>5. CASE /\ Fits(data)
           /\ PacketData' = Copied(data)
           /\ WritePos' = WritePos + Len(data)
           /\ UNCHANGED ReadPos
  <2>1. BufferTypeOK'
    BY <1>1, <1>4, <1>5, BufferAssumption DEF Fits, BufferTypeOK
  <2>2. enableReadSize' = enableReadSize + Len(data)
    BY <1>1, <1>5 DEF BufferTypeOK, enableReadSize
  <2>3. ASSUME NEW i \in 1 .. enableReadSize + Len(data)
        PROVE  PacketData'[ReadPos' + i - 1] = (Unread \o data)[i]
    <3>1. CASE i \in 1 .. enableReadSize
      <4>1. ReadPos + i - 1 \in 0 .. WritePos - 1
        BY <1>1, <3>1 DEF BufferTypeOK, enableReadSize
      <4> QED
        BY <1>1, <1>2, <1>4, <1>5, <3>1, <4>1
    <3>2. CASE i \notin 1 .. enableReadSize
      <4>1. /\ i - enableReadSize \in 1 .. Len(data)
            /\ i \in enableReadSize + 1 .. enableReadSize + Len(data)
            /\ ReadPos + i - 1 = WritePos + (i - enableReadSize) - 1
        BY <1>1, <3>2 DEF BufferTypeOK, enableReadSize
      <4> QED
        BY <1>2, <1>4, <1>5, <4>1
    <3> QED
      BY <3>1, <3>2
  <2>4. Unread' = [i \in 1 .. enableReadSize + Len(data) |-> (Unread \o data)[i]]
    BY <2>2, <2>3 DEF Unread
  <2>5. Unread \o data = [i \in 1 .. enableReadSize + Len(data) |-> (Unread \o data)[i]]
    BY <1>2, SeqIsFunction
  <2> QED
    BY <1>5, <2>1, <2>4, <2>5
<1>6. CASE Fits(data) /\ BufferRelocate(data)
  <2>1. enableReadSize + Len(data) <= BufferSize
    BY <1>1, <1>6, BufferAssumption DEF Fits, BufferTypeOK, enableReadSize
  <2>2. /\ PacketData' = BlockCopy(Unread \o data, Copied(data), 0)
        /\ ReadPos' = 0 /\ WritePos' = enableReadSize + Len(data)
    BY <1>6 DEF BufferRelocate
  <2>3. /\ PacketData' \in [0 .. BufferSize - 1 -> Byte]
        /\ \A i \in 1 .. enableReadSize + Len(data) :
             PacketData'[0 + i - 1] = (Unread \o data)[i]
    <3> DEFINE q == Unread \o data
    <3>1. q \in Seq(Byte) /\ Len(q) = enableReadSize + Len(data) /\ 0 + Len(q) <= BufferSize
      BY <1>1, <1>2, <2>1
    <3>2. Copied(data) \in [0 .. BufferSize - 1 -> Byte]
      BY <1>4, <1>6
    <3> HIDE DEF q
    <3>3. /\ BlockCopy(q, Copied(data), 0) \in [0 .. BufferSize - 1 -> Byte]
          /\ \A i \in 1 .. Len(q) : BlockCopy(q, Copied(data), 0)[0 + i - 1] = q[i]
      BY <3>1, <3>2, BlockCopyBytes
    <3> QED
      BY <2>2, <3>1, <3>3 DEF q
  <2>4. BufferTypeOK'
    BY <1>1, <2>1, <2>2, <2>3 DEF BufferTypeOK
  <2>5. enableReadSize' = enableReadSize + Len(data)
    BY <1>1, <2>2 DEF enableReadSize
  <2>6. Unread' = [i \in 1 .. enableReadSize + Len(data) |-> (Unread \o data)[i]]
    BY <2>2, <2>3, <2>5 DEF Unread
  <2>7. Unread \o data = [i \in 1 .. enableReadSize + Len(data) |-> (Unread \o data)[i]]
    BY <1>2, SeqIsFunction
  <2> QED
    BY <1>6, <2>4, <2>6, <2>7
<1> QED
  BY <1>3, <1>5, <1>6 DEF Write

(* Read takes exactly one packet, of which all bytes are there.               *)
LEMMA ReadTakes ==
  ASSUME BufferTypeOK, Read
  PROVE  /\ BufferTypeOK'
         /\ packetDataSize \in 1 .. Len(Unread)
         /\ Unread' = SubSeq(Unread, packetDataSize + 1, Len(Unread))
<1>1. /\ enableReadSize \in Nat /\ Unread \in Seq(Byte)
      /\ Len(Unread) = enableReadSize
      /\ \A i \in 1 .. enableReadSize : Unread[i] = PacketData[ReadPos + i - 1]
  BY UnreadBytes
<1>2. packetDataSize \in 1 .. enableReadSize
  <2>1. ReadPos \in 0 .. BufferSize - 1 /\ ReadPos + 1 \in 0 .. BufferSize - 1
    BY <1>1, BufferAssumption DEF Read, PacketReady, BufferTypeOK, enableReadSize
  <2>2. packetDataSize \in Int
    BY <2>1, BufferAssumption DEF packetDataSize, BufferTypeOK
  <2> QED
    BY <1>1, <2>2 DEF Read, PacketReady
<1>3. /\ ReadPos' = ReadPos + packetDataSize
      /\ WritePos' = WritePos /\ PacketData' = PacketData
  BY DEF Read
<1>4. BufferTypeOK'
  BY <1>1, <1>2, <1>3 DEF BufferTypeOK, enableReadSize
<1>5. enableReadSize' = enableReadSize - packetDataSize
  BY <1>1, <1>2, <1>3 DEF BufferTypeOK, enableReadSize
<1> DEFINE n == packetDataSize
<1>6. \A i \in 1 .. enableReadSize - n :
        PacketData[ReadPos + n + i - 1] = Unread[i + n]
  <2>1. TAKE i \in 1 .. enableReadSize - n
  <2>2. i + n \in 1 .. enableReadSize /\ ReadPos + (i + n) - 1 = ReadPos + n + i - 1
    BY <1>1, <1>2 DEF BufferTypeOK
  <2> QED
    BY <1>1, <2>2
<1>7. Unread' = [i \in 1 .. enableReadSize - n |-> Unread[i + n]]
  BY <1>3, <1>5, <1>6 DEF Unread
<1>8. SubSeq(Unread, n + 1, Len(Unread)) = [i \in 1 .. enableReadSize - n |-> Unread[i + n]]
  <2>1. n \in Int
    BY <1>2
  <2> HIDE DEF n
  <2> QED
    BY <1>1, <2>1
<1> QED
  BY <1>1, <1>2, <1>4, <1>7, <1>8

LEMMA InitBuffer == BufferInit => BufferTypeOK /\ Unread = <<>>
  BY BufferAssumption DEF BufferInit, BufferTypeOK, Unread, enableReadSize

(* Every step of the buffer keeps the positions in order and is a step of the *)
(* stream.                                                                    *)
LEMMA BufferStep ==
  ASSUME BufferTypeOK, [BufferNext]_bufferVars
  PROVE  BufferTypeOK' /\ [Stream!Put \/ Stream!Take]_Unread
<1>1. CASE UNCHANGED bufferVars
  BY <1>1 DEF bufferVars, BufferTypeOK, Unread, enableReadSize
<1>2. ASSUME NEW data \in Seq(Byte), Write(data)
      PROVE  BufferTypeOK' /\ [Stream!Put \/ Stream!Take]_Unread
  <2>1. BufferTypeOK' /\ (Unread' = Unread \/ Unread' = Unread \o data)
    BY <1>2, WriteAppends
  <2>2. CASE Unread' = Unread \o data
    <3>1. Unread \in Seq(Byte)
      BY UnreadBytes
    <3>2. Stream!Put
      BY <2>2, <3>1 DEF Stream!Put
    <3> QED
      BY <2>1, <3>2
  <2> QED
    BY <2>1, <2>2
<1>3. CASE Read
  BY <1>3, ReadTakes DEF Stream!Take
<1> QED
  BY <1>1, <1>2, <1>3 DEF BufferNext

(* The read and write positions stay in order and inside the array, whatever  *)
(* bytes arrive and whatever sizes they claim.                                *)
THEOREM BufferTypes == BufferSpec => []BufferTypeOK
<1>1. BufferInit => BufferTypeOK
  BY InitBuffer
<1>2. BufferTypeOK /\ [BufferNext]_bufferVars => BufferTypeOK'
  BY BufferStep
<1> QED
  BY <1>1, <1>2, PTL DEF BufferSpec

(* No byte that was accepted is lost, doubled, changed or reordered by the    *)
(* moves inside the array.                                                    *)
THEOREM BufferIsByteStream == BufferSpec => ImplementsByteStream
<1>1. BufferInit => Stream!Init
  BY InitBuffer DEF Stream!Init
<1>2. BufferTypeOK /\ [BufferNext]_bufferVars => [Stream!Put \/ Stream!Take]_Unread
  BY BufferStep
<1> QED
  BY <1>1, <1>2, BufferTypes, PTL DEF BufferSpec, ImplementsByteStream, Stream!Spec
-----------------------------------------------------------------------------
(* What the reader needs to know about the connection it is reading from.     *)
ReaderTypes ==
  /\ load \in Loads
  /\ Sock \in {0} \cup Connections /\ receiving \in {0} \cup Connections
  /\ socket \in [Connections -> SocketStates]
  /\ taken \in [Connections -> Nat]
  /\ \A n \in Connections : taken[n] <= Len(ServerStream(n))
  /\ pc \in [{"ui", "read", "send"} -> Places]
  /\ pc.read = "receive" => Sock # 0
  /\ pc.read = "receiving" => receiving # 0

(* Every step leaves the buffer alone, or is one of its operations.           *)
BufferOperation == UNCHANGED bufferVars \/ (\E data \in Seq(Byte) : Write(data)) \/ Read

LEMMA ServedTypes ==
  ASSUME load \in Loads
  PROVE  /\ served \in Seq([bytes : Seq(Byte), cuts : Seq(Nat)])
         /\ Connections = 1 .. Len(served) /\ Len(served) \in Nat
         /\ MaxPosts \in Nat
         /\ \A n \in Connections : /\ WellFormed(served[n])
                                   /\ ServerStream(n) \in Seq(Byte)
                                   /\ Len(ServerStream(n)) \in Nat
<1>1. /\ served \in Seq([bytes : Seq(Byte), cuts : Seq(Nat)])
      /\ \A n \in Connections : WellFormed(served[n])
      /\ MaxPosts \in Nat
  BY ClientAssumption DEF served, Connections, MaxPosts
<1>2. \A n \in Connections : served[n].bytes \in Seq(Byte)
  BY <1>1 DEF WellFormed
<1> QED
  BY <1>1, <1>2, LenProperties DEF Connections, ServerStream

LEMMA InitReader == Init => ReaderTypes
<1> SUFFICES ASSUME Init PROVE ReaderTypes
  OBVIOUS
<1>1. load \in Loads
  BY DEF Init
<1>2. \A n \in Connections : taken[n] = 0 /\ taken[n] <= Len(ServerStream(n))
  BY <1>1, ServedTypes DEF Init
<1> QED
  BY <1>2 DEF Init, ReaderTypes, SocketStates, Places

LEMMA ReceivesStep ==
  ASSUME ReaderTypes, Receives
  PROVE  ReaderTypes' /\ BufferOperation
<1>1. /\ receiving \in Connections /\ taken[receiving] \in Nat
      /\ ServerStream(receiving) \in Seq(Byte) /\ Len(ServerStream(receiving)) \in Nat
  BY ServedTypes DEF ReaderTypes, Receives, At
<1>2. PICK upto \in taken[receiving] + 1 .. Len(ServerStream(receiving)) :
        /\ taken' = [taken EXCEPT ![receiving] = upto]
        /\ Write(SubSeq(ServerStream(receiving), taken[receiving] + 1, upto))
  BY DEF Receives
<1>3. upto \in Nat /\ upto <= Len(ServerStream(receiving))
  BY <1>1, <1>2
<1>4. SubSeq(ServerStream(receiving), taken[receiving] + 1, upto) \in Seq(Byte)
  BY <1>1, <1>2, <1>3
<1>5. ReaderTypes'
  BY <1>1, <1>2, <1>3
  DEF ReaderTypes, Receives, formVars, At, Goto, Connections, served, ServerStream, Places
<1> QED
  BY <1>2, <1>4, <1>5 DEF BufferOperation

(* The other steps.                                                           *)
LEMMA OtherSteps ==
  ASSUME ReaderTypes, Next, ~ Receives
  PROVE  ReaderTypes' /\ BufferOperation
<1> USE DEF ReaderTypes, BufferOperation, Connections, served, ServerStream, SocketStates,
            At, Goto, Dies, Places, netVars, formVars, recvVars, MethodFails, InQueue
<1>1. CASE Reads
  <2> USE DEF ReadLoops, ReceiveStarts, ReceiveInterrupted, ParsesOne, ParseFails,
              ParseEnds, CloseTests, Closes, SetsButton, SetsDisconnect, Clears,
              IsConnected, SetSocket
  <2>1. CASE ReadLoops BY <2>1
  <2>2. CASE ReceiveStarts
    <3>1. pc.read = "receive" /\ Sock \in Connections
      BY <2>2
    <3>2. CASE Dies
      BY <3>2
    <3>3. CASE Goto("read", "closeTest") /\ UNCHANGED <<bufferVars, netVars, formVars>>
      BY <3>3
    <3>4. CASE /\ receiving' = Sock /\ Goto("read", "receiving")
               /\ UNCHANGED <<bufferVars, Sock, socket, taken, formVars>>
      BY <3>1, <3>4
    <3> QED
      BY <2>2, <3>2, <3>3, <3>4
  <2>3. CASE ReceiveInterrupted BY <2>3
  <2>4. CASE ParsesOne BY <2>4
  <2>5. CASE ParseFails BY <2>5
  <2>6. CASE ParseEnds BY <2>6
  <2>7. CASE CloseTests("read", "setDisconnectd") BY <2>7
  <2>8. CASE Closes("read", "setDisconnectd") BY <2>8
  <2>9. CASE SetsButton("read") BY <2>9
  <2>10. CASE SetsDisconnect("read") BY <2>10
  <2>11. CASE Clears("read", "loop") BY <2>11
  <2>12. CASE MethodFails("read") BY <2>12
  <2> QED
    BY <1>1, <2>1, <2>2, <2>3, <2>4, <2>5, <2>6, <2>7, <2>8, <2>9, <2>10, <2>11, <2>12
    DEF Reads
<1>2. CASE ConnectionEnds
  BY <1>2 DEF ConnectionEnds, SetSocket
<1>3. CASE SendsOn
  <2> USE DEF SendLoops, Counts, Dequeues, SendTests, Sends, SendFails, SetSocket
  <2>1. CASE SendLoops BY <2>1
  <2>2. CASE Counts BY <2>2
  <2>3. CASE Dequeues BY <2>3
  <2>4. CASE MethodFails("send") BY <2>4
  <2>5. CASE SendTests BY <2>5
  <2>6. CASE Sends BY <2>6
  <2>7. CASE SendFails
    <3>1. CASE Dies
      BY <3>1
    <3>2. CASE ~ Dies
      <4>1. /\ Goto("send", "loop")
            /\ UNCHANGED <<bufferVars, Sock, taken, receiving, formVars>>
            /\ \E state \in SocketStates : socket' = [socket EXCEPT ![Sock] = state]
                                         \/ socket' = socket
        BY <2>7, <3>2
      <4> QED
        BY <4>1
    <3> QED
      BY <3>1, <3>2
  <2> QED
    BY <1>3, <2>1, <2>2, <2>3, <2>4, <2>5, <2>6, <2>7 DEF SendsOn
<1>4. CASE Handles
  <2> USE DEF Connects, ConnectReturns, DisablesConnect, EnablesDisconnect, Enqueues,
              CloseTests, Closes, SetsButton, SetsDisconnect, Clears, SetSocket, AfterClose
  <2>1. CASE Connects
    <3>1. /\ \E place \in {"connected", "idle"} : Goto("ui", place)
          /\ UNCHANGED <<bufferVars, Sock, taken, receiving, formVars>>
          /\ socket' \in [Connections -> SocketStates]
      BY <2>1
    <3> QED
      BY <3>1
  <2>2. CASE DisablesConnect BY <2>2
  <2>3. CASE EnablesDisconnect BY <2>3
  <2>4. CASE Enqueues BY <2>4
  <2>5. CASE ConnectReturns BY <2>5
  <2>6. CASE SetsButton("ui") BY <2>6
  <2>7. CASE SetsDisconnect("ui") BY <2>7
  <2>8. CASE Clears("ui", "closeTest") BY <2>8
  <2>9. CASE CloseTests("ui", AfterClose) BY <2>9
  <2>10. CASE Closes("ui", AfterClose) BY <2>10
  <2>11. CASE MethodFails("ui") \/ HandlerAbandoned
    BY <2>11 DEF HandlerAbandoned
  <2> QED
    BY <1>4, <2>1, <2>2, <2>3, <2>4, <2>5, <2>6, <2>7, <2>8, <2>9, <2>10, <2>11
    DEF Handles
<1>5. CASE ConnectClick
  <2>1. Sock + 1 # 0
    BY <1>5, ClientAssumption DEF ConnectClick
  <2> QED
    BY <1>5, <2>1 DEF ConnectClick, SetSocket
<1>6. CASE DisconnectClick \/ PostSendPacket \/ FormClosing
  BY <1>6 DEF DisconnectClick, PostSendPacket, FormClosing
<1>7. CASE BackGroundProcess
  BY <1>7 DEF BackGroundProcess
<1> QED
  BY <1>1, <1>2, <1>3, <1>4, <1>5, <1>6, <1>7 DEF Next, Clicks

LEMMA ReaderStep ==
  ASSUME ReaderTypes, [Next]_vars
  PROVE  ReaderTypes' /\ [BufferNext]_bufferVars
<1>1. CASE UNCHANGED vars
  BY <1>1 DEF vars, netVars, formVars, ReaderTypes, Connections, served, ServerStream
<1>2. CASE Next
  BY <1>2, ReceivesStep, OtherSteps DEF BufferOperation, BufferNext
<1> QED
  BY <1>1, <1>2

(* The program uses the buffer within its specification.                      *)
THEOREM ClientUsesBuffer == Spec => BufferSpec
<1>1. Init => BufferInit /\ ReaderTypes
  BY InitReader DEF Init
<1>2. ReaderTypes /\ [Next]_vars => ReaderTypes' /\ [BufferNext]_bufferVars
  BY ReaderStep
<1> QED
  BY <1>1, <1>2, PTL DEF Spec, BufferSpec

(* What the reader gets out of the buffer is what it put in, in order, in any *)
(* interleaving of the three threads and over any number of connections.      *)
THEOREM ClientIsByteStream == Spec => ImplementsByteStream
  BY ClientUsesBuffer, BufferIsByteStream, PTL
-----------------------------------------------------------------------------
(* SendPacketQueue, which three threads change without a lock that keeps them *)
(* out: the indices stay in the array, for any array, packets and races; and  *)
(* unless two methods met in one of the two ways that SendQueue names, a      *)
(* packet is taken out at most once.                                          *)
ClearSteps == {"clearRange", "clearBack", "clearFront", "zeroHead", "zeroTail", "zeroSize"}
AddSteps   == {"setHead", "fetchTail", "setTail", "fetchPlace", "place", "nextTail",
               "setNextTail", "count", "setCount"}
TakeSteps  == {"dequeue", "remove", "forget", "forgetAt", "head", "setHead", "uncount"}
Steps      == {"out", "copy", "setArray", "setUncount"}
              \cup ClearSteps \cup AddSteps \cup TakeSteps

StepTypes ==
  /\ step \in [Users -> Steps]
  /\ step["ui"] \in {"out", "copy", "setArray"} \cup ClearSteps \cup AddSteps
  /\ step["read"] \in {"out"} \cup ClearSteps
  /\ step["send"] \in {"out", "setUncount"} \cup TakeSteps

(* The size stays below the length of the array while the user interface adds *)
(* a packet, because it was when that was tested or the array has grown, and  *)
(* everybody else makes it smaller.                                           *)
AddingInv ==
  /\ _size # 0 => arrayLength >= 1
  /\ step["ui"] \in AddSteps => arrayLength >= 1 /\ _size < arrayLength
  /\ step["ui"] = "setArray" => newarray \in [0 .. NewCapacity - 1 -> 0 .. posted]
  /\ step["ui"] = "setTail" => loaded["ui"] \in -1 .. arrayLength - 1
  /\ step["ui"] \in {"place", "setNextTail"} => loaded["ui"] \in 0 .. arrayLength - 1
  /\ step["ui"] = "setCount" => loaded["ui"] \in 0 .. arrayLength

(* Only the sending thread makes the size negative, and only at the end.      *)
TakingInv ==
  /\ step["send"] # "out" => arrayLength >= 1
  /\ step["send"] \in TakeSteps => _size >= 0
  /\ step["send"] = "setHead" => loaded["send"] \in 0 .. arrayLength - 1
  /\ step["send"] = "setUncount" => loaded["send"] \in -1 .. arrayLength - 1

QueueTypes == SendQueueTypeOK /\ StepTypes /\ AddingInv /\ TakingInv

(* One packet more at the end of a sequence that does not have it.            *)
LEMMA AppendNew ==
  ASSUME NEW S, NEW q \in Seq(S), NEW x \in S, IsInjective(q), x \notin Range(q)
  PROVE  /\ Append(q, x) \in Seq(S)
         /\ IsInjective(Append(q, x))
         /\ Range(Append(q, x)) = Range(q) \cup {x}
<1>1. /\ Append(q, x) \in Seq(S) /\ Len(q) \in Nat /\ DOMAIN q = 1 .. Len(q)
      /\ DOMAIN Append(q, x) = 1 .. Len(q) + 1
      /\ \A i \in 1 .. Len(q) : Append(q, x)[i] = q[i]
      /\ Append(q, x)[Len(q) + 1] = x
  OBVIOUS
<1>2. IsInjective(Append(q, x))
  BY <1>1 DEF IsInjective, Range
<1>3. Range(Append(q, x)) = Range(q) \cup {x}
  BY <1>1 DEF Range
<1> QED
  BY <1>1, <1>2, <1>3

LEMMA ModRange ==
  ASSUME NEW a \in Int, NEW b \in Nat, b >= 1
  PROVE  a % b \in 0 .. b - 1
  OBVIOUS

LEMMA NewCapacityGrows ==
  ASSUME arrayLength \in Nat
  PROVE  NewCapacity \in Nat /\ NewCapacity > arrayLength
  BY SendQueueAssumption DEF NewCapacity

LEMMA InitQueueTypes == SendQueueInit => QueueTypes
<1> SUFFICES ASSUME SendQueueInit PROVE QueueTypes
  OBVIOUS
<1>1. 0 .. arrayLength - 1 = {}
  BY DEF SendQueueInit
<1>2. SendQueueTypeOK
  BY <1>1 DEF SendQueueInit, SendQueueTypeOK, EmptyArray, Indices, Users
<1>3. StepTypes
  BY DEF SendQueueInit, StepTypes, Users, Steps
<1>4. AddingInv /\ TakingInv
  BY DEF SendQueueInit, AddingInv, TakingInv, AddSteps, TakeSteps, Users
<1> QED
  BY <1>2, <1>3, <1>4 DEF QueueTypes

LEMMA ClearTypes ==
  ASSUME QueueTypes, NEW t \in Clearers, Clear(t)
  PROVE  QueueTypes'
<1> USE DEF QueueTypes, SendQueueTypeOK, Indices, Users, Clearers, ClearSteps, AddSteps,
            TakeSteps, Advances, elementVars, indexVars, localVars
<1>1. CASE Checks(t, "out", IF _head < _tail THEN "clearRange" ELSE "clearBack")
  <2>1. /\ UNCHANGED <<_array, arrayLength, _head, _tail, _size, newarray, removed, loaded,
                       target, posted, dequeued>>
        /\ step[t] = "out"
        /\ \E to \in {"clearRange", "clearBack"} : step' = [step EXCEPT ![t] = to]
    BY <1>1 DEF Checks
  <2>2. SendQueueTypeOK'
    BY <2>1
  <2>3. StepTypes'
    BY <2>1 DEF StepTypes, Steps
  <2>4. AddingInv' /\ TakingInv'
    BY <2>1 DEF StepTypes, AddingInv, TakingInv, NewCapacity
  <2> QED
    BY <2>2, <2>3, <2>4
<1>2. ASSUME NEW from, NEW first, NEW count, NEW to \in {"zeroHead", "clearFront"},
             from \in {"clearRange", "clearBack", "clearFront"},
             ClearsRange(t, from, first, count, to)
      PROVE  QueueTypes'
  <2>1. /\ UNCHANGED <<arrayLength, _head, _tail, _size, newarray, removed, target, posted,
                       dequeued>>
        /\ loaded' = [loaded EXCEPT ![t] = 0]
        /\ step[t] = from /\ step' = [step EXCEPT ![t] = to]
        /\ _array' \in [0 .. arrayLength - 1 -> 0 .. posted]
    BY <1>2 DEF ClearsRange, Stored
  <2>2. SendQueueTypeOK'
    BY <2>1
  <2>3. StepTypes'
    BY <1>2, <2>1 DEF StepTypes, Steps
  <2>4. AddingInv' /\ TakingInv'
    BY <1>2, <2>1 DEF StepTypes, AddingInv, TakingInv, NewCapacity
  <2> QED
    BY <2>2, <2>3, <2>4
<1>3. ASSUME NEW from \in {"zeroHead", "zeroTail", "zeroSize"},
             NEW to \in {"zeroTail", "zeroSize", "out"}, Stored(t, from, to),
             UNCHANGED <<_array, target, dequeued>>,
             _head' \in {0, _head}, _tail' \in {0, _tail}, _size' \in {0, _size}
      PROVE  QueueTypes'
  <2>1. /\ UNCHANGED <<_array, arrayLength, newarray, removed, target, posted, dequeued>>
        /\ loaded' = [loaded EXCEPT ![t] = 0]
        /\ step[t] = from /\ step' = [step EXCEPT ![t] = to]
    BY <1>3 DEF Stored
  <2>2. SendQueueTypeOK'
    BY <1>3, <2>1
  <2>3. StepTypes'
    BY <1>3, <2>1 DEF StepTypes, Steps
  <2>4. AddingInv' /\ TakingInv'
    BY <1>3, <2>1 DEF StepTypes, AddingInv, TakingInv, NewCapacity
  <2> QED
    BY <2>2, <2>3, <2>4
<1> QED
  BY <1>1, <1>2, <1>3 DEF Clear, SetsHead, SetsTail, SetsSize

LEMMA LeavesTypes ==
  ASSUME QueueTypes, NEW t \in Users, Leaves(t)
  PROVE  QueueTypes'
<1> USE DEF QueueTypes, SendQueueTypeOK, Indices, Users, ClearSteps, AddSteps,
            TakeSteps, elementVars, indexVars, localVars
<1>1. /\ UNCHANGED <<_array, arrayLength, _head, _tail, _size, newarray, removed, loaded,
                     target, posted, dequeued>>
      /\ step' = [step EXCEPT ![t] = "out"]
  BY DEF Leaves, Checks, Advances
<1>2. SendQueueTypeOK'
  BY <1>1
<1>3. StepTypes'
  BY <1>1 DEF StepTypes, Steps
<1>4. AddingInv' /\ TakingInv'
  BY <1>1 DEF StepTypes, AddingInv, TakingInv, NewCapacity
<1> QED
  BY <1>2, <1>3, <1>4

(* What SetCapacity copies is in the array.                                   *)
LEMMA CopyTypes ==
  ASSUME QueueTypes, CanCopy, NEW i \in 0 .. NewCapacity - 1, i < InUse
  PROVE  (IF _head + i < arrayLength THEN _head + i ELSE _head + i - arrayLength)
           \in 0 .. arrayLength - 1
<1>1. /\ arrayLength \in Nat /\ _head \in Int /\ _head >= 0 /\ _tail \in Int /\ _size \in Int
      /\ i \in Nat
  BY NewCapacityGrows DEF QueueTypes, SendQueueTypeOK, Indices
<1>2. CASE _size <= 0
  BY <1>1, <1>2 DEF InUse
<1>3. CASE ~ (_size <= 0) /\ _head < _tail
  BY <1>1, <1>3 DEF InUse, CanCopy, InArray
<1>4. CASE ~ (_size <= 0) /\ ~ (_head < _tail)
  <2>1. arrayLength >= 1 /\ _head < arrayLength
    BY <1>4 DEF QueueTypes, SendQueueTypeOK, Indices, AddingInv
  <2> QED
    BY <1>1, <1>4, <2>1 DEF InUse, CanCopy, InArray
<1> QED
  BY <1>2, <1>3, <1>4

LEMMA GrowTypes ==
  ASSUME QueueTypes, SetCapacity
  PROVE  QueueTypes'
<1> USE DEF QueueTypes, SendQueueTypeOK, Indices, Users, ClearSteps, AddSteps,
            TakeSteps, Advances, elementVars, indexVars, localVars
<1>1. CASE Advances("ui", "copy", "setArray") /\ CanCopy
  <2>1. /\ UNCHANGED <<_array, arrayLength, _head, _tail, _size, removed, loaded, target,
                       posted, dequeued>>
        /\ step["ui"] = "copy" /\ step' = [step EXCEPT !["ui"] = "setArray"]
        /\ newarray' = [i \in 0 .. NewCapacity - 1 |->
                          IF i >= InUse THEN 0
                          ELSE IF _head + i < arrayLength THEN _array[_head + i]
                          ELSE _array[_head + i - arrayLength]]
    BY <1>1 DEF SetCapacity, SetsHead, SetsTail, Stored, Fetches
  <2>2. \A i \in 0 .. NewCapacity - 1 : newarray'[i] \in 0 .. posted
    <3> TAKE i \in 0 .. NewCapacity - 1
    <3>1. InUse \in Int /\ i \in Int
      BY NewCapacityGrows DEF InUse
    <3>2. CASE i >= InUse
      BY <2>1, <3>2
    <3>3. CASE i < InUse
      <4>1. (IF _head + i < arrayLength THEN _head + i ELSE _head + i - arrayLength)
               \in 0 .. arrayLength - 1
        BY <1>1, <3>3, CopyTypes
      <4> QED
        BY <2>1, <3>1, <3>3, <4>1
    <3> QED
      BY <3>1, <3>2, <3>3
  <2>3. newarray' \in [0 .. NewCapacity - 1 -> 0 .. posted]
    BY <2>1, <2>2
  <2>4. SendQueueTypeOK'
    BY <2>1
  <2>5. StepTypes'
    BY <2>1 DEF StepTypes, Steps
  <2>6. AddingInv' /\ TakingInv'
    BY <2>1, <2>3 DEF StepTypes, AddingInv, TakingInv, NewCapacity
  <2> QED
    BY <2>4, <2>5, <2>6
<1>2. CASE Advances("ui", "setArray", "setHead") /\ _array' = newarray
  <2>1. /\ UNCHANGED <<_head, _tail, _size, removed, loaded, target, posted, dequeued>>
        /\ step["ui"] = "setArray" /\ step' = [step EXCEPT !["ui"] = "setHead"]
        /\ arrayLength' = NewCapacity /\ _array' = newarray
    BY <1>2 DEF SetCapacity, SetsHead, SetsTail, Stored, Fetches
  <2>2. NewCapacity \in Nat /\ NewCapacity > arrayLength
    BY NewCapacityGrows
  <2>3. _array' \in [0 .. arrayLength' - 1 -> 0 .. posted]
    BY <2>1 DEF AddingInv
  <2>4. SendQueueTypeOK'
    BY <2>1, <2>2, <2>3
  <2>5. StepTypes'
    BY <2>1 DEF StepTypes, Steps
  <2>6. AddingInv' /\ TakingInv'
    BY <2>1, <2>2 DEF StepTypes, AddingInv, TakingInv
  <2> QED
    BY <2>4, <2>5, <2>6
<1>3. CASE SetsHead("ui", "setHead", 0, "fetchTail")
  <2>1. /\ UNCHANGED <<_array, arrayLength, _tail, _size, newarray, removed, target, posted,
                       dequeued>>
        /\ loaded' = [loaded EXCEPT !["ui"] = 0] /\ _head' = 0
        /\ step["ui"] = "setHead" /\ step' = [step EXCEPT !["ui"] = "fetchTail"]
    BY <1>3 DEF SetsHead, Stored
  <2>2. SendQueueTypeOK'
    BY <2>1
  <2>3. StepTypes'
    BY <2>1 DEF StepTypes, Steps
  <2>4. AddingInv' /\ TakingInv'
    BY <2>1 DEF StepTypes, AddingInv, TakingInv
  <2> QED
    BY <2>2, <2>3, <2>4
<1>4. CASE Fetches("ui", "fetchTail", IF _size = arrayLength THEN 0 ELSE _size, "setTail")
  <2>1. /\ UNCHANGED <<_array, arrayLength, _head, _tail, _size, newarray, removed, target,
                       posted, dequeued>>
        /\ loaded' = [loaded EXCEPT !["ui"] = IF _size = arrayLength THEN 0 ELSE _size]
        /\ step["ui"] = "fetchTail" /\ step' = [step EXCEPT !["ui"] = "setTail"]
    BY <1>4 DEF Fetches
  <2>2. SendQueueTypeOK'
    BY <2>1
  <2>3. StepTypes'
    BY <2>1 DEF StepTypes, Steps
  <2>4. AddingInv' /\ TakingInv'
    BY <2>1 DEF StepTypes, AddingInv, TakingInv
  <2> QED
    BY <2>2, <2>3, <2>4
<1>5. CASE SetsTail("ui", "setTail", loaded["ui"], "fetchPlace")
  <2>1. /\ UNCHANGED <<_array, arrayLength, _head, _size, newarray, removed, target, posted,
                       dequeued>>
        /\ loaded' = [loaded EXCEPT !["ui"] = 0] /\ _tail' = loaded["ui"]
        /\ step["ui"] = "setTail" /\ step' = [step EXCEPT !["ui"] = "fetchPlace"]
    BY <1>5 DEF SetsTail, Stored
  <2>2. SendQueueTypeOK'
    BY <2>1 DEF AddingInv
  <2>3. StepTypes'
    BY <2>1 DEF StepTypes, Steps
  <2>4. AddingInv' /\ TakingInv'
    BY <2>1 DEF StepTypes, AddingInv, TakingInv
  <2> QED
    BY <2>2, <2>3, <2>4
<1> QED
  BY <1>1, <1>2, <1>3, <1>4, <1>5 DEF SetCapacity

LEMMA EnqueueTypes ==
  ASSUME QueueTypes, Enqueue
  PROVE  QueueTypes'
<1> USE DEF QueueTypes, SendQueueTypeOK, Indices, Users, ClearSteps, AddSteps,
            TakeSteps, Advances, elementVars, indexVars, localVars
<1>1. CASE /\ Advances("ui", "out", IF _size = arrayLength THEN "copy" ELSE "fetchPlace")
           /\ posted' = posted + 1
           /\ UNCHANGED <<elementVars, indexVars, localVars, dequeued>>
  <2>1. /\ UNCHANGED <<_array, arrayLength, _head, _tail, _size, newarray, removed, loaded,
                       target, dequeued>>
        /\ step["ui"] = "out" /\ posted' = posted + 1
        /\ \/ _size = arrayLength /\ step' = [step EXCEPT !["ui"] = "copy"]
           \/ _size # arrayLength /\ step' = [step EXCEPT !["ui"] = "fetchPlace"]
    BY <1>1
  <2>2. _array' \in [0 .. arrayLength - 1 -> 0 .. posted']
    <3>1. \A i \in 0 .. arrayLength - 1 : _array[i] \in 0 .. posted'
      BY <2>1
    <3> QED
      BY <2>1, <3>1
  <2>3. dequeued' \in Seq(1 .. posted')
    <3>1. 1 .. posted \subseteq 1 .. posted'
      BY <2>1
    <3> QED
      BY <2>1, <3>1
  <2>4. SendQueueTypeOK'
    BY <2>1, <2>2, <2>3
  <2>5. StepTypes'
    BY <2>1 DEF StepTypes, Steps
  <2>6. AddingInv'
    BY <2>1 DEF StepTypes, AddingInv
  <2>7. TakingInv'
    BY <2>1 DEF StepTypes, TakingInv
  <2> QED
    BY <2>4, <2>5, <2>6, <2>7
<1>2. CASE SetCapacity
  BY <1>2, GrowTypes
<1>3. CASE _tail \in 0 .. arrayLength - 1 /\ Fetches("ui", "fetchPlace", _tail, "place")
  <2>1. /\ UNCHANGED <<_array, arrayLength, _head, _tail, _size, newarray, removed, target,
                       posted, dequeued>>
        /\ loaded' = [loaded EXCEPT !["ui"] = _tail] /\ _tail \in 0 .. arrayLength - 1
        /\ step["ui"] = "fetchPlace" /\ step' = [step EXCEPT !["ui"] = "place"]
    BY <1>3 DEF Fetches
  <2>2. SendQueueTypeOK'
    BY <2>1
  <2>3. StepTypes'
    BY <2>1 DEF StepTypes, Steps
  <2>4. AddingInv' /\ TakingInv'
    BY <2>1 DEF AddingInv, TakingInv
  <2> QED
    BY <2>2, <2>3, <2>4
<1>4. CASE /\ Stored("ui", "place", "nextTail")
           /\ _array' = [_array EXCEPT ![loaded["ui"]] = posted]
           /\ UNCHANGED <<indexVars, target, dequeued>>
  <2>1. /\ UNCHANGED <<arrayLength, _head, _tail, _size, newarray, removed, target, posted,
                       dequeued>>
        /\ _array' = [_array EXCEPT ![loaded["ui"]] = posted]
        /\ loaded' = [loaded EXCEPT !["ui"] = 0]
        /\ step["ui"] = "place" /\ step' = [step EXCEPT !["ui"] = "nextTail"]
    BY <1>4 DEF Stored
  <2>2. _array' \in [0 .. arrayLength - 1 -> 0 .. posted]
    <3>1. posted \in 0 .. posted
      OBVIOUS
    <3> QED
      BY <2>1, <3>1
  <2>3. SendQueueTypeOK'
    BY <2>1, <2>2
  <2>4. StepTypes'
    BY <2>1 DEF StepTypes, Steps
  <2>5. AddingInv' /\ TakingInv'
    BY <2>1 DEF AddingInv, TakingInv
  <2> QED
    BY <2>3, <2>4, <2>5
<1>5. CASE Fetches("ui", "nextTail", (_tail + 1) % arrayLength, "setNextTail")
  <2>1. /\ UNCHANGED <<_array, arrayLength, _head, _tail, _size, newarray, removed, target,
                       posted, dequeued>>
        /\ loaded' = [loaded EXCEPT !["ui"] = (_tail + 1) % arrayLength]
        /\ step["ui"] = "nextTail" /\ step' = [step EXCEPT !["ui"] = "setNextTail"]
    BY <1>5 DEF Fetches
  <2>2. PICK n : n = (_tail + 1) % arrayLength
    OBVIOUS
  <2>3. n \in 0 .. arrayLength - 1
    BY <2>1, <2>2, ModRange DEF AddingInv
  <2>4. loaded' = [loaded EXCEPT !["ui"] = n]
    BY <2>1, <2>2
  <2>5. SendQueueTypeOK'
    BY <2>1, <2>3, <2>4
  <2>6. StepTypes'
    BY <2>1 DEF StepTypes, Steps
  <2>7. AddingInv' /\ TakingInv'
    BY <2>1, <2>3, <2>4 DEF AddingInv, TakingInv
  <2> QED
    BY <2>5, <2>6, <2>7
<1>6. CASE SetsTail("ui", "setNextTail", loaded["ui"], "count")
  <2>1. /\ UNCHANGED <<_array, arrayLength, _head, _size, newarray, removed, target, posted,
                       dequeued>>
        /\ loaded' = [loaded EXCEPT !["ui"] = 0] /\ _tail' = loaded["ui"]
        /\ step["ui"] = "setNextTail" /\ step' = [step EXCEPT !["ui"] = "count"]
    BY <1>6 DEF SetsTail, Stored
  <2>2. SendQueueTypeOK'
    BY <2>1 DEF AddingInv
  <2>3. StepTypes'
    BY <2>1 DEF StepTypes, Steps
  <2>4. AddingInv' /\ TakingInv'
    BY <2>1 DEF AddingInv, TakingInv
  <2> QED
    BY <2>2, <2>3, <2>4
<1>7. CASE Fetches("ui", "count", _size + 1, "setCount")
  <2>1. /\ UNCHANGED <<_array, arrayLength, _head, _tail, _size, newarray, removed, target,
                       posted, dequeued>>
        /\ loaded' = [loaded EXCEPT !["ui"] = _size + 1]
        /\ step["ui"] = "count" /\ step' = [step EXCEPT !["ui"] = "setCount"]
    BY <1>7 DEF Fetches
  <2>2. SendQueueTypeOK'
    BY <2>1
  <2>3. StepTypes'
    BY <2>1 DEF StepTypes, Steps
  <2>4. AddingInv' /\ TakingInv'
    BY <2>1 DEF AddingInv, TakingInv
  <2> QED
    BY <2>2, <2>3, <2>4
<1>8. CASE SetsSize("ui", "setCount", loaded["ui"], "out") /\ UNCHANGED dequeued
  <2>1. /\ UNCHANGED <<_array, arrayLength, _head, _tail, newarray, removed, target, posted,
                       dequeued>>
        /\ loaded' = [loaded EXCEPT !["ui"] = 0] /\ _size' = loaded["ui"]
        /\ step["ui"] = "setCount" /\ step' = [step EXCEPT !["ui"] = "out"]
    BY <1>8 DEF SetsSize, Stored
  <2>2. SendQueueTypeOK'
    BY <2>1 DEF AddingInv
  <2>3. StepTypes'
    BY <2>1 DEF StepTypes, Steps
  <2>4. AddingInv' /\ TakingInv'
    BY <2>1 DEF StepTypes, AddingInv, TakingInv
  <2> QED
    BY <2>2, <2>3, <2>4
<1> QED
  BY <1>1, <1>2, <1>3, <1>4, <1>5, <1>6, <1>7, <1>8 DEF Enqueue

LEMMA CountTypes ==
  ASSUME QueueTypes, Count
  PROVE  QueueTypes'
<1> USE DEF QueueTypes, SendQueueTypeOK, Indices, Users, ClearSteps, AddSteps,
            TakeSteps, elementVars, indexVars
<1>1. /\ UNCHANGED <<_array, arrayLength, _head, _tail, _size, newarray, loaded, target, posted,
                     dequeued>>
      /\ removed' = 0
      /\ \/ _size > 0 /\ step' = [step EXCEPT !["send"] = "dequeue"]
         \/ step' = [step EXCEPT !["send"] = "out"]
  BY DEF Count, Advances
<1>2. SendQueueTypeOK'
  BY <1>1
<1>3. StepTypes'
  BY <1>1 DEF StepTypes, Steps
<1>4. AddingInv' /\ TakingInv'
  BY <1>1 DEF StepTypes, AddingInv, TakingInv, NewCapacity
<1> QED
  BY <1>2, <1>3, <1>4

LEMMA DequeueTypes ==
  ASSUME QueueTypes, Dequeue
  PROVE  QueueTypes'
<1> USE DEF QueueTypes, SendQueueTypeOK, Indices, Users, ClearSteps, AddSteps,
            TakeSteps, Advances, elementVars, indexVars, localVars
<1>1. CASE _size # 0 /\ Checks("send", "dequeue", "remove")
  <2>1. /\ UNCHANGED <<_array, arrayLength, _head, _tail, _size, newarray, removed, loaded,
                       target, posted, dequeued>>
        /\ step["send"] = "dequeue" /\ step' = [step EXCEPT !["send"] = "remove"]
    BY <1>1 DEF Checks
  <2>2. SendQueueTypeOK'
    BY <2>1
  <2>3. StepTypes'
    BY <2>1 DEF StepTypes, Steps
  <2>4. AddingInv' /\ TakingInv'
    BY <2>1 DEF AddingInv, TakingInv, NewCapacity
  <2> QED
    BY <2>2, <2>3, <2>4
<1>2. CASE Advances("send", "remove", "forget") /\ removed' = _array[_head]
  <2>1. /\ UNCHANGED <<_array, arrayLength, _head, _tail, _size, newarray, loaded, target,
                       posted, dequeued>>
        /\ removed' = _array[_head]
        /\ step["send"] = "remove" /\ step' = [step EXCEPT !["send"] = "forget"]
    BY <1>2 DEF Dequeue, Fetches, Stored, SetsHead, SetsSize, Checks
  <2>2. removed' \in 0 .. posted
    BY <2>1 DEF TakingInv
  <2>3. SendQueueTypeOK'
    BY <2>1, <2>2
  <2>4. StepTypes'
    BY <2>1 DEF StepTypes, Steps
  <2>5. AddingInv' /\ TakingInv'
    BY <2>1 DEF AddingInv, TakingInv, NewCapacity
  <2> QED
    BY <2>3, <2>4, <2>5
<1>3. CASE /\ Advances("send", "forget", "forgetAt")
           /\ loaded' = [loaded EXCEPT !["send"] = _head] /\ target' = arrayLength
  <2>1. /\ UNCHANGED <<_array, arrayLength, _head, _tail, _size, newarray, removed, posted,
                       dequeued>>
        /\ loaded' = [loaded EXCEPT !["send"] = _head] /\ target' = arrayLength
        /\ step["send"] = "forget" /\ step' = [step EXCEPT !["send"] = "forgetAt"]
    BY <1>3 DEF Dequeue, Fetches, Stored, SetsHead, SetsSize, Checks
  <2>2. SendQueueTypeOK'
    BY <2>1
  <2>3. StepTypes'
    BY <2>1 DEF StepTypes, Steps
  <2>4. AddingInv' /\ TakingInv'
    BY <2>1 DEF AddingInv, TakingInv, NewCapacity
  <2> QED
    BY <2>2, <2>3, <2>4
<1>4. CASE /\ Stored("send", "forgetAt", "head")
           /\ Forgets /\ target' = 0
           /\ UNCHANGED <<indexVars, dequeued>>
  <2>1. /\ UNCHANGED <<arrayLength, _head, _tail, _size, newarray, removed, posted, dequeued>>
        /\ loaded' = [loaded EXCEPT !["send"] = 0] /\ target' = 0
        /\ step["send"] = "forgetAt" /\ step' = [step EXCEPT !["send"] = "head"]
    BY <1>4 DEF Stored
  <2>2. _array' \in [0 .. arrayLength - 1 -> 0 .. posted]
    <3>1. 0 \in 0 .. posted
      OBVIOUS
    <3>2. [_array EXCEPT ![loaded["send"]] = 0] \in [0 .. arrayLength - 1 -> 0 .. posted]
      BY <3>1
    <3> QED
      BY <1>4, <3>2 DEF Forgets
  <2>3. SendQueueTypeOK'
    BY <2>1, <2>2
  <2>4. StepTypes'
    BY <2>1 DEF StepTypes, Steps
  <2>5. AddingInv' /\ TakingInv'
    BY <2>1 DEF AddingInv, TakingInv, NewCapacity
  <2> QED
    BY <2>3, <2>4, <2>5
<1>5. CASE Fetches("send", "head", (_head + 1) % arrayLength, "setHead")
  <2>1. /\ UNCHANGED <<_array, arrayLength, _head, _tail, _size, newarray, removed, target,
                       posted, dequeued>>
        /\ loaded' = [loaded EXCEPT !["send"] = (_head + 1) % arrayLength]
        /\ step["send"] = "head" /\ step' = [step EXCEPT !["send"] = "setHead"]
    BY <1>5 DEF Fetches
  <2>2. PICK n : n = (_head + 1) % arrayLength
    OBVIOUS
  <2>3. n \in 0 .. arrayLength - 1
    BY <2>1, <2>2, ModRange DEF TakingInv
  <2>4. loaded' = [loaded EXCEPT !["send"] = n]
    BY <2>1, <2>2
  <2>5. SendQueueTypeOK'
    BY <2>1, <2>3, <2>4
  <2>6. StepTypes'
    BY <2>1 DEF StepTypes, Steps
  <2>7. AddingInv' /\ TakingInv'
    BY <2>1, <2>3, <2>4 DEF AddingInv, TakingInv, NewCapacity
  <2> QED
    BY <2>5, <2>6, <2>7
<1>6. CASE SetsHead("send", "setHead", loaded["send"], "uncount")
  <2>1. /\ UNCHANGED <<_array, arrayLength, _tail, _size, newarray, removed, target, posted,
                       dequeued>>
        /\ loaded' = [loaded EXCEPT !["send"] = 0] /\ _head' = loaded["send"]
        /\ step["send"] = "setHead" /\ step' = [step EXCEPT !["send"] = "uncount"]
    BY <1>6 DEF SetsHead, Stored
  <2>2. SendQueueTypeOK'
    BY <2>1 DEF TakingInv
  <2>3. StepTypes'
    BY <2>1 DEF StepTypes, Steps
  <2>4. AddingInv' /\ TakingInv'
    BY <2>1 DEF AddingInv, TakingInv, NewCapacity
  <2> QED
    BY <2>2, <2>3, <2>4
<1>7. CASE Fetches("send", "uncount", _size - 1, "setUncount")
  <2>1. /\ UNCHANGED <<_array, arrayLength, _head, _tail, _size, newarray, removed, target,
                       posted, dequeued>>
        /\ loaded' = [loaded EXCEPT !["send"] = _size - 1]
        /\ step["send"] = "uncount" /\ step' = [step EXCEPT !["send"] = "setUncount"]
    BY <1>7 DEF Fetches
  <2>2. SendQueueTypeOK'
    BY <2>1
  <2>3. StepTypes'
    BY <2>1 DEF StepTypes, Steps
  <2>4. AddingInv' /\ TakingInv'
    BY <2>1 DEF AddingInv, TakingInv, NewCapacity
  <2> QED
    BY <2>2, <2>3, <2>4
<1>8. CASE SetsSize("send", "setUncount", loaded["send"], "out")
  <2>1. /\ UNCHANGED <<_array, arrayLength, _head, _tail, newarray, removed, target, posted>>
        /\ loaded' = [loaded EXCEPT !["send"] = 0] /\ _size' = loaded["send"]
        /\ dequeued' = IF removed = 0 THEN dequeued ELSE Append(dequeued, removed)
        /\ step["send"] = "setUncount" /\ step' = [step EXCEPT !["send"] = "out"]
    BY <1>8 DEF Dequeue, Checks, Fetches, SetsHead, SetsSize, Stored
  <2>2. dequeued' \in Seq(1 .. posted)
    <3>1. CASE removed = 0
      BY <2>1, <3>1
    <3>2. CASE removed # 0
      <4>1. removed \in 1 .. posted
        BY <3>2
      <4> QED
        BY <2>1, <3>2, <4>1, AppendProperties
    <3> QED
      BY <3>1, <3>2
  <2>3. SendQueueTypeOK'
    BY <2>1, <2>2 DEF TakingInv
  <2>4. StepTypes'
    BY <2>1 DEF StepTypes, Steps
  <2>5. AddingInv' /\ TakingInv'
    BY <2>1 DEF AddingInv, TakingInv, NewCapacity
  <2> QED
    BY <2>3, <2>4, <2>5
<1> QED
  BY <1>1, <1>2, <1>3, <1>4, <1>5, <1>6, <1>7, <1>8 DEF Dequeue

LEMMA QueueTypesStep == QueueTypes /\ [SendQueueNext]_sendQueueVars => QueueTypes'
<1> SUFFICES ASSUME QueueTypes, [SendQueueNext]_sendQueueVars PROVE QueueTypes'
  OBVIOUS
<1>1. CASE UNCHANGED sendQueueVars
  <2>1. UNCHANGED <<_array, arrayLength, _head, _tail, _size, newarray, removed, loaded, target,
                    step, posted, dequeued>>
    BY <1>1 DEF sendQueueVars, elementVars, indexVars, localVars
  <2>2. SendQueueTypeOK' /\ StepTypes'
    BY <2>1 DEF QueueTypes, SendQueueTypeOK, StepTypes, Indices
  <2>3. AddingInv' /\ TakingInv'
    BY <2>1 DEF QueueTypes, AddingInv, TakingInv, NewCapacity
  <2> QED
    BY <2>2, <2>3 DEF QueueTypes
<1>2. CASE SendQueueNext
  BY <1>2, ClearTypes, EnqueueTypes, CountTypes, DequeueTypes, LeavesTypes DEF SendQueueNext
<1> QED
  BY <1>1, <1>2

(* Unless the methods met, a packet is in one place: with the user interface  *)
(* that adds it, in one place of the array, with the sending thread that has  *)
(* read it (and then in no place but the one it will clear), or taken out.    *)
Held     == step["send"] \in {"forget", "forgetAt", "head", "setHead", "uncount", "setUncount"}
Unplaced == step["ui"] \in {"copy", "setArray", "setHead", "fetchTail", "setTail",
                            "fetchPlace", "place"}
Slots   == 0 .. arrayLength - 1

ToForget(i) == \/ step["send"] = "forget" /\ i = _head
               \/ step["send"] = "forgetAt" /\ i = loaded["send"] /\ target = arrayLength

OnePlace ==
  /\ IsInjective(dequeued)
  /\ \A i, j \in Slots : _array[i] = _array[j] => i = j \/ _array[i] = 0
  /\ \A i \in Slots : _array[i] # 0 => _array[i] \notin Range(dequeued)

HeldInv ==
  Held /\ removed # 0 => /\ removed \notin Range(dequeued)
                         /\ \A i \in Slots : _array[i] = removed => ToForget(i)

UnplacedInv ==
  Unplaced => /\ posted # 0 /\ posted \notin Range(dequeued)
              /\ \A i \in Slots : _array[i] # posted
              /\ Held => removed # posted

CopyInv ==
  step["ui"] = "setArray" =>
    /\ \A i \in 0 .. NewCapacity - 1 :
          newarray[i] = 0 \/ \E j \in Slots : newarray[i] = _array[j]
    /\ \A i, j \in 0 .. NewCapacity - 1 : newarray[i] = newarray[j] => i = j \/ newarray[i] = 0

PlacesInv == OnePlace /\ HeldInv /\ UnplacedInv /\ CopyInv

OnceInv == ~ overlapped => ~ Encounter /\ PlacesInv

LEMMA InitOnce == SendQueueInit => OnceInv
<1> SUFFICES ASSUME SendQueueInit PROVE OnceInv
  OBVIOUS
<1>1. Slots = {} /\ \A t \in Users : step[t] = "out"
  BY DEF SendQueueInit, Slots
<1>2. ~ Encounter
  BY <1>1 DEF Encounter, Growing, Holding, Clearing, Dequeuing, Users, Clearers
<1>3. IsInjective(dequeued)
  BY DEF SendQueueInit, IsInjective
<1>4. PlacesInv
  BY <1>1, <1>3 DEF PlacesInv, OnePlace, HeldInv, UnplacedInv, CopyInv, Held, Unplaced, Users
<1> QED
  BY <1>2, <1>4 DEF OnceInv

(* The steps that leave the packets where they are, or clear places.          *)
LEMMA FewerPackets ==
  ASSUME PlacesInv,
         UNCHANGED <<arrayLength, newarray, posted, dequeued>>,
         \A i \in Slots : _array'[i] \in {0, _array[i]},
         step["ui"] = "setArray" => UNCHANGED _array,
         Held' => Held /\ UNCHANGED removed,
         Unplaced' => Unplaced,
         step'["ui"] = "setArray" => step["ui"] = "setArray",
         Held' => \A i \in Slots : _array'[i] # 0 /\ ToForget(i) => ToForget(i)'
  PROVE  PlacesInv'
<1>0. Slots' = Slots
  BY DEF Slots
<1>1. OnePlace'
  BY <1>0 DEF PlacesInv, OnePlace
<1>2. HeldInv'
  BY <1>0 DEF PlacesInv, HeldInv
<1>3. UnplacedInv'
  BY <1>0 DEF PlacesInv, UnplacedInv
<1>4. CopyInv'
  BY <1>0 DEF PlacesInv, CopyInv, NewCapacity
<1> QED
  BY <1>1, <1>2, <1>3, <1>4 DEF PlacesInv

(* Steps that only write indices, sizes and locals of the other methods.      *)
LEMMA SamePlaces ==
  ASSUME PlacesInv,
         UNCHANGED <<_array, arrayLength, newarray, removed, posted, dequeued>>,
         Held' => Held,
         Unplaced' => Unplaced,
         step'["ui"] = "setArray" => step["ui"] = "setArray",
         Held' => \A i \in Slots : ToForget(i) => ToForget(i)'
  PROVE  PlacesInv'
  BY FewerPackets

LEMMA ClearPlaces ==
  ASSUME QueueTypes, PlacesInv, ~ Encounter, ~ Encounter', NEW t \in Clearers, Clear(t)
  PROVE  PlacesInv'
<1> USE DEF QueueTypes, SendQueueTypeOK, StepTypes, Indices, Users, Clearers, ClearSteps,
            AddSteps, TakeSteps, Advances, elementVars, indexVars, localVars
<1>1. CASE Checks(t, "out", IF _head < _tail THEN "clearRange" ELSE "clearBack")
  <2>1. /\ UNCHANGED <<_array, arrayLength, _head, _tail, _size, newarray, removed, loaded,
                       target, posted, dequeued>>
        /\ step[t] = "out"
        /\ \E to \in {"clearRange", "clearBack"} : step' = [step EXCEPT ![t] = to]
    BY <1>1 DEF Checks
  <2>2. /\ Held' => Held
        /\ Unplaced' => Unplaced
        /\ step'["ui"] = "setArray" => step["ui"] = "setArray"
    BY <2>1 DEF Held, Unplaced
  <2>3. \A i \in Slots : ToForget(i) => ToForget(i)'
    BY <2>1 DEF ToForget
  <2> QED
    BY <2>1, <2>2, <2>3, SamePlaces
<1>2. ASSUME step[t] \in ClearSteps, \E to \in ClearSteps \cup {"out"} :
                                       step' = [step EXCEPT ![t] = to],
             UNCHANGED <<arrayLength, newarray, removed, posted, dequeued>>,
             \A i \in Slots : _array'[i] \in {0, _array[i]}
      PROVE  PlacesInv'
  <2>1. Clearing
    BY <1>2 DEF Clearing
  <2>2. step["ui"] # "setArray" /\ ~ Holding
    BY <2>1 DEF Encounter, Growing
  <2>3. /\ Held' => Held
        /\ Unplaced' => Unplaced
        /\ step'["ui"] = "setArray" => step["ui"] = "setArray"
    BY <1>2 DEF Held, Unplaced
  <2>4. \A i \in Slots : ~ ToForget(i)
    BY <2>2 DEF ToForget, Holding
  <2> QED
    BY <1>2, <2>2, <2>3, <2>4, FewerPackets
<1>3. ASSUME NEW from, NEW first, NEW count, NEW to \in {"zeroHead", "clearFront"},
             from \in {"clearRange", "clearBack", "clearFront"},
             ClearsRange(t, from, first, count, to)
      PROVE  PlacesInv'
  <2>1. \A i \in Slots : _array'[i] \in {0, _array[i]}
    BY <1>3 DEF ClearsRange, Slots
  <2>2. /\ step[t] \in ClearSteps /\ step' = [step EXCEPT ![t] = to]
        /\ UNCHANGED <<arrayLength, newarray, removed, posted, dequeued>>
    BY <1>3 DEF ClearsRange, Stored
  <2> QED
    BY <1>2, <2>1, <2>2
<1>4. ASSUME NEW from \in {"zeroHead", "zeroTail", "zeroSize"},
             NEW to \in {"zeroTail", "zeroSize", "out"}, Stored(t, from, to),
             UNCHANGED <<_array, dequeued>>
      PROVE  PlacesInv'
  <2>1. /\ step[t] \in ClearSteps /\ step' = [step EXCEPT ![t] = to]
        /\ UNCHANGED <<_array, arrayLength, newarray, removed, posted, dequeued>>
    BY <1>4 DEF Stored
  <2> QED
    BY <1>2, <2>1
<1> QED
  BY <1>1, <1>3, <1>4 DEF Clear, SetsHead, SetsTail, SetsSize

LEMMA LeavesPlaces ==
  ASSUME QueueTypes, PlacesInv, NEW t \in Users, Leaves(t)
  PROVE  PlacesInv'
<1>1. /\ UNCHANGED <<_array, arrayLength, _head, _tail, _size, newarray, removed, loaded,
                     target, posted, dequeued>>
      /\ step' = [step EXCEPT ![t] = "out"]
  BY DEF Leaves, Checks, Advances, elementVars, indexVars, localVars
<1>2. step \in [Users -> Steps]
  BY DEF QueueTypes, StepTypes
<1>3. /\ Held' => Held
      /\ Unplaced' => Unplaced
      /\ step'["ui"] = "setArray" => step["ui"] = "setArray"
  BY <1>1, <1>2 DEF Held, Unplaced, Users
<1>4. Held' => \A i \in Slots : ToForget(i) => ToForget(i)'
  BY <1>1, <1>2 DEF ToForget, Held, Users
<1> QED
  BY <1>1, <1>3, <1>4, SamePlaces

LEMMA GrowPlaces ==
  ASSUME QueueTypes, PlacesInv, ~ Encounter, ~ Encounter', SetCapacity
  PROVE  PlacesInv'
<1> USE DEF QueueTypes, SendQueueTypeOK, StepTypes, Indices, Users, ClearSteps,
            AddSteps, TakeSteps, Advances, elementVars, indexVars, localVars
<1>1. /\ UNCHANGED <<posted, dequeued, removed, target>>
      /\ \E to \in {"setArray", "setHead", "fetchTail", "setTail", "fetchPlace"} :
            step' = [step EXCEPT !["ui"] = to]
      /\ step["ui"] \in {"copy", "setArray", "setHead", "fetchTail", "setTail"}
  BY DEF SetCapacity, SetsHead, SetsTail, Stored, Fetches
<1>2. step["send"] \in {"out", "dequeue"} /\ step'["send"] = step["send"]
  <2>1. Growing
    BY <1>1 DEF Growing
  <2> QED
    BY <1>1, <2>1 DEF Encounter, Dequeuing
<1>3. ~ Held /\ ~ Held' /\ Unplaced /\ Unplaced'
  BY <1>1, <1>2 DEF Held, Unplaced
<1>4. CASE Advances("ui", "copy", "setArray") /\ CanCopy
  <2>1. /\ UNCHANGED <<_array, arrayLength, _head, _tail, _size>>
        /\ step["ui"] = "copy" /\ step' = [step EXCEPT !["ui"] = "setArray"]
        /\ newarray' = [i \in 0 .. NewCapacity - 1 |->
                          IF i >= InUse THEN 0
                          ELSE IF _head + i < arrayLength THEN _array[_head + i]
                          ELSE _array[_head + i - arrayLength]]
    BY <1>4 DEF SetCapacity, SetsHead, SetsTail, Stored, Fetches
  <2>2. PICK at : at = [i \in 0 .. NewCapacity - 1 |->
                          IF _head + i < arrayLength THEN _head + i ELSE _head + i - arrayLength]
    OBVIOUS
  <2>3. /\ InUse \in Int /\ NewCapacity \in Nat /\ arrayLength \in Nat /\ _head \in Nat
        /\ InUse <= arrayLength
    BY NewCapacityGrows, <1>4 DEF InUse, CanCopy, InArray
  <2>4. \A i \in 0 .. NewCapacity - 1 : i < InUse => at[i] \in Slots
    BY <1>4, <2>2, CopyTypes DEF Slots
  <2>5. \A i, j \in 0 .. NewCapacity - 1 : i < InUse /\ j < InUse /\ at[i] = at[j] => i = j
    <3> TAKE i, j \in 0 .. NewCapacity - 1
    <3>1. i \in Nat /\ j \in Nat
      BY <2>3
    <3>2. PICK k : k = InUse
      OBVIOUS
    <3>3. ASSUME i < k, j < k,
                 (IF _head + i < arrayLength THEN _head + i ELSE _head + i - arrayLength)
                 = IF _head + j < arrayLength THEN _head + j ELSE _head + j - arrayLength
          PROVE  i = j
      <4>1. i < arrayLength /\ j < arrayLength
        BY <2>3, <3>1, <3>2, <3>3
      <4> QED
        BY <2>3, <3>1, <3>3, <4>1
    <3> QED
      BY <2>2, <3>2, <3>3
  <2>6. \A i \in 0 .. NewCapacity - 1 :
          newarray'[i] = IF i < InUse THEN _array[at[i]] ELSE 0
    BY <2>1, <2>2, <2>3
  <2>7. Slots' = Slots /\ NewCapacity' = NewCapacity
    BY <2>1 DEF Slots, NewCapacity
  <2>8. CopyInv'
    <3>1. \A i \in 0 .. NewCapacity - 1 :
            newarray'[i] = 0 \/ \E j \in Slots : newarray'[i] = _array[j]
      BY <2>4, <2>6
    <3>2. ASSUME NEW i \in 0 .. NewCapacity - 1, NEW j \in 0 .. NewCapacity - 1,
                 newarray'[i] = newarray'[j]
          PROVE  i = j \/ newarray'[i] = 0
      BY <3>2, <2>4, <2>5, <2>6 DEF PlacesInv, OnePlace
    <3> QED
      BY <2>1, <2>7, <3>1, <3>2 DEF CopyInv
  <2>9. OnePlace' /\ UnplacedInv'
    BY <1>1, <1>3, <2>1, <2>7 DEF PlacesInv, OnePlace, UnplacedInv
  <2> QED
    BY <1>3, <2>8, <2>9 DEF PlacesInv, HeldInv
<1>5. CASE Advances("ui", "setArray", "setHead") /\ _array' = newarray
  <2>1. /\ step["ui"] = "setArray" /\ step' = [step EXCEPT !["ui"] = "setHead"]
        /\ arrayLength' = NewCapacity /\ _array' = newarray
    BY <1>5 DEF SetCapacity, SetsHead, SetsTail, Stored, Fetches
  <2>2. Slots' = 0 .. NewCapacity - 1
    BY <2>1 DEF Slots
  <2>3. OnePlace'
    BY <1>1, <2>1, <2>2 DEF PlacesInv, OnePlace, CopyInv
  <2>4. \A i \in Slots' : _array'[i] # posted
    <3>1. posted # 0 /\ \A j \in Slots : _array[j] # posted
      BY <1>3 DEF PlacesInv, UnplacedInv
    <3>2. \A i \in Slots' : newarray[i] = 0 \/ \E j \in Slots : newarray[i] = _array[j]
      BY <2>1, <2>2 DEF PlacesInv, CopyInv
    <3> QED
      BY <2>1, <3>1, <3>2
  <2>5. UnplacedInv'
    BY <1>1, <1>3, <2>4 DEF PlacesInv, UnplacedInv
  <2>6. CopyInv'
    BY <2>1 DEF CopyInv
  <2> QED
    BY <1>3, <2>3, <2>5, <2>6 DEF PlacesInv, HeldInv
<1>6. CASE \/ SetsHead("ui", "setHead", 0, "fetchTail")
           \/ Fetches("ui", "fetchTail", IF _size = arrayLength THEN 0 ELSE _size, "setTail")
           \/ SetsTail("ui", "setTail", loaded["ui"], "fetchPlace")
  <2>1. /\ UNCHANGED <<_array, arrayLength, newarray, removed, posted, dequeued>>
        /\ step'["ui"] # "setArray"
    BY <1>6 DEF SetsHead, SetsTail, Stored, Fetches
  <2> QED
    BY <1>3, <2>1, SamePlaces
<1> QED
  BY <1>4, <1>5, <1>6 DEF SetCapacity

LEMMA EnqueuePlaces ==
  ASSUME QueueTypes, PlacesInv, ~ Encounter, ~ Encounter', Enqueue
  PROVE  PlacesInv'
<1> USE DEF QueueTypes, SendQueueTypeOK, StepTypes, Indices, Users, ClearSteps,
            AddSteps, TakeSteps, Advances, elementVars, indexVars, localVars
<1>1. CASE /\ Advances("ui", "out", IF _size = arrayLength THEN "copy" ELSE "fetchPlace")
           /\ posted' = posted + 1
           /\ UNCHANGED <<elementVars, indexVars, localVars, dequeued>>
  <2>1. /\ UNCHANGED <<_array, arrayLength, _head, _tail, _size, newarray, removed, loaded,
                       target, dequeued>>
        /\ posted' = posted + 1
        /\ \E to \in {"copy", "fetchPlace"} : step' = [step EXCEPT !["ui"] = to]
    BY <1>1
  <2>2. Slots' = Slots /\ (Held' <=> Held) /\ \A i \in Slots : ToForget(i)' <=> ToForget(i)
    BY <2>1 DEF Slots, Held, ToForget
  <2>3. OnePlace' /\ HeldInv'
    BY <2>1, <2>2 DEF PlacesInv, OnePlace, HeldInv
  <2>4. posted' # 0 /\ posted' \notin Range(dequeued) /\ posted' # removed
    <3>1. \A n \in DOMAIN dequeued : dequeued[n] \in 1 .. posted
      OBVIOUS
    <3>2. posted' \notin 0 .. posted
      BY <2>1
    <3> QED
      BY <2>1, <3>1, <3>2 DEF Range
  <2>5. \A i \in Slots : _array[i] # posted'
    BY <2>1 DEF Slots
  <2>6. UnplacedInv'
    BY <2>1, <2>2, <2>4, <2>5 DEF UnplacedInv
  <2>7. CopyInv'
    BY <2>1 DEF CopyInv
  <2> QED
    BY <2>3, <2>6, <2>7 DEF PlacesInv
<1>2. CASE SetCapacity
  BY <1>2, GrowPlaces
<1>3. CASE /\ Stored("ui", "place", "nextTail")
           /\ _array' = [_array EXCEPT ![loaded["ui"]] = posted]
           /\ UNCHANGED <<indexVars, target, dequeued>>
  <2>1. /\ UNCHANGED <<arrayLength, _head, newarray, removed, target, posted, dequeued>>
        /\ loaded'["send"] = loaded["send"]
        /\ step["ui"] = "place" /\ step' = [step EXCEPT !["ui"] = "nextTail"]
    BY <1>3 DEF Stored
  <2>2. Slots' = Slots /\ (Held' <=> Held) /\ \A i \in Slots : ToForget(i)' <=> ToForget(i)
    BY <2>1 DEF Slots, Held, ToForget
  <2>3. Unplaced
    BY <2>1 DEF Unplaced
  <2>4. \A i \in Slots : _array'[i] = IF i = loaded["ui"] THEN posted ELSE _array[i]
    BY <1>3 DEF Slots
  <2>5. OnePlace'
    <3>1. /\ posted # 0 /\ posted \notin Range(dequeued)
          /\ \A i \in Slots : _array[i] # posted
      BY <2>3 DEF PlacesInv, UnplacedInv
    <3>2. \A i, j \in Slots : _array'[i] = _array'[j] => i = j \/ _array'[i] = 0
      BY <2>4, <3>1 DEF PlacesInv, OnePlace
    <3>3. \A i \in Slots : _array'[i] # 0 => _array'[i] \notin Range(dequeued)
      BY <2>4, <3>1 DEF PlacesInv, OnePlace
    <3> QED
      BY <2>1, <2>2, <3>2, <3>3 DEF PlacesInv, OnePlace
  <2>6. HeldInv'
    BY <2>1, <2>2, <2>3, <2>4 DEF PlacesInv, HeldInv, UnplacedInv
  <2>7. UnplacedInv' /\ CopyInv'
    BY <2>1 DEF UnplacedInv, CopyInv, Unplaced
  <2> QED
    BY <2>5, <2>6, <2>7 DEF PlacesInv
<1>4. ASSUME NEW from \in {"fetchPlace", "nextTail", "setNextTail", "count", "setCount"},
             NEW to \in {"place", "setNextTail", "count", "setCount", "out"},
             from # "fetchPlace" => to # "place",
             step["ui"] = from, step' = [step EXCEPT !["ui"] = to],
             loaded'["send"] = loaded["send"],
             UNCHANGED <<_array, arrayLength, _head, newarray, removed, target, posted, dequeued>>
      PROVE  PlacesInv'
  <2>1. /\ Held' => Held
        /\ Unplaced' => Unplaced
        /\ step'["ui"] # "setArray"
        /\ \A i \in Slots : ToForget(i)' <=> ToForget(i)
    BY <1>4 DEF Held, Unplaced, ToForget
  <2> QED
    BY <1>4, <2>1, SamePlaces
<1>5. CASE Fetches("ui", "fetchPlace", _tail, "place")
  BY <1>4, <1>5 DEF Fetches
<1>6. CASE Fetches("ui", "nextTail", (_tail + 1) % arrayLength, "setNextTail")
  <2>1. PICK n : n = (_tail + 1) % arrayLength
    OBVIOUS
  <2>2. Fetches("ui", "nextTail", n, "setNextTail")
    BY <1>6, <2>1
  <2> QED
    BY <1>4, <2>2 DEF Fetches
<1>7. CASE SetsTail("ui", "setNextTail", loaded["ui"], "count")
  BY <1>4, <1>7 DEF SetsTail, Stored
<1>8. CASE Fetches("ui", "count", _size + 1, "setCount")
  BY <1>4, <1>8 DEF Fetches
<1>9. CASE SetsSize("ui", "setCount", loaded["ui"], "out") /\ UNCHANGED dequeued
  BY <1>4, <1>9 DEF SetsSize, Stored
<1> QED
  BY <1>1, <1>2, <1>3, <1>5, <1>6, <1>7, <1>8, <1>9 DEF Enqueue

LEMMA CountPlaces ==
  ASSUME QueueTypes, PlacesInv, Count
  PROVE  PlacesInv'
<1>1. /\ UNCHANGED <<_array, arrayLength, newarray, posted, dequeued>>
      /\ \E to \in {"dequeue", "out"} : step' = [step EXCEPT !["send"] = to]
  BY DEF Count, Advances, elementVars
<1>2. ~ Held' /\ (Unplaced' => Unplaced) /\ step'["ui"] = step["ui"]
  BY <1>1 DEF Held, Unplaced, QueueTypes, StepTypes, Users
<1> QED
  BY <1>1, <1>2, FewerPackets

LEMMA DequeuePlaces ==
  ASSUME QueueTypes, PlacesInv, ~ Encounter, ~ Encounter', Dequeue
  PROVE  PlacesInv'
<1> USE DEF QueueTypes, SendQueueTypeOK, StepTypes, Indices, Users, ClearSteps,
            AddSteps, TakeSteps, Advances, elementVars, indexVars, localVars
<1>1. CASE Advances("send", "remove", "forget") /\ removed' = _array[_head]
  <2>1. /\ UNCHANGED <<_array, arrayLength, _head, newarray, posted, dequeued>>
        /\ step["send"] = "remove" /\ step' = [step EXCEPT !["send"] = "forget"]
    BY <1>1 DEF Dequeue, Checks, Fetches, SetsHead, SetsSize, Stored
  <2>2. Slots' = Slots /\ _head \in Slots
    BY <2>1 DEF Slots, TakingInv
  <2>3. step["ui"] # "setArray" /\ step'["ui"] = step["ui"]
    BY <2>1 DEF Encounter, Growing, Dequeuing
  <2>4. OnePlace' /\ CopyInv'
    BY <2>1, <2>2, <2>3 DEF PlacesInv, OnePlace, CopyInv
  <2>5. HeldInv'
    BY <1>1, <2>1, <2>2 DEF PlacesInv, OnePlace, HeldInv, ToForget
  <2>6. UnplacedInv'
    BY <1>1, <2>1, <2>2, <2>3 DEF PlacesInv, UnplacedInv, Unplaced
  <2> QED
    BY <2>4, <2>5, <2>6 DEF PlacesInv
<1>2. CASE /\ Advances("send", "forget", "forgetAt")
           /\ loaded' = [loaded EXCEPT !["send"] = _head] /\ target' = arrayLength
  <2>1. /\ UNCHANGED <<_array, arrayLength, _head, newarray, removed, posted, dequeued>>
        /\ loaded'["send"] = _head /\ target' = arrayLength
        /\ step["send"] = "forget" /\ step' = [step EXCEPT !["send"] = "forgetAt"]
    BY <1>2 DEF Dequeue, Checks, Fetches, SetsHead, SetsSize, Stored
  <2>2. /\ Held' => Held
        /\ Unplaced' => Unplaced
        /\ step'["ui"] = step["ui"]
        /\ \A i \in Slots : ToForget(i) => ToForget(i)'
    BY <2>1 DEF Held, Unplaced, ToForget
  <2> QED
    BY <2>1, <2>2, SamePlaces
<1>3. CASE /\ Stored("send", "forgetAt", "head")
           /\ Forgets /\ target' = 0
           /\ UNCHANGED <<indexVars, dequeued>>
  <2>1. /\ UNCHANGED <<arrayLength, newarray, removed, posted, dequeued>>
        /\ step["send"] = "forgetAt" /\ step' = [step EXCEPT !["send"] = "head"]
    BY <1>3 DEF Stored
  <2>2. \A i \in Slots : _array'[i] = IF ToForget(i) THEN 0 ELSE _array[i]
    BY <1>3, <2>1 DEF Forgets, ToForget, Slots
  <2>3. step["ui"] # "setArray" /\ step'["ui"] = step["ui"]
    BY <2>1 DEF Encounter, Growing, Dequeuing
  <2>4. Slots' = Slots /\ Held
    BY <2>1 DEF Slots, Held
  <2>5. OnePlace' /\ CopyInv'
    BY <2>1, <2>2, <2>3, <2>4 DEF PlacesInv, OnePlace, CopyInv
  <2>6. HeldInv'
    BY <2>1, <2>2, <2>4 DEF PlacesInv, HeldInv
  <2>7. UnplacedInv'
    BY <2>1, <2>2, <2>3, <2>4 DEF PlacesInv, UnplacedInv, Unplaced
  <2> QED
    BY <2>5, <2>6, <2>7 DEF PlacesInv
<1>4. CASE /\ SetsSize("send", "setUncount", loaded["send"], "out")
           /\ dequeued' = IF removed = 0 THEN dequeued ELSE Append(dequeued, removed)
  <2>1. /\ UNCHANGED <<_array, arrayLength, newarray, removed, posted>>
        /\ step["send"] = "setUncount" /\ step' = [step EXCEPT !["send"] = "out"]
    BY <1>4 DEF SetsSize, Stored
  <2>2. /\ Held /\ ~ Held' /\ Slots' = Slots /\ step'["ui"] = step["ui"]
        /\ Unplaced' <=> Unplaced
    BY <2>1 DEF Held, Slots, Unplaced
  <2>3. CASE removed = 0
    BY <1>4, <2>1, <2>2, <2>3, SamePlaces
  <2>4. CASE removed # 0
    <3>1. /\ removed \in 1 .. posted /\ removed \notin Range(dequeued)
          /\ \A i \in Slots : _array[i] # removed
      BY <2>1, <2>2, <2>4 DEF PlacesInv, HeldInv, ToForget
    <3>2. /\ IsInjective(dequeued') /\ Range(dequeued') = Range(dequeued) \cup {removed}
      BY <1>4, <2>4, <3>1, AppendNew DEF PlacesInv, OnePlace
    <3>3. OnePlace'
      BY <2>1, <2>2, <3>1, <3>2 DEF PlacesInv, OnePlace
    <3>4. UnplacedInv'
      BY <2>1, <2>2, <3>2 DEF PlacesInv, UnplacedInv
    <3>5. CopyInv'
      BY <2>1, <2>2 DEF PlacesInv, CopyInv, NewCapacity
    <3> QED
      BY <2>2, <3>3, <3>4, <3>5 DEF PlacesInv, HeldInv
  <2> QED
    BY <2>3, <2>4
<1>5. ASSUME NEW from \in {"dequeue", "head", "setHead", "uncount"},
             NEW to \in {"remove", "setHead", "uncount", "setUncount"},
             from = "dequeue" => to = "remove",
             step["send"] = from, step' = [step EXCEPT !["send"] = to],
             UNCHANGED <<_array, arrayLength, newarray, removed, posted, dequeued>>
      PROVE  PlacesInv'
  <2>1. /\ Held' => Held
        /\ Unplaced' => Unplaced
        /\ step'["ui"] = step["ui"]
        /\ \A i \in Slots : ~ ToForget(i)
    BY <1>5 DEF Held, Unplaced, ToForget
  <2> QED
    BY <1>5, <2>1, SamePlaces
<1>6. CASE Checks("send", "dequeue", "remove")
  BY <1>5, <1>6 DEF Checks
<1>7. CASE Fetches("send", "head", (_head + 1) % arrayLength, "setHead")
  <2>1. PICK n : n = (_head + 1) % arrayLength
    OBVIOUS
  <2>2. Fetches("send", "head", n, "setHead")
    BY <1>7, <2>1
  <2> QED
    BY <1>5, <2>2 DEF Fetches
<1>8. CASE SetsHead("send", "setHead", loaded["send"], "uncount")
  BY <1>5, <1>8 DEF SetsHead, Stored
<1>9. CASE Fetches("send", "uncount", _size - 1, "setUncount")
  BY <1>5, <1>9 DEF Fetches
<1> QED
  BY <1>1, <1>2, <1>3, <1>4, <1>6, <1>7, <1>8, <1>9 DEF Dequeue

LEMMA OnceStep == QueueTypes /\ OnceInv /\ [SendQueueNext]_sendQueueVars => OnceInv'
<1> SUFFICES ASSUME QueueTypes, OnceInv, [SendQueueNext]_sendQueueVars PROVE OnceInv'
  OBVIOUS
<1>1. CASE UNCHANGED sendQueueVars
  <2>1. UNCHANGED <<_array, arrayLength, _head, _tail, _size, newarray, removed, loaded, target,
                    step, posted, dequeued, overlapped>>
    BY <1>1 DEF sendQueueVars, elementVars, indexVars, localVars
  <2>2. (Encounter' <=> Encounter) /\ (PlacesInv' <=> PlacesInv)
    BY <2>1 DEF Encounter, Growing, Holding, Clearing, Dequeuing, PlacesInv, OnePlace, HeldInv,
                UnplacedInv, CopyInv, Held, Unplaced, ToForget, Slots, NewCapacity
  <2> QED
    BY <2>1, <2>2, Zenon DEF OnceInv
<1>2. CASE SendQueueNext
  <2>1. overlapped' = (overlapped \/ Encounter')
    BY <1>2, Zenon DEF SendQueueNext, Enqueue, SetCapacity, Count, Dequeue, Clear, Leaves, Checks,
       Fetches, SetsHead, SetsTail, SetsSize, ClearsRange, Stored, Advances
  <2>2. SUFFICES ASSUME ~ overlapped' PROVE ~ Encounter' /\ PlacesInv'
    BY Zenon DEF OnceInv
  <2>3. ~ overlapped /\ ~ Encounter'
    BY <2>1, <2>2, Zenon
  <2>4. ~ Encounter /\ PlacesInv
    BY <2>3, Zenon DEF OnceInv
  <2> QED
    BY <1>2, <2>3, <2>4, ClearPlaces, EnqueuePlaces, CountPlaces, DequeuePlaces, LeavesPlaces
       DEF SendQueueNext
<1> QED
  BY <1>1, <1>2

LEMMA QueueInvariants == SendQueueSpec => [](QueueTypes /\ OnceInv)
  BY InitQueueTypes, InitOnce, QueueTypesStep, OnceStep, PTL DEF SendQueueSpec

THEOREM QueueTyped == SendQueueSpec => []SendQueueTypeOK
<1>1. QueueTypes => SendQueueTypeOK
  BY DEF QueueTypes
<1> QED
  BY <1>1, QueueInvariants, PTL

THEOREM QueueGivesOnce == SendQueueSpec => []DequeuedOnce
<1>1. OnceInv => DequeuedOnce
  BY Zenon DEF OnceInv, PlacesInv, OnePlace, DequeuedOnce
<1> QED
  BY <1>1, QueueInvariants, PTL
-----------------------------------------------------------------------------
(* The threads of the client use the queue within its specification: no more  *)
(* packets are added than the user posts, and a thread that is inside a       *)
(* method is where its caller waits for it.                                   *)
Calling == {"clear", "enqueue", "dequeue"}

CallsInv ==
  /\ posted <= MaxPosts
  /\ pc.ui = "enqueue" /\ step["ui"] = "out" => posted < MaxPosts
  /\ \A t \in Users : step[t] # "out" => pc[t] \in Calling

(* The steps that run no method.                                              *)
Quiet ==
  /\ UNCHANGED <<load, sendQueueVars>>
  /\ \A t \in Users : pc[t] \in Calling => pc'[t] = pc[t]
  /\ pc'.ui = "enqueue" => pc.ui = "enqueue"

(* Those that run one.                                                        *)
RunsQueue == \/ Clears("ui", "closeTest") \/ Clears("read", "loop")
             \/ Counts \/ Dequeues \/ Enqueues \/ HandlerAbandoned

LEMMA QuietSteps ==
  ASSUME pc \in [{"ui", "read", "send"} -> Places], Next, ~ RunsQueue, ~ PostSendPacket
  PROVE  Quiet
<1> USE DEF Quiet, Calling, Users, At, Goto, Dies, Places, formVars, MethodFails
<1>1. CASE Reads
  <2> USE DEF ReadLoops, ReceiveStarts, ReceiveInterrupted, ParsesOne, ParseFails,
              ParseEnds, CloseTests, Closes, SetsButton, SetsDisconnect
  <2>1. CASE ReadLoops BY <2>1
  <2>2. CASE ReceiveStarts BY <2>2
  <2>3. CASE ReceiveInterrupted BY <2>3
  <2>4. CASE ParsesOne BY <2>4
  <2>5. CASE ParseFails BY <2>5
  <2>6. CASE ParseEnds BY <2>6
  <2>7. CASE CloseTests("read", "setDisconnectd") BY <2>7
  <2>8. CASE Closes("read", "setDisconnectd") BY <2>8
  <2>9. CASE SetsButton("read") BY <2>9
  <2>10. CASE SetsDisconnect("read") BY <2>10
  <2>11. CASE MethodFails("read") BY <2>11
  <2> QED
    BY <1>1, <2>1, <2>2, <2>3, <2>4, <2>5, <2>6, <2>7, <2>8, <2>9, <2>10, <2>11
    DEF Reads, RunsQueue
<1>2. CASE Receives \/ ConnectionEnds
  BY <1>2 DEF Receives, ConnectionEnds
<1>3. CASE SendsOn
  <2> USE DEF SendLoops, SendTests, Sends, SendFails
  <2>1. CASE SendLoops BY <2>1
  <2>2. CASE SendTests BY <2>2
  <2>3. CASE Sends BY <2>3
  <2>4. CASE SendFails BY <2>4
  <2>5. CASE MethodFails("send") BY <2>5
  <2> QED
    BY <1>3, <2>1, <2>2, <2>3, <2>4, <2>5 DEF SendsOn, RunsQueue
<1>4. CASE Handles
  <2> USE DEF Connects, ConnectReturns, DisablesConnect, EnablesDisconnect, CloseTests,
              Closes, SetsButton, SetsDisconnect, AfterClose
  <2>1. CASE Connects BY <2>1
  <2>2. CASE ConnectReturns BY <2>2
  <2>3. CASE DisablesConnect BY <2>3
  <2>4. CASE EnablesDisconnect BY <2>4
  <2>5. CASE SetsButton("ui") BY <2>5
  <2>6. CASE SetsDisconnect("ui") BY <2>6
  <2>7. CASE CloseTests("ui", AfterClose) BY <2>7
  <2>8. CASE Closes("ui", AfterClose) BY <2>8
  <2>9. CASE MethodFails("ui") BY <2>9
  <2> QED
    BY <1>4, <2>1, <2>2, <2>3, <2>4, <2>5, <2>6, <2>7, <2>8, <2>9 DEF Handles, RunsQueue
<1>5. CASE ConnectClick \/ DisconnectClick \/ FormClosing
  BY <1>5 DEF ConnectClick, DisconnectClick, FormClosing
<1>6. CASE BackGroundProcess
  BY <1>6 DEF BackGroundProcess
<1> QED
  BY <1>1, <1>2, <1>3, <1>4, <1>5, <1>6 DEF Next, Clicks

LEMMA RunsIsQueueStep == RunsQueue => SendQueueNext
  BY DEF RunsQueue, Clears, Counts, Dequeues, Enqueues, HandlerAbandoned, SendQueueNext,
         Clearers, Users

(* The client's steps are steps of its queue.                                 *)
LEMMA ClientStepsQueue ==
  ASSUME ReaderTypes, [Next]_vars
  PROVE  [SendQueueNext]_sendQueueVars
<1>1. CASE UNCHANGED vars
  BY <1>1 DEF vars
<1>2. CASE PostSendPacket
  BY <1>2 DEF PostSendPacket
<1>3. CASE Next /\ ~ RunsQueue /\ ~ PostSendPacket
  BY <1>3, QuietSteps DEF ReaderTypes, Quiet
<1> QED
  BY <1>1, <1>2, <1>3, RunsIsQueueStep

LEMMA ReaderTyped == Spec => []ReaderTypes
  BY InitReader, ReaderStep, PTL DEF Spec

THEOREM ClientUsesQueue == Spec => SendQueueSpec
<1>1. Init => SendQueueInit
  BY DEF Init
<1>2. ReaderTypes /\ [Next]_vars => [SendQueueNext]_sendQueueVars
  BY ClientStepsQueue
<1> QED
  BY <1>1, <1>2, ReaderTyped, PTL DEF Spec, SendQueueSpec

(* A step of a thread in a method moves that thread alone.                    *)
LEMMA RunKeepsCalls ==
  ASSUME ReaderTypes, QueueTypes, CallsInv, NEW t \in Users, NEW to, NEW pcOf \in Places,
         UNCHANGED load,
         step' = [step EXCEPT ![t] = to], pc' = [pc EXCEPT ![t] = pcOf],
         to = "out" <=> pcOf \notin Calling,
         t = "ui" /\ pcOf = "enqueue" => pc[t] = "enqueue",
         \/ UNCHANGED posted
         \/ posted' = posted + 1 /\ t = "ui" /\ pc[t] = "enqueue" /\ step[t] = "out"
  PROVE  CallsInv'
<1>1. /\ step \in [Users -> Steps] /\ pc \in [Users -> Places]
      /\ MaxPosts' = MaxPosts /\ MaxPosts \in Nat /\ posted \in Nat
  BY ServedTypes
  DEF ReaderTypes, QueueTypes, StepTypes, SendQueueTypeOK, MaxPosts, Users
<1>2. \A u \in Users : /\ step'[u] = IF u = t THEN to ELSE step[u]
                       /\ pc'[u] = IF u = t THEN pcOf ELSE pc[u]
  BY <1>1
<1>3. posted' <= MaxPosts
  BY <1>1 DEF CallsInv
<1>4. \A u \in Users : step'[u] # "out" => pc'[u] \in Calling
  BY <1>2 DEF CallsInv
<1>5. ASSUME pc'["ui"] = "enqueue", step'["ui"] = "out"
      PROVE  posted' < MaxPosts
  BY <1>1, <1>2, <1>5 DEF CallsInv, Calling, Users
<1> QED
  BY <1>1, <1>3, <1>4, <1>5 DEF CallsInv

LEMMA RunsKeepCalls ==
  ASSUME ReaderTypes, QueueTypes, CallsInv, RunsQueue
  PROVE  CallsInv'
<1> USE DEF At, Users, Clearers, Calling, Advances
<1>1. /\ step \in [Users -> Steps] /\ pc \in [Users -> Places]
  BY DEF ReaderTypes, QueueTypes, StepTypes
<1>2. ASSUME NEW t \in Users, NEW place \in Places, place \notin Calling, InQueue(t, place),
             NEW to, step' = [step EXCEPT ![t] = to], pc[t] \in Calling,
             \/ UNCHANGED posted
             \/ posted' = posted + 1 /\ t = "ui" /\ pc[t] = "enqueue" /\ step[t] = "out"
      PROVE  CallsInv'
  <2>1. UNCHANGED load /\ step'[t] = to
    BY <1>1, <1>2 DEF InQueue, formVars
  <2>2. CASE to = "out"
    BY <1>1, <1>2, <2>1, <2>2, RunKeepsCalls DEF InQueue
  <2>3. CASE to # "out"
    <3>1. pc' = pc /\ pc' = [pc EXCEPT ![t] = pc[t]]
      BY <1>1, <1>2, <2>1, <2>3 DEF InQueue
    <3> QED
      BY <1>1, <1>2, <2>1, <2>3, <3>1, RunKeepsCalls
  <2> QED
    BY <2>2, <2>3
<1>3. ASSUME NEW t \in Clearers, NEW next \in {"closeTest", "loop"}, Clears(t, next)
      PROVE  CallsInv'
  <2>1. UNCHANGED posted /\ \E to : step' = [step EXCEPT ![t] = to]
    BY <1>3, Zenon DEF Clears, Clear, Checks, ClearsRange, SetsHead, SetsTail, SetsSize, Stored
  <2>2. pc[t] = "clear" /\ InQueue(t, next) /\ next \in Places
    BY <1>3 DEF Clears, Places
  <2> QED
    BY <1>2, <1>3, <2>1, <2>2
<1>4. CASE Counts
  <2>1. /\ UNCHANGED <<posted, load>>
        /\ \E to \in {"dequeue", "out"} :
              step' = [step EXCEPT !["send"] = to] /\ step'["send"] = to
    BY <1>1, <1>4 DEF Counts, Count, formVars
  <2>2. PICK to \in {"dequeue", "out"} :
          step' = [step EXCEPT !["send"] = to] /\ step'["send"] = to
    BY <2>1
  <2>3. PICK pcOf \in {"loop", "dequeue"} : pc' = [pc EXCEPT !["send"] = pcOf]
                                          /\ (to = "out" <=> pcOf \notin Calling)
    BY <1>4, <2>2 DEF Counts, Goto
  <2>4. pcOf \in Places
    BY DEF Places
  <2> QED
    BY <2>1, <2>2, <2>3, <2>4, RunKeepsCalls
<1>5. CASE Dequeues
  <2>1. UNCHANGED posted /\ \E to : step' = [step EXCEPT !["send"] = to]
    BY <1>5, Zenon DEF Dequeues, Dequeue, Checks, Fetches, SetsHead, SetsSize, Stored
  <2>2. pc["send"] = "dequeue" /\ InQueue("send", "sendTest")
    BY <1>5 DEF Dequeues
  <2> QED
    BY <1>2, <2>1, <2>2 DEF Places
<1>6. CASE Enqueues
  <2>1. /\ \/ UNCHANGED posted
           \/ posted' = posted + 1 /\ step["ui"] = "out"
        /\ \E to : step' = [step EXCEPT !["ui"] = to]
    BY <1>6, Zenon DEF Enqueues, Enqueue, SetCapacity, Fetches, SetsHead, SetsTail, SetsSize,
                       Stored
  <2>2. pc["ui"] = "enqueue" /\ InQueue("ui", "idle")
    BY <1>6 DEF Enqueues
  <2> QED
    BY <1>2, <2>1, <2>2 DEF Places
<1>7. CASE HandlerAbandoned
  <2>1. UNCHANGED posted /\ step' = [step EXCEPT !["ui"] = "out"] /\ step["ui"] # "out"
    BY <1>7 DEF HandlerAbandoned, Leaves, Checks, MethodThrows, ClearThrows, EnqueueThrows
  <2>2. pc["ui"] \in Calling /\ InQueue("ui", "idle")
    BY <1>7, <2>1 DEF HandlerAbandoned, CallsInv
  <2> QED
    BY <1>2, <2>1, <2>2 DEF Places
<1> QED
  BY <1>3, <1>4, <1>5, <1>6, <1>7 DEF RunsQueue

LEMMA CallsStep ==
  ASSUME ReaderTypes, QueueTypes, CallsInv, [Next]_vars
  PROVE  CallsInv'
<1>1. step \in [Users -> Steps] /\ pc \in [Users -> Places]
  BY DEF ReaderTypes, QueueTypes, StepTypes, Users
<1>2. CASE UNCHANGED vars
  BY <1>2 DEF vars, formVars, sendQueueVars, CallsInv, MaxPosts
<1>3. CASE PostSendPacket
  <2>1. /\ UNCHANGED <<load, step, posted>> /\ pc["ui"] = "idle" /\ posted < MaxPosts
        /\ pc' = [pc EXCEPT !["ui"] = "enqueue"]
    BY <1>3 DEF PostSendPacket, At, Goto, formVars, sendQueueVars
  <2> QED
    BY <1>1, <2>1 DEF CallsInv, MaxPosts, Calling, Users
<1>4. CASE Next /\ ~ RunsQueue /\ ~ PostSendPacket
  <2>1. Quiet
    BY <1>4, QuietSteps DEF ReaderTypes
  <2> QED
    BY <2>1 DEF Quiet, CallsInv, MaxPosts, sendQueueVars
<1> QED
  BY <1>2, <1>3, <1>4, RunsKeepCalls

LEMMA ClientCalls == Spec => []CallsInv
<1>1. Init => CallsInv
  <2> SUFFICES ASSUME Init PROVE CallsInv
    OBVIOUS
  <2>1. MaxPosts \in Nat
    BY ServedTypes DEF Init
  <2>2. posted = 0 /\ pc.ui = "idle" /\ \A t \in Users : step[t] = "out"
    BY DEF Init, SendQueueInit
  <2> QED
    BY <2>1, <2>2 DEF CallsInv
<1>2. ReaderTypes /\ QueueTypes /\ CallsInv /\ [Next]_vars => CallsInv'
  BY CallsStep
<1> QED
  BY <1>1, <1>2, ReaderTyped, ClientUsesQueue, QueueInvariants, PTL DEF Spec

(* Sizes, positions and places of the client are what their types say, for    *)
(* any servers, posts, sizes of arrays and races on the queue: its _size, at  *)
(* least, is never below -1 or above the length of the array.                 *)
THEOREM ClientTypes == Spec => []TypeOK
<1>1. BufferTypeOK /\ SendQueueTypeOK /\ ReaderTypes /\ CallsInv => TypeOK
  BY DEF TypeOK, ReaderTypes, CallsInv, Calling
<1> QED
  BY <1>1, ReaderTyped, ClientCalls, ClientUsesQueue, QueueTyped, ClientUsesBuffer, BufferTypes,
     PTL

(* Whatever the three threads of the client do, a packet is dequeued at most  *)
(* once, unless SetCapacity copied the array while another method worked on   *)
(* it or Clear ran while Dequeue held a packet.                               *)
THEOREM EachDequeuedOnce == Spec => []DequeuedOnce
  BY ClientUsesQueue, QueueGivesOnce, PTL
-----------------------------------------------------------------------------
(* Where the stream stands.  What is unread is a part of the stream of the    *)
(* last connection that wrote, and begins where a packet begins: behind those *)
(* of it that were delivered.                                                 *)
Lineage == /\ Sock \in Nat /\ receiving \in Nat /\ source \in Nat
           /\ source <= receiving /\ receiving <= Sock
           /\ \A n \in Connections : n > source => taken[n] = 0

Aligned(from) ==
  /\ \A n \in source .. Len(served) : from[n + 1] = Len(delivered)
  /\ source = 0 => enableReadSize = 0
  /\ source # 0 =>
       LET begin == Through(source, from[source + 1] - from[source])
       IN  /\ enableReadSize = taken[source] - begin
           /\ \A i \in 1 .. enableReadSize : Unread[i] = ServerStream(source)[begin + i]

Positions == [1 .. Len(served) + 1 -> 0 .. Len(delivered)]

(* There is room for a packet; and no complete packet is left behind when the *)
(* reader leaves the inner loop.                                              *)
Room == BufferSize - WritePos >= MaxPacketSize
Parsed == pc.read # "parse" => enableReadSize < MaxPacketSize

StreamInv ==
  /\ processed \in Seq(Seq(Byte)) /\ RecvPacketQueue \in Seq(Seq(Byte))
  /\ Lineage
  /\ intact => Room /\ Parsed /\ \E from \in Positions : InOrder(from) /\ Aligned(from)

LEMMA InitStream == Init => StreamInv
<1> SUFFICES ASSUME Init PROVE StreamInv
  OBVIOUS
<1>1. /\ Connections = 1 .. Len(served) /\ Len(served) \in Nat
      /\ \A n \in Connections : /\ served[n].cuts \in Seq(Nat)
                                /\ served[n].cuts # <<>> /\ served[n].cuts[1] = 0
  BY ServedTypes DEF Init, WellFormed
<1>2. /\ processed = <<>> /\ RecvPacketQueue = <<>> /\ delivered = <<>>
      /\ Len(delivered) = 0 /\ enableReadSize = 0
      /\ Sock = 0 /\ source = 0 /\ receiving = 0
      /\ \A n \in Connections : taken[n] = 0
  BY DEF Init, BufferInit, delivered, enableReadSize
<1>3. Room /\ Parsed
  BY <1>2, BufferAssumption DEF Init, BufferInit, Room, Parsed
<1>4. PICK from : from = [n \in 1 .. Len(served) + 1 |-> 0]
  OBVIOUS
<1>5. from \in Positions /\ \A n \in 1 .. Len(served) + 1 : from[n] = 0
  BY <1>2, <1>4 DEF Positions
<1>6. Aligned(from)
  <2>1. \A n \in 0 .. Len(served) : n + 1 \in 1 .. Len(served) + 1
    BY <1>1
  <2> QED
    BY <1>2, <1>5, <2>1 DEF Aligned
<1>7. InOrder(from)
  <2>1. \A n \in Connections : from[n] = 0 /\ from[n + 1] = 0 /\ from[n + 1] - from[n] = 0
    BY <1>1, <1>5
  <2>2. from[1] = 0 /\ from[Len(served) + 1] = Len(delivered)
    BY <1>1, <1>2, <1>5
  <2>3. \A n \in Connections : 0 \in 0 .. Len(served[n].cuts) - 1 /\ Through(n, 0) = 0
    BY <1>1 DEF Through
  <2> QED
    BY <1>2, <2>1, <2>2, <2>3 DEF InOrder
<1> QED
  BY <1>2, <1>3, <1>5, <1>6, <1>7 DEF StreamInv, Lineage

(* If bytes are left, there is a next packet, and they begin with its size.   *)
LEMMA NextPacket ==
  ASSUME load \in Loads, NEW n \in Connections,
         NEW got \in 0 .. Len(served[n].cuts) - 1,
         Through(n, got) < Len(ServerStream(n))
  PROVE  /\ got + 1 \in 0 .. Len(served[n].cuts) - 1
         /\ Through(n, got) \in Nat /\ Through(n, got + 1) \in Nat
         /\ Through(n, got + 1) - Through(n, got) \in HeaderSize .. MaxPacketSize
         /\ Through(n, got + 1) - Through(n, got)
              = ToInt16[ServerStream(n)[Through(n, got) + 1],
                        ServerStream(n)[Through(n, got) + 2]]
<1>1. PICK cuts, bytes : cuts = served[n].cuts /\ bytes = served[n].bytes
  OBVIOUS
<1>2. WellFormed(served[n])
  BY ServedTypes
<1>3. /\ cuts \in Seq(Nat) /\ cuts # <<>> /\ cuts[Len(cuts)] = Len(bytes)
      /\ \A k \in 1 .. Len(cuts) - 1 :
           /\ cuts[k + 1] - cuts[k] \in HeaderSize .. MaxPacketSize
           /\ cuts[k + 1] - cuts[k] = ToInt16[bytes[cuts[k] + 1], bytes[cuts[k] + 2]]
  BY <1>1, <1>2 DEF WellFormed
<1>4. \A k \in Int : Through(n, k) = cuts[k + 1]
  BY <1>1 DEF Through
<1>5. /\ Len(cuts) \in Nat /\ Len(cuts) # 0 /\ got \in 0 .. Len(cuts) - 1
      /\ ServerStream(n) = bytes /\ got \in Int
  <2>1. Len(cuts) \in Nat /\ Len(cuts) # 0
    BY <1>3, EmptySeq, LenProperties
  <2> QED
    BY <1>1, <2>1 DEF ServerStream
<1>6. cuts[got + 1] < Len(bytes) /\ Len(bytes) \in Nat
  <2>1. Through(n, got) < Len(bytes) /\ Len(bytes) \in Nat
    BY <1>5, ServedTypes
  <2> QED
    BY <1>4, <1>5, <2>1
<1>7. got + 1 # Len(cuts)
  <2>1. ASSUME got + 1 = Len(cuts) PROVE FALSE
    <3>1. cuts[got + 1] = Len(bytes)
      BY <1>3, <2>1, Zenon
    <3> QED
      BY <1>6, <3>1
  <2> QED
    BY <2>1
<1>8. got + 1 \in 1 .. Len(cuts) - 1 /\ (got + 1) + 1 \in 1 .. Len(cuts)
  BY <1>5, <1>7
<1>9. PICK k : k = got + 1
  OBVIOUS
<1>10. k \in 1 .. Len(cuts) - 1 /\ k \in 1 .. Len(cuts) /\ k + 1 \in 1 .. Len(cuts)
  BY <1>5, <1>8, <1>9
<1>11. cuts[k] \in Nat /\ cuts[k + 1] \in Nat
  BY <1>3, <1>10, ElementOfSeq
<1>12. Through(n, got) = cuts[k] /\ Through(n, k) = cuts[k + 1]
  <2>1. Through(n, got) = cuts[got + 1]
    BY <1>4, <1>5
  <2>2. k \in Int
    BY <1>5, <1>9
  <2> QED
    BY <1>4, <1>9, <2>1, <2>2
<1>13. k \in 0 .. Len(served[n].cuts) - 1
  BY <1>1, <1>5, <1>10
<1> QED
  BY <1>3, <1>5, <1>9, <1>10, <1>11, <1>12, <1>13

LEMMA ThroughTypes ==
  ASSUME load \in Loads, NEW n \in Connections
  PROVE  /\ Through(n, 0) = 0
         /\ \A k \in 0 .. Len(served[n].cuts) - 1 : Through(n, k) \in Nat
<1>1. PICK cuts : cuts = served[n].cuts
  OBVIOUS
<1>2. cuts \in Seq(Nat) /\ cuts[1] = 0
  BY <1>1, ServedTypes DEF WellFormed
<1>3. ASSUME NEW k \in 0 .. Len(cuts) - 1 PROVE cuts[k + 1] \in Nat
  <2>1. k + 1 \in 1 .. Len(cuts)
    BY <1>2
  <2> QED
    BY <1>2, <2>1, ElementOfSeq
<1> QED
  BY <1>1, <1>2, <1>3 DEF Through

(* The numbers of the alignment.                                              *)
LEMMA UnreadIsPacket ==
  ASSUME BufferTypeOK, ReaderTypes, Lineage, enableReadSize > 0,
         NEW from \in Positions, InOrder(from), Aligned(from),
         NEW got, got = from[source + 1] - from[source]
  PROVE  /\ source \in Connections /\ got \in 0 .. Len(served[source].cuts) - 1
         /\ got + 1 \in 0 .. Len(served[source].cuts) - 1
         /\ Through(source, got) \in Nat /\ Through(source, got + 1) \in Nat
         /\ enableReadSize = taken[source] - Through(source, got)
         /\ \A i \in 1 .. enableReadSize :
               Unread[i] = ServerStream(source)[Through(source, got) + i]
         /\ Through(source, got + 1) - Through(source, got) \in HeaderSize .. MaxPacketSize
         /\ enableReadSize >= HeaderSize =>
               packetDataSize = Through(source, got + 1) - Through(source, got)
<1>1. source \in Connections
  <2>1. source # 0 /\ source <= Sock /\ Sock \in {0} \cup Connections
    BY DEF Aligned, Lineage, ReaderTypes
  <2>2. Connections = 1 .. Len(served) /\ Len(served) \in Nat
    BY ServedTypes DEF ReaderTypes
  <2> QED
    BY <2>1, <2>2 DEF Lineage
<1>2. /\ enableReadSize = taken[source] - Through(source, got)
      /\ \A i \in 1 .. enableReadSize :
            Unread[i] = ServerStream(source)[Through(source, got) + i]
  <2>1. source # 0
    BY DEF Aligned
  <2> QED
    BY <2>1 DEF Aligned
<1>3. got \in 0 .. Len(served[source].cuts) - 1
  BY <1>1 DEF InOrder
<1>4. Through(source, got) \in Nat
  <2>1. served[source].cuts \in Seq(Nat)
    BY <1>1, ServedTypes DEF ReaderTypes, WellFormed
  <2>2. got + 1 \in 1 .. Len(served[source].cuts)
    BY <1>3, <2>1
  <2> QED
    BY <2>1, <2>2 DEF Through
<1>5. /\ taken[source] \in Nat /\ taken[source] <= Len(ServerStream(source))
      /\ Len(ServerStream(source)) \in Nat
  BY <1>1, ServedTypes DEF ReaderTypes
<1>6. enableReadSize \in Nat
  BY UnreadBytes
<1>7. Through(source, got) < Len(ServerStream(source))
  BY <1>2, <1>4, <1>5, <1>6
<1>8. /\ got + 1 \in 0 .. Len(served[source].cuts) - 1
      /\ Through(source, got + 1) \in Nat
      /\ Through(source, got + 1) - Through(source, got) \in HeaderSize .. MaxPacketSize
      /\ Through(source, got + 1) - Through(source, got)
              = ToInt16[ServerStream(source)[Through(source, got) + 1],
                        ServerStream(source)[Through(source, got) + 2]]
  BY <1>1, <1>3, <1>7, NextPacket DEF ReaderTypes
<1>9. ASSUME enableReadSize >= HeaderSize
      PROVE  packetDataSize = Through(source, got + 1) - Through(source, got)
  <2>1. 1 \in 1 .. enableReadSize /\ 2 \in 1 .. enableReadSize
    BY <1>6, <1>9, BufferAssumption
  <2>2. Unread[1] = PacketData[ReadPos + 1 - 1] /\ Unread[2] = PacketData[ReadPos + 2 - 1]
    BY <2>1, UnreadBytes
  <2>3. ReadPos + 1 - 1 = ReadPos /\ ReadPos + 2 - 1 = ReadPos + 1
    BY DEF BufferTypeOK
  <2>4. packetDataSize = ToInt16[Unread[1], Unread[2]]
    BY <2>2, <2>3 DEF packetDataSize
  <2> QED
    BY <1>2, <1>8, <2>1, <2>4
<1> QED
  BY <1>1, <1>2, <1>3, <1>4, <1>8, <1>9
-----------------------------------------------------------------------------
(* The steps that leave the stream alone.                                     *)
Calm ==
  /\ UNCHANGED <<bufferVars, load, taken, source, intact, RecvPacketQueue, processed>>
  /\ pc'.read # "parse" => pc.read # "parse"
  /\ Sock' \in Nat /\ Sock <= Sock' /\ receiving' \in {receiving, Sock}

LEMMA CalmKeeps ==
  ASSUME StreamInv, Calm
  PROVE  StreamInv'
<1>1. /\ UNCHANGED <<delivered, served, Connections, enableReadSize, Unread, Positions>>
      /\ Room' = Room /\ (Parsed => Parsed')
  BY DEF Calm, bufferVars, delivered, served, Connections, enableReadSize, Unread, Positions,
         Room, Parsed
<1>2. UNCHANGED <<taken, source, intact, RecvPacketQueue, processed>>
  BY DEF Calm
<1>3. Lineage'
  BY <1>1, <1>2 DEF Calm, StreamInv, Lineage
<1>4. ASSUME NEW from, InOrder(from), Aligned(from)
      PROVE  InOrder(from)' /\ Aligned(from)'
  BY <1>1, <1>2, <1>4 DEF InOrder, Aligned, Through, Packet, ServerStream
<1> QED
  BY <1>1, <1>2, <1>3, <1>4 DEF StreamInv

LEMMA CalmSteps ==
  ASSUME ReaderTypes, StreamInv, Next,
         ~ Receives, ~ ParsesOne, ~ ParseEnds, ~ BackGroundProcess
  PROVE  Calm
<1>1. Sock \in Nat /\ pc \in [{"ui", "read", "send"} -> Places]
  BY DEF StreamInv, Lineage, ReaderTypes
<1> USE DEF Calm, At, Goto, Dies, Places, netVars, formVars, recvVars, MethodFails, InQueue
<1>2. CASE Reads
  <2> USE DEF ReadLoops, ReceiveStarts, ReceiveInterrupted, ParseFails, CloseTests, Closes,
              SetsButton, SetsDisconnect, Clears
  <2>1. CASE ReadLoops BY <1>1, <2>1
  <2>2. CASE ReceiveStarts
    <3>1. CASE Dies
      BY <1>1, <3>1
    <3>2. CASE Goto("read", "closeTest") /\ UNCHANGED <<bufferVars, netVars, formVars, recvVars>>
      BY <1>1, <2>2, <3>2
    <3>3. CASE /\ receiving' = Sock /\ Goto("read", "receiving")
               /\ UNCHANGED <<bufferVars, Sock, taken, formVars, recvVars>>
      BY <1>1, <2>2, <3>3
    <3> QED
      BY <2>2, <3>1, <3>2, <3>3
  <2>3. CASE ReceiveInterrupted BY <1>1, <2>3
  <2>4. CASE ParseFails BY <1>1, <2>4
  <2>5. CASE CloseTests("read", "setDisconnectd") BY <1>1, <2>5
  <2>6. CASE Closes("read", "setDisconnectd") BY <1>1, <2>6
  <2>7. CASE SetsButton("read") BY <1>1, <2>7
  <2>8. CASE SetsDisconnect("read") BY <1>1, <2>8
  <2>9. CASE Clears("read", "loop") BY <1>1, <2>9
  <2>10. CASE MethodFails("read") BY <1>1, <2>10
  <2> QED
    BY <1>2, <2>1, <2>2, <2>3, <2>4, <2>5, <2>6, <2>7, <2>8, <2>9, <2>10 DEF Reads
<1>3. CASE ConnectionEnds
  BY <1>1, <1>3 DEF ConnectionEnds
<1>4. CASE SendsOn
  <2> USE DEF SendLoops, Counts, Dequeues, SendTests, Sends, SendFails
  <2>1. CASE SendLoops BY <1>1, <2>1
  <2>2. CASE Counts BY <1>1, <2>2
  <2>3. CASE Dequeues BY <1>1, <2>3
  <2>4. CASE MethodFails("send") BY <1>1, <2>4
  <2>5. CASE SendTests BY <1>1, <2>5
  <2>6. CASE Sends BY <1>1, <2>6
  <2>7. CASE SendFails BY <1>1, <2>7
  <2> QED
    BY <1>4, <2>1, <2>2, <2>3, <2>4, <2>5, <2>6, <2>7 DEF SendsOn
<1>5. CASE Handles
  <2> USE DEF Connects, ConnectReturns, DisablesConnect, EnablesDisconnect, Enqueues,
              CloseTests, Closes, SetsButton, SetsDisconnect, Clears, HandlerAbandoned,
              AfterClose
  <2>1. CASE Connects BY <1>1, <2>1
  <2>2. CASE DisablesConnect BY <1>1, <2>2
  <2>3. CASE EnablesDisconnect BY <1>1, <2>3
  <2>4. CASE Enqueues BY <1>1, <2>4
  <2>5. CASE ConnectReturns BY <1>1, <2>5
  <2>6. CASE SetsButton("ui") BY <1>1, <2>6
  <2>7. CASE SetsDisconnect("ui") BY <1>1, <2>7
  <2>8. CASE Clears("ui", "closeTest") BY <1>1, <2>8
  <2>9. CASE CloseTests("ui", AfterClose) BY <1>1, <2>9
  <2>10. CASE Closes("ui", AfterClose) BY <1>1, <2>10
  <2>11. CASE MethodFails("ui") \/ HandlerAbandoned BY <1>1, <2>11
  <2> QED
    BY <1>5, <2>1, <2>2, <2>3, <2>4, <2>5, <2>6, <2>7, <2>8, <2>9, <2>10, <2>11
    DEF Handles
<1>6. CASE ConnectClick
  BY <1>1, <1>6 DEF ConnectClick
<1>7. CASE DisconnectClick \/ PostSendPacket \/ FormClosing
  BY <1>1, <1>7 DEF DisconnectClick, PostSendPacket, FormClosing
<1> QED
  BY <1>2, <1>3, <1>4, <1>5, <1>6, <1>7 DEF Next, Clicks

(* The user interface takes a packet from one sequence to the other.          *)
LEMMA ProcessStep ==
  ASSUME StreamInv, BackGroundProcess
  PROVE  StreamInv'
<1>1. /\ processed \in Seq(Seq(Byte)) /\ RecvPacketQueue \in Seq(Seq(Byte))
      /\ RecvPacketQueue # <<>>
      /\ processed' = Append(processed, Head(RecvPacketQueue))
      /\ RecvPacketQueue' = Tail(RecvPacketQueue)
  BY DEF StreamInv, BackGroundProcess
<1>2. /\ processed' \in Seq(Seq(Byte)) /\ RecvPacketQueue' \in Seq(Seq(Byte))
      /\ delivered' = delivered
  <2>1. PICK p, q : p = processed /\ q = RecvPacketQueue
    OBVIOUS
  <2>2. /\ p \in Seq(Seq(Byte)) /\ q \in Seq(Seq(Byte)) /\ q # <<>>
    BY <1>1, <2>1
  <2>3. Append(p, Head(q)) \o Tail(q) = p \o q
    BY <2>2
  <2> QED
    BY <1>1, <2>1, <2>2, <2>3 DEF delivered
<1>3. /\ UNCHANGED <<bufferVars, netVars, load, source, intact, pc>>
  BY DEF BackGroundProcess, formVars
<1>4. /\ UNCHANGED <<served, Connections, enableReadSize, Unread, Positions>>
      /\ Room' = Room /\ Parsed' = Parsed /\ Lineage' = Lineage
  BY <1>2, <1>3 DEF bufferVars, netVars, served, Connections, enableReadSize, Unread,
                    Positions, Room, Parsed, Lineage
<1>5. ASSUME NEW from, InOrder(from), Aligned(from)
      PROVE  InOrder(from)' /\ Aligned(from)'
  BY <1>2, <1>3, <1>4, <1>5 DEF netVars, InOrder, Aligned, Through, Packet, ServerStream
<1> QED
  BY <1>2, <1>3, <1>4, <1>5 DEF StreamInv

(* When the inner loop ends, what is left is less than a packet.              *)
LEMMA ParseEndsStep ==
  ASSUME BufferTypeOK, ReaderTypes, StreamInv, ParseEnds
  PROVE  StreamInv'
<1>1. /\ UNCHANGED <<bufferVars, netVars, load, source, intact, RecvPacketQueue, processed>>
      /\ ~ PacketReady \/ packetDataSize = 0
  BY DEF ParseEnds, formVars, recvVars
<1>2. /\ UNCHANGED <<served, Connections, enableReadSize, Unread, delivered, Positions>>
      /\ Room' = Room /\ Lineage' = Lineage
  BY <1>1 DEF bufferVars, netVars, served, Connections, enableReadSize, Unread, delivered,
              Positions, Room, Lineage
<1>3. ASSUME NEW from, InOrder(from), Aligned(from)
      PROVE  InOrder(from)' /\ Aligned(from)'
  BY <1>1, <1>2, <1>3 DEF netVars, InOrder, Aligned, Through, Packet, ServerStream
<1>4. ASSUME NEW from \in Positions, InOrder(from), Aligned(from)
      PROVE  enableReadSize < MaxPacketSize
  <2>1. CASE enableReadSize = 0
    BY <2>1, BufferAssumption
  <2>2. CASE enableReadSize > 0
    <3>1. PICK got : got = from[source + 1] - from[source]
      OBVIOUS
    <3>2. PICK size \in HeaderSize .. MaxPacketSize :
            enableReadSize >= HeaderSize => packetDataSize = size
      BY <1>4, <2>2, <3>1, UnreadIsPacket DEF StreamInv
    <3>3. enableReadSize \in Nat
      BY UnreadBytes
    <3> QED
      BY <1>1, <3>2, <3>3, BufferAssumption DEF PacketReady
  <2> QED
    BY <2>1, <2>2, UnreadBytes
<1>5. intact => Parsed'
  BY <1>2, <1>4 DEF Parsed, StreamInv
<1> QED
  BY <1>1, <1>2, <1>3, <1>5 DEF StreamInv
(* A packet is taken out: the next one of the connection, behind those that   *)
(* were delivered before.                                                     *)
LEMMA DeliverNext ==
  ASSUME ReaderTypes, StreamInv, NEW from \in Positions, InOrder(from),
         \A n \in source .. Len(served) : from[n + 1] = Len(delivered),
         source \in Connections,
         NEW got, got = from[source + 1] - from[source],
         got + 1 \in 0 .. Len(served[source].cuts) - 1,
         Through(source, got + 1) <= taken[source],
         UNCHANGED <<load, taken>>,
         delivered' = Append(delivered, Packet(source, got + 1)),
         NEW next,
         next = [n \in 1 .. Len(served) + 1 |-> IF n <= source THEN from[n] ELSE from[n] + 1]
  PROVE  next \in Positions' /\ InOrder(next)'
<1>1. /\ Connections = 1 .. Len(served) /\ Len(served) \in Nat
      /\ source \in 1 .. Len(served) /\ source \in Nat
  BY ServedTypes DEF ReaderTypes, StreamInv, Lineage
<1>2. /\ Len(delivered) \in Nat /\ Len(delivered') = Len(delivered) + 1
      /\ \A i \in 1 .. Len(delivered) : delivered'[i] = delivered[i]
      /\ delivered'[Len(delivered) + 1] = Packet(source, got + 1)
  <2>1. PICK p, q : p = processed /\ q = RecvPacketQueue
    OBVIOUS
  <2>2. p \in Seq(Seq(Byte)) /\ q \in Seq(Seq(Byte))
    BY <2>1 DEF StreamInv
  <2>3. PICK d \in Seq(Seq(Byte)) : d = p \o q
    BY <2>2, ConcatProperties
  <2>4. delivered = d
    BY <2>1, <2>3 DEF delivered
  <2> QED
    BY <2>4, AppendProperties
<1>3. UNCHANGED <<served, Connections>>
  BY DEF served, Connections
<1>4. \A n \in 1 .. Len(served) + 1 : from[n] \in 0 .. Len(delivered)
  BY DEF Positions
<1>5. \A n \in 1 .. Len(served) + 1 : next[n] = IF n <= source THEN from[n] ELSE from[n] + 1
  OBVIOUS
<1>6. next \in Positions'
  <2>1. PICK d, e : d = Len(delivered) /\ e = Len(delivered')
    OBVIOUS
  <2>2. d \in Nat /\ e = d + 1
    BY <1>2, <2>1
  <2>3. ASSUME NEW n \in 1 .. Len(served) + 1 PROVE next[n] \in 0 .. Len(delivered')
    <3>1. from[n] \in 0 .. d
      BY <1>4, <2>1
    <3>2. next[n] = from[n] \/ next[n] = from[n] + 1
      BY <1>5
    <3> QED
      BY <2>1, <2>2, <3>1, <3>2
  <2> QED
    BY <1>3, <2>3 DEF Positions
<1>7. next[1] = 0 /\ next[Len(served) + 1] = Len(delivered')
  <2>1. /\ 1 <= source /\ ~ (Len(served) + 1 <= source)
        /\ 1 \in 1 .. Len(served) + 1 /\ Len(served) + 1 \in 1 .. Len(served) + 1
    BY <1>1
  <2>2. from[1] = 0 /\ from[Len(served) + 1] = Len(delivered)
    BY DEF InOrder
  <2> QED
    BY <1>2, <1>5, <2>1, <2>2
<1>8. ASSUME NEW n \in Connections
      PROVE  /\ next[n + 1] - next[n] \in 0 .. Len(served[n].cuts) - 1
             /\ Through(n, next[n + 1] - next[n]) <= taken[n]
             /\ \A k \in 1 .. next[n + 1] - next[n] :
                   delivered'[next[n] + k] = Packet(n, k)
  <2>1. PICK m : m = n + 1
    OBVIOUS
  <2>2. /\ n \in 1 .. Len(served) + 1 /\ m \in 1 .. Len(served) + 1
        /\ n \in Nat /\ m = n + 1
    BY <1>1, <2>1
  <2> SUFFICES /\ next[m] - next[n] \in 0 .. Len(served[n].cuts) - 1
               /\ Through(n, next[m] - next[n]) <= taken[n]
               /\ \A k \in 1 .. next[m] - next[n] : delivered'[next[n] + k] = Packet(n, k)
    BY <2>1
  <2>3. /\ from[n] \in 0 .. Len(delivered) /\ from[m] \in 0 .. Len(delivered)
        /\ next[n] = IF n <= source THEN from[n] ELSE from[n] + 1
        /\ next[m] = IF m <= source THEN from[m] ELSE from[m] + 1
    BY <1>4, <1>5, <2>2
  <2>4. /\ from[m] - from[n] \in 0 .. Len(served[n].cuts) - 1
        /\ Through(n, from[m] - from[n]) <= taken[n]
        /\ \A k \in 1 .. from[m] - from[n] : delivered[from[n] + k] = Packet(n, k)
    BY <2>1 DEF InOrder
  <2>5. \A k \in 1 .. from[m] - from[n] : delivered'[from[n] + k] = Packet(n, k)
    <3>1. ASSUME NEW k \in 1 .. from[m] - from[n] PROVE from[n] + k \in 1 .. Len(delivered)
      <4>1. PICK a, b, d : a = from[n] /\ b = from[m] /\ d = Len(delivered)
        OBVIOUS
      <4>2. a \in Nat /\ b \in 0 .. d /\ d \in Nat /\ k \in 1 .. b - a
        BY <1>2, <2>3, <4>1
      <4>3. a + k \in 1 .. d
        BY <4>2
      <4> QED
        BY <4>1, <4>3
    <3> QED
      BY <1>2, <2>4, <3>1
  <2>6. CASE n < source
    <3>1. next[n] = from[n] /\ next[m] = from[m]
      BY <1>1, <2>2, <2>3, <2>6
    <3> QED
      BY <2>4, <2>5, <3>1
  <2>7. CASE n > source
    <3>1. from[m] = Len(delivered) /\ from[n] = Len(delivered)
      <4>1. /\ n \in source .. Len(served) /\ n - 1 \in source .. Len(served)
            /\ (n - 1) + 1 = n
        BY <1>1, <2>2, <2>7
      <4> QED
        BY <2>1, <4>1
    <3>2. next[m] = Len(delivered) + 1 /\ next[n] = Len(delivered) + 1
      BY <1>1, <2>2, <2>3, <2>7, <3>1
    <3>3. next[m] - next[n] = 0 /\ from[m] - from[n] = 0
      BY <1>2, <3>1, <3>2
    <3>4. 0 \in 0 .. Len(served[n].cuts) - 1 /\ Through(n, 0) <= taken[n]
      BY <2>4, <3>3
    <3>5. \A k \in 1 .. next[m] - next[n] : FALSE
      BY <3>3
    <3> QED
      BY <3>3, <3>4, <3>5
  <2>8. CASE n = source
    <3>1. from[m] = Len(delivered) /\ got = from[m] - from[n]
      <4>1. source \in source .. Len(served)
        BY <1>1
      <4> QED
        BY <2>1, <2>8, <4>1
    <3>2. next[n] = from[n] /\ next[m] = Len(delivered) + 1
      <4>1. n <= source /\ ~ (m <= source)
        BY <1>1, <2>2, <2>8
      <4> QED
        BY <2>3, <3>1, <4>1
    <3>3. next[m] - next[n] = got + 1 /\ got \in Nat /\ from[n] + (got + 1) = Len(delivered) + 1
      <4>1. from[n] \in Nat /\ Len(delivered) \in Nat /\ got \in Nat
        BY <1>2, <2>3, <2>4, <3>1
      <4>2. got = Len(delivered) - from[n]
        BY <3>1
      <4> QED
        BY <3>2, <4>1, <4>2
    <3>4. ASSUME NEW k \in 1 .. got + 1 PROVE delivered'[from[n] + k] = Packet(n, k)
      <4>1. CASE k = got + 1
        BY <1>2, <2>8, <3>3, <4>1
      <4>2. CASE k # got + 1
        <5>1. k \in 1 .. from[m] - from[n]
          BY <3>1, <3>3, <4>2
        <5> QED
          BY <2>5, <5>1
      <4> QED
        BY <4>1, <4>2
    <3> QED
      BY <2>8, <3>2, <3>3, <3>4
  <2>9. n < source \/ n > source \/ n = source
    BY <1>1, <2>2
  <2> QED
    BY <2>6, <2>7, <2>8, <2>9
<1>9. \A n, k : Through(n, k)' = Through(n, k) /\ Packet(n, k)' = Packet(n, k)
  BY <1>3 DEF Through, Packet, ServerStream
<1>10. InOrder(next)'
  BY <1>3, <1>7, <1>8, <1>9 DEF InOrder
<1> QED
  BY <1>6, <1>10

LEMMA ParsesOneStep ==
  ASSUME BufferTypeOK, ReaderTypes, StreamInv, ParsesOne
  PROVE  StreamInv'
<1>1. /\ Read /\ enableReadSize \in Nat /\ enableReadSize >= HeaderSize /\ enableReadSize > 0
      /\ Unread \in Seq(Byte) /\ Len(Unread) = enableReadSize
      /\ RecvPacketQueue' = Append(RecvPacketQueue, SubSeq(Unread, 1, packetDataSize))
      /\ UNCHANGED <<netVars, load, processed, source, intact, pc>>
  BY UnreadBytes, BufferAssumption
  DEF ParsesOne, Read, PacketReady, formVars, completePacketData
<1>2. /\ packetDataSize \in 1 .. enableReadSize
      /\ Unread' = SubSeq(Unread, packetDataSize + 1, Len(Unread))
      /\ WritePos' = WritePos /\ ReadPos' = ReadPos + packetDataSize
      /\ enableReadSize' = enableReadSize - packetDataSize
  BY <1>1, ReadTakes DEF Read, BufferTypeOK, enableReadSize
<1>3. SubSeq(Unread, 1, packetDataSize) \in Seq(Byte)
  BY <1>1, <1>2
<1>4. /\ RecvPacketQueue' \in Seq(Seq(Byte)) /\ processed' \in Seq(Seq(Byte))
      /\ delivered' = Append(delivered, SubSeq(Unread, 1, packetDataSize))
  <2>1. PICK p, q, x : /\ p = processed /\ q = RecvPacketQueue
                       /\ x = SubSeq(Unread, 1, packetDataSize)
    OBVIOUS
  <2>2. p \in Seq(Seq(Byte)) /\ q \in Seq(Seq(Byte)) /\ x \in Seq(Byte)
    BY <1>3, <2>1 DEF StreamInv
  <2>3. Append(q, x) \in Seq(Seq(Byte)) /\ p \o Append(q, x) = Append(p \o q, x)
    BY <2>2
  <2> QED
    BY <1>1, <2>1, <2>2, <2>3 DEF delivered
<1>5. UNCHANGED <<served, Connections, taken, Sock, receiving, source, intact>>
  BY <1>1 DEF netVars, served, Connections
<1>6. Lineage'
  BY <1>5 DEF StreamInv, Lineage
<1>7. intact => Room' /\ Parsed'
  BY <1>1, <1>2 DEF StreamInv, Room, Parsed, ParsesOne, At
<1>8. ASSUME NEW from \in Positions, InOrder(from), Aligned(from)
      PROVE  \E next \in Positions' : InOrder(next)' /\ Aligned(next)'
  <2>1. PICK got : got = from[source + 1] - from[source]
    OBVIOUS
  <2>2. PICK begin, end : begin = Through(source, got) /\ end = Through(source, got + 1)
    OBVIOUS
  <2>3. /\ source \in Connections
        /\ got \in 0 .. Len(served[source].cuts) - 1
        /\ got + 1 \in 0 .. Len(served[source].cuts) - 1
        /\ begin \in Nat /\ end \in Nat
        /\ enableReadSize = taken[source] - begin
        /\ \A i \in 1 .. enableReadSize : Unread[i] = ServerStream(source)[begin + i]
        /\ packetDataSize = end - begin
    BY <1>1, <1>8, <2>1, <2>2, UnreadIsPacket DEF StreamInv
  <2>4. taken[source] \in Nat /\ taken[source] <= Len(ServerStream(source))
        /\ ServerStream(source) \in Seq(Byte) /\ Len(ServerStream(source)) \in Nat
    BY <2>3, ServedTypes DEF ReaderTypes
  <2>5. end <= taken[source]
    <3>1. PICK t : t = taken[source]
      OBVIOUS
    <3>2. packetDataSize <= enableReadSize
      BY <1>2
    <3>3. t \in Nat /\ end - begin <= t - begin
      BY <2>3, <2>4, <3>1, <3>2
    <3>4. end <= t
      BY <2>3, <3>3
    <3> QED
      BY <3>1, <3>4
  <2>6. SubSeq(Unread, 1, packetDataSize) = Packet(source, got + 1)
    <3>1. PICK u, b, n : u = Unread /\ b = ServerStream(source) /\ n = packetDataSize
      OBVIOUS
    <3>2. /\ u \in Seq(Byte) /\ n \in 1 .. Len(u) /\ n = end - begin
          /\ b \in Seq(Byte) /\ end <= Len(b)
          /\ \A i \in 1 .. n : u[i] = b[begin + i]
      <4>1. n \in 1 .. enableReadSize /\ enableReadSize \in Nat /\ Len(u) = enableReadSize
        BY <1>1, <1>2, <3>1
      <4>2. \A i \in 1 .. n : i \in 1 .. enableReadSize
        BY <4>1
      <4>3. \A i \in 1 .. enableReadSize : u[i] = b[begin + i]
        BY <2>3, <3>1
      <4>4. u \in Seq(Byte) /\ b \in Seq(Byte) /\ n = end - begin
        BY <1>1, <2>3, <2>4, <3>1
      <4>5. end <= Len(b)
        BY <2>3, <2>4, <2>5, <3>1
      <4> QED
        BY <4>1, <4>2, <4>3, <4>4, <4>5
    <3>3. SubSeq(u, 1, n) = [i \in 1 .. n |-> u[i]]
      BY <3>2
    <3>4. SubSeq(b, begin + 1, end) = [i \in 1 .. n |-> b[begin + i]]
      <4>1. begin \in Nat /\ end \in Nat /\ n = end - begin
        BY <2>3, <3>2
      <4>2. SubSeq(b, begin + 1, end) = [i \in 1 .. end - begin |-> b[begin + 1 + i - 1]]
        BY <4>1
      <4>3. \A i \in 1 .. n : begin + 1 + i - 1 = begin + i
        BY <4>1
      <4> QED
        BY <4>1, <4>2, <4>3
    <3>5. (got + 1) - 1 = got
      BY <2>3
    <3> QED
      BY <2>2, <3>1, <3>2, <3>3, <3>4, <3>5 DEF Packet
  <2>7. PICK next :
          next = [n \in 1 .. Len(served) + 1 |-> IF n <= source THEN from[n] ELSE from[n] + 1]
    OBVIOUS
  <2>8. /\ Connections = 1 .. Len(served) /\ Len(served) \in Nat
        /\ source \in 1 .. Len(served) /\ source \in Nat
    BY <2>3, ServedTypes DEF ReaderTypes, StreamInv, Lineage
  <2>9. \A n \in source .. Len(served) : from[n + 1] = Len(delivered)
    BY <1>8 DEF Aligned
  <2>10. next \in Positions' /\ InOrder(next)'
    BY <1>1, <1>4, <1>5, <1>8, <2>1, <2>2, <2>3, <2>5, <2>6, <2>7, <2>9, DeliverNext
  <2>11. /\ next[source] = from[source] /\ next[source + 1] = from[source + 1] + 1
         /\ next[source + 1] - next[source] = got + 1
    <3>1. /\ source \in 1 .. Len(served) + 1 /\ source + 1 \in 1 .. Len(served) + 1
          /\ source <= source /\ ~ (source + 1 <= source)
      BY <2>8
    <3>2. next[source] = from[source] /\ next[source + 1] = from[source + 1] + 1
      BY <2>7, <3>1
    <3>3. from[source] \in Int /\ from[source + 1] \in Int
      BY <1>8, <3>1 DEF Positions
    <3> QED
      BY <2>1, <3>2, <3>3
  <2>12. \A n \in source .. Len(served) : next[n + 1] = Len(delivered')
    <3>1. Len(delivered') = Len(delivered) + 1
      <4>1. delivered \in Seq(Seq(Byte))
        <5>1. processed \in Seq(Seq(Byte)) /\ RecvPacketQueue \in Seq(Seq(Byte))
          BY DEF StreamInv
        <5> QED
          BY <5>1, ConcatProperties DEF delivered
      <4> QED
        BY <1>3, <1>4, <4>1, AppendProperties
    <3>2. ASSUME NEW n \in source .. Len(served)
          PROVE  n + 1 \in 1 .. Len(served) + 1 /\ ~ (n + 1 <= source)
      BY <2>8
    <3> QED
      BY <2>7, <2>9, <3>1, <3>2
  <2>13. /\ enableReadSize' = taken[source] - end
         /\ \A i \in 1 .. enableReadSize' : Unread'[i] = ServerStream(source)[end + i]
    <3>1. enableReadSize' = taken[source] - end
      <4>1. /\ enableReadSize' = enableReadSize - packetDataSize
            /\ enableReadSize = taken[source] - begin /\ packetDataSize = end - begin
            /\ taken[source] \in Nat /\ begin \in Nat /\ end \in Nat
        BY <1>2, <2>3, <2>4
      <4> QED
        BY <4>1
    <3>2. PICK u, n : u = Unread /\ n = packetDataSize
      OBVIOUS
    <3>3. /\ u \in Seq(Byte) /\ n \in 1 .. Len(u) /\ n = end - begin
          /\ Len(u) = enableReadSize /\ enableReadSize' = Len(u) - n
          /\ Unread' = SubSeq(u, n + 1, Len(u))
          /\ \A i \in 1 .. Len(u) : u[i] = ServerStream(source)[begin + i]
      BY <1>1, <1>2, <2>3, <3>2
    <3>4. ASSUME NEW i \in 1 .. Len(u) - n
          PROVE  SubSeq(u, n + 1, Len(u))[i] = ServerStream(source)[end + i]
      <4>1. i + n \in 1 .. Len(u) /\ begin + (i + n) = end + i
        BY <2>3, <3>3
      <4>2. SubSeq(u, n + 1, Len(u))[i] = u[i + n]
        BY <3>3
      <4> QED
        BY <3>3, <4>1, <4>2
    <3> QED
      BY <3>1, <3>3, <3>4
  <2>14. Aligned(next)'
    <3>1. source # 0 /\ source' = source /\ Len(served') = Len(served) /\ taken' = taken
      BY <1>5, <2>8
    <3>2. \A n, k : Through(n, k)' = Through(n, k) /\ ServerStream(n)' = ServerStream(n)
      BY <1>5 DEF Through, ServerStream
    <3> QED
      BY <2>2, <2>11, <2>12, <2>13, <3>1, <3>2 DEF Aligned
  <2> QED
    BY <2>10, <2>14
<1> QED
  BY <1>4, <1>5, <1>6, <1>7, <1>8 DEF StreamInv
(* Bytes come in.  If they are kept, there is room for a packet afterwards,   *)
(* because what was left before is less than a packet.                        *)
LEMMA RoomAfterWrite ==
  ASSUME BufferTypeOK, NEW data \in Seq(Byte), Len(data) <= RecvSize, Write(data),
         Fits(data), enableReadSize < MaxPacketSize
  PROVE  Room'
<1>1. /\ Len(data) \in Nat /\ enableReadSize \in Nat /\ WritePos \in Nat
      /\ RecvSize \in Nat /\ MaxPacketSize \in Nat /\ BufferSize \in Nat
      /\ MaxPacketSize - 1 + RecvSize + MaxPacketSize <= BufferSize
  BY UnreadBytes, BufferAssumption, ClientAssumption DEF BufferTypeOK
<1>2. CASE NextFree(WritePos + Len(data)) /\ WritePos' = WritePos + Len(data)
  BY <1>2 DEF NextFree, Room
<1>3. CASE WritePos' = enableReadSize + Len(data)
  BY <1>1, <1>3 DEF Room
<1> QED
  BY <1>2, <1>3 DEF Write, BufferRelocate

LEMMA ReceivesStreamStep ==
  ASSUME BufferTypeOK, ReaderTypes, StreamInv, Receives
  PROVE  StreamInv'
<1>1. /\ receiving \in Connections /\ taken[receiving] \in Nat
      /\ ServerStream(receiving) \in Seq(Byte) /\ Len(ServerStream(receiving)) \in Nat
  BY ServedTypes DEF ReaderTypes, Receives, At
<1>2. PICK upto \in taken[receiving] + 1 .. Len(ServerStream(receiving)) :
        LET data == SubSeq(ServerStream(receiving), taken[receiving] + 1, upto)
        IN  /\ Len(data) <= RecvSize
            /\ taken' = [taken EXCEPT ![receiving] = upto]
            /\ Write(data)
            /\ intact' = (intact /\ Fits(data) /\
                          (source = receiving \/ enableReadSize = 0))
  BY DEF Receives
<1>3. PICK data : data = SubSeq(ServerStream(receiving), taken[receiving] + 1, upto)
  OBVIOUS
<1>4. /\ upto \in Nat /\ upto <= Len(ServerStream(receiving)) /\ taken[receiving] < upto
  BY <1>1
<1>5. /\ data \in Seq(Byte) /\ Len(data) = upto - taken[receiving]
      /\ \A i \in 1 .. Len(data) : data[i] = ServerStream(receiving)[taken[receiving] + i]
  <2>1. PICK b, m : b = ServerStream(receiving) /\ m = taken[receiving]
    OBVIOUS
  <2>2. b \in Seq(Byte) /\ m \in Nat /\ upto \in m + 1 .. Len(b)
    BY <1>1, <1>4, <2>1
  <2>3. SubSeq(b, m + 1, upto) = [i \in 1 .. upto - m |-> b[(m + 1) + i - 1]]
    BY <2>2
  <2>4. SubSeq(b, m + 1, upto) \in Seq(Byte) /\ Len(SubSeq(b, m + 1, upto)) = upto - m
    BY <2>2
  <2>5. \A i \in 1 .. upto - m : (m + 1) + i - 1 = m + i
    BY <2>2
  <2> QED
    BY <1>3, <2>1, <2>3, <2>4, <2>5
<1>6. /\ Len(data) <= RecvSize /\ Write(data)
      /\ taken' = [taken EXCEPT ![receiving] = upto]
      /\ intact' = (intact /\ Fits(data) /\ (source = receiving \/ enableReadSize = 0))
  BY <1>2, <1>3
<1>7. /\ UNCHANGED <<Sock, receiving, load, RecvPacketQueue, processed>>
      /\ source' = receiving /\ pc.read = "receiving" /\ pc' = [pc EXCEPT !["read"] = "parse"]
  BY DEF Receives, At, Goto, formVars
<1>8. UNCHANGED <<served, Connections, delivered, Positions>>
  BY <1>7 DEF served, Connections, delivered, Positions
<1>9. /\ BufferTypeOK' /\ Unread' = IF Fits(data) THEN Unread \o data ELSE Unread
      /\ Unread \in Seq(Byte) /\ Len(Unread) = enableReadSize /\ enableReadSize \in Nat
  BY <1>5, <1>6, WriteAppends, UnreadBytes
<1>10. Lineage'
  <2>1. /\ Sock' \in Nat /\ receiving' \in Nat /\ source' \in Nat
        /\ source' <= receiving' /\ receiving' <= Sock'
    BY <1>7 DEF StreamInv, Lineage
  <2>2. ASSUME NEW n \in Connections, n > receiving PROVE taken'[n] = 0
    <3>1. n \in Nat /\ receiving \in Nat /\ source \in Nat /\ source <= receiving
      BY ServedTypes DEF ReaderTypes, StreamInv, Lineage
    <3>2. n # receiving /\ n > source
      BY <2>2, <3>1
    <3> QED
      BY <1>6, <3>2 DEF StreamInv, Lineage, ReaderTypes
  <2> QED
    BY <1>7, <1>8, <2>1, <2>2 DEF Lineage
<1> SUFFICES ASSUME intact'
             PROVE  Room' /\ Parsed' /\ \E from \in Positions' : InOrder(from)' /\ Aligned(from)'
  BY <1>7, <1>10 DEF StreamInv
<1>11. intact /\ Fits(data) /\ (source = receiving \/ enableReadSize = 0)
  BY <1>6
<1>12. Room'
  BY <1>5, <1>6, <1>7, <1>11, RoomAfterWrite DEF StreamInv, Parsed
<1>13. Parsed'
  BY <1>7 DEF Parsed, ReaderTypes
<1>14. enableReadSize' = enableReadSize + Len(data)
  <2>1. Len(Unread') = enableReadSize'
    <3>1. BufferTypeOK' => (Len(Unread) = enableReadSize)'
      BY UnreadLength, PTL
    <3> QED
      BY <1>9, <3>1
  <2>2. Len(Unread \o data) = enableReadSize + Len(data)
    BY <1>5, <1>9, ConcatProperties
  <2> QED
    BY <1>9, <1>11, <2>1, <2>2
<1>15. PICK from \in Positions : InOrder(from) /\ Aligned(from)
  BY <1>11 DEF StreamInv
<1>16. \A n, k : Through(n, k)' = Through(n, k) /\ ServerStream(n)' = ServerStream(n)
                 /\ Packet(n, k)' = Packet(n, k)
  BY <1>8 DEF Through, ServerStream, Packet
<1>17. InOrder(from)'
  <2>1. ASSUME NEW n \in Connections PROVE Through(n, from[n + 1] - from[n]) <= taken'[n]
    <3>1. Through(n, from[n + 1] - from[n]) <= taken[n]
      BY <1>15 DEF InOrder
    <3>2. CASE n = receiving
      <4>1. from[n + 1] - from[n] \in 0 .. Len(served[n].cuts) - 1
        BY <1>15 DEF InOrder
      <4>2. Through(n, from[n + 1] - from[n]) \in Nat
        BY <4>1, ThroughTypes DEF ReaderTypes
      <4> QED
        BY <1>1, <1>4, <1>6, <3>1, <3>2, <4>2 DEF ReaderTypes
    <3>3. CASE n # receiving
      BY <1>6, <3>1, <3>3 DEF ReaderTypes
    <3> QED
      BY <3>2, <3>3
  <2> QED
    BY <1>8, <1>15, <1>16, <2>1 DEF InOrder
<1>18. /\ source \in Nat /\ receiving \in Nat /\ source <= receiving /\ receiving # 0
       /\ Connections = 1 .. Len(served) /\ Len(served) \in Nat
       /\ receiving \in 1 .. Len(served)
  BY <1>1, ServedTypes DEF StreamInv, Lineage, ReaderTypes
<1>19. \A n \in receiving .. Len(served) : from[n + 1] = Len(delivered)
  BY <1>15, <1>18 DEF Aligned
<1>20. PICK begin : begin = Through(receiving, from[receiving + 1] - from[receiving])
  OBVIOUS
<1>21. /\ begin \in Nat /\ enableReadSize = taken[receiving] - begin
       /\ \A i \in 1 .. enableReadSize : Unread[i] = ServerStream(receiving)[begin + i]
  <2>1. begin \in Nat
    <3>1. from[receiving + 1] - from[receiving] \in 0 .. Len(served[receiving].cuts) - 1
      BY <1>1, <1>15 DEF InOrder
    <3> QED
      BY <1>1, <1>20, <3>1, ThroughTypes DEF ReaderTypes
  <2>2. CASE source = receiving
    BY <1>15, <1>18, <1>20, <2>1, <2>2 DEF Aligned
  <2>3. CASE source # receiving
    <3>1. enableReadSize = 0 /\ taken[receiving] = 0
      BY <1>1, <1>11, <1>18, <2>3 DEF StreamInv, Lineage
    <3>2. from[receiving + 1] = Len(delivered) /\ from[receiving] = Len(delivered)
      <4>1. /\ receiving \in source .. Len(served) /\ receiving - 1 \in source .. Len(served)
            /\ (receiving - 1) + 1 = receiving
        BY <1>18, <2>3
      <4> QED
        BY <1>15, <4>1 DEF Aligned
    <3>3. from[receiving + 1] - from[receiving] = 0
      <4>1. from[receiving] \in Int
        BY <1>15, <1>18 DEF Positions
      <4> QED
        BY <3>2, <4>1
    <3>4. begin = 0
      BY <1>1, <1>20, <3>3, ThroughTypes DEF ReaderTypes
    <3> QED
      BY <2>1, <3>1, <3>4
  <2> QED
    BY <2>2, <2>3
<1>22. /\ enableReadSize' = taken'[receiving] - begin
       /\ \A i \in 1 .. enableReadSize' : Unread'[i] = ServerStream(receiving)[begin + i]
  <2>1. taken'[receiving] = upto
    BY <1>1, <1>6 DEF ReaderTypes
  <2>2. enableReadSize' = upto - begin
    BY <1>1, <1>4, <1>5, <1>14, <1>21
  <2>3. ASSUME NEW i \in 1 .. enableReadSize + Len(data)
        PROVE  (Unread \o data)[i] = ServerStream(receiving)[begin + i]
    <3>1. CASE i \in 1 .. enableReadSize
      <4>1. (Unread \o data)[i] = Unread[i]
        BY <1>5, <1>9, <3>1, ConcatProperties
      <4> QED
        BY <1>21, <3>1, <4>1
    <3>2. CASE i \notin 1 .. enableReadSize
      <4>1. PICK j : j = i - enableReadSize
        OBVIOUS
      <4>2. j \in 1 .. Len(data) /\ taken[receiving] + j = begin + i
        <5>1. /\ i \in Int /\ enableReadSize \in Nat /\ Len(data) \in Nat
              /\ i > enableReadSize /\ i <= enableReadSize + Len(data)
          BY <1>5, <1>9, <3>2
        <5>2. /\ taken[receiving] \in Nat /\ begin \in Nat
              /\ enableReadSize = taken[receiving] - begin
          BY <1>1, <1>21
        <5>3. PICK e, t : e = enableReadSize /\ t = taken[receiving]
          OBVIOUS
        <5>4. /\ j = i - e /\ t \in Nat /\ begin \in Nat /\ e = t - begin /\ i > e
              /\ i <= e + Len(data) /\ e \in Nat
          BY <4>1, <5>1, <5>2, <5>3
        <5>5. j \in 1 .. Len(data)
          BY <5>1, <5>4
        <5>6. t + j = begin + i
          BY <5>1, <5>4
        <5> QED
          BY <5>3, <5>5, <5>6
      <4>3. (Unread \o data)[i] = data[j]
        BY <1>5, <1>9, <3>2, <4>1, ConcatProperties
      <4> QED
        BY <1>5, <4>2, <4>3
    <3> QED
      BY <3>1, <3>2
  <2> QED
    BY <1>9, <1>11, <1>14, <2>1, <2>2, <2>3
<1>23. Aligned(from)'
  BY <1>7, <1>8, <1>16, <1>18, <1>19, <1>20, <1>22 DEF Aligned
<1> QED
  BY <1>8, <1>12, <1>13, <1>15, <1>17, <1>23

LEMMA StreamStep ==
  ASSUME BufferTypeOK, ReaderTypes, StreamInv, [Next]_vars
  PROVE  StreamInv'
<1>1. CASE UNCHANGED vars
  <2>1. Calm
    BY <1>1 DEF vars, netVars, formVars, recvVars, Calm, StreamInv, Lineage
  <2> QED
    BY <2>1, CalmKeeps
<1>2. CASE Next
  BY <1>2, CalmSteps, CalmKeeps, ReceivesStreamStep, ParsesOneStep, ParseEndsStep, ProcessStep
<1> QED
  BY <1>1, <1>2

LEMMA StreamInductive == Spec => []StreamInv
<1>1. Init => StreamInv
  BY InitStream
<1>2. BufferTypeOK /\ ReaderTypes /\ StreamInv /\ [Next]_vars => StreamInv'
  BY StreamStep
<1> QED
  BY <1>1, <1>2, ReaderTyped, ClientUsesBuffer, BufferTypes, PTL DEF Spec

(* The moves inside the buffer come in time: a reader that waits for bytes    *)
(* has room for the greatest packet, however the stream was cut, while no     *)
(* bytes were refused and none left behind by a lost connection.              *)
THEOREM RoomIsMade == Spec => []RoomForPacket
<1>1. StreamInv => RoomForPacket
  BY DEF StreamInv, Room, RoomForPacket
<1> QED
  BY <1>1, StreamInductive, PTL

(* While no bytes were refused and none left behind by a lost connection, the *)
(* packets that reach the user interface are, connection after connection,    *)
(* the first that the server sent, whole and in order, for any packets, any   *)
(* cuts of the stream and any interleaving.                                   *)
THEOREM PacketsComeInOrder == Spec => []PacketsInOrder
<1>1. StreamInv => PacketsInOrder
  BY DEF StreamInv, Positions, PacketsInOrder
<1> QED
  BY <1>1, StreamInductive, PTL
=============================================================================
