----------------------------- MODULE TestClient -----------------------------
(* The C# test client (mainForm.cs, ClientSimpleTcp.cs): the user interface   *)
(* thread with its buttons and its timer, the thread that receives, and the   *)
(* thread that sends.  They share the field Sock, the two packet queues and   *)
(* the buttons; only RecvPacketQueue is locked by everybody who uses it.  An  *)
(* exception that a thread does not catch ends the process.                   *)
EXTENDS PacketBufferManager, SendQueue

CONSTANTS RecvSize,  \* size of the array that Receive offers to the socket
          Loads      \* bound: what the servers send and how often the user posts

(* What the server of one connection sends, and the positions at which its    *)
(* packets begin and end: packet k is the bytes from cuts[k] + 1 to           *)
(* cuts[k + 1].  As in PacketDef, its first two bytes are its size.           *)
WellFormed(server) ==
  /\ server.bytes \in Seq(Byte)
  /\ server.cuts \in Seq(Nat) /\ server.cuts # <<>>
  /\ server.cuts[1] = 0 /\ server.cuts[Len(server.cuts)] = Len(server.bytes)
  /\ \A k \in 1 .. Len(server.cuts) - 1 :
       LET size == server.cuts[k + 1] - server.cuts[k]
       IN  /\ size \in HeaderSize .. MaxPacketSize
           /\ size = ToInt16[server.bytes[server.cuts[k] + 1],
                             server.bytes[server.cuts[k] + 2]]

(* Beside what is left of a packet there is room for two more answers, one of *)
(* a Receive and one of a packet.                                             *)
ASSUME ClientAssumption ==
         /\ RecvSize \in Nat \ {0}
         /\ MaxPacketSize - 1 + RecvSize + MaxPacketSize <= BufferSize
         /\ \A l \in Loads :
              /\ l.served \in Seq([bytes : Seq(Byte), cuts : Seq(Nat)])
              /\ \A n \in DOMAIN l.served : WellFormed(l.served[n])
              /\ l.posts \in Nat

VARIABLES load,       \* the load of this execution
          Sock,       \* the connection that the field Sock names; 0 is null
          socket,     \* what each socket is
          taken,      \* bytes that Receive got from each connection
          RecvPacketQueue,
          IsNetworkThreadRunning, btnConnect, btnDisconnect,
          pc,         \* place of each thread
          receiving,  \* the socket whose Receive the reader is in
          alive,      \* no thread has died of an exception
          processed,  \* history: packets processed, in order
          source,     \* history: connection of the last bytes written
          intact      \* history: no bytes were refused, and none were written
                      \* behind unread ones of another connection

(* The packets that the server of each connection sends; there are as many    *)
(* connections as btnConnect can make.                                        *)
served == load.served
Connections == DOMAIN served
MaxPosts == load.posts

netVars == <<Sock, socket, taken, receiving>>
formVars == <<load, IsNetworkThreadRunning, btnConnect, btnDisconnect>>
recvVars == <<RecvPacketQueue, processed, source, intact>>
vars == <<bufferVars, netVars, formVars, sendQueueVars, recvVars, pc, alive>>

Init == /\ BufferInit /\ SendQueueInit
        /\ load \in Loads
        /\ Sock = 0 /\ receiving = 0
        /\ socket = [n \in Connections |-> "none"]
        /\ taken = [n \in Connections |-> 0]
        /\ RecvPacketQueue = <<>>
        /\ IsNetworkThreadRunning = TRUE
        /\ btnConnect = TRUE /\ btnDisconnect = FALSE
        /\ pc = [ui |-> "idle", read |-> "loop", send |-> "loop"]
        /\ alive = TRUE
        /\ processed = <<>>
        /\ source = 0 /\ intact = TRUE

At(t, place) == alive /\ pc[t] = place
Goto(t, place) == pc' = [pc EXCEPT ![t] = place]

(* Nobody catches the exception.                                              *)
Dies == /\ alive' = FALSE
        /\ UNCHANGED <<bufferVars, netVars, formVars, sendQueueVars, recvVars, pc>>

IsConnected == Sock # 0 /\ socket[Sock] = "connected"

SetSocket(n, state) == socket' = [socket EXCEPT ![n] = state]
-----------------------------------------------------------------------------
(* Network.Close reads Sock twice: for the test and for the call.             *)
CloseTests(t, next) ==
  /\ At(t, "closeTest")
  /\ Goto(t, IF IsConnected THEN "close" ELSE next)
  /\ UNCHANGED <<bufferVars, netVars, formVars, sendQueueVars, recvVars, alive>>

Closes(t, next) ==
  /\ At(t, "close")
  /\ SetSocket(Sock, "closed")
  /\ Goto(t, next)
  /\ UNCHANGED <<bufferVars, Sock, taken, receiving, formVars, sendQueueVars, recvVars, alive>>

(* SetDisconnectd, which the reader runs on its own thread.                   *)
SetsButton(t) ==
  /\ At(t, "setDisconnectd")
  /\ \/ /\ ~ btnConnect
        /\ btnConnect' = TRUE
        /\ Goto(t, "setDisconnect")
     \/ /\ btnConnect
        /\ Goto(t, "clear")
        /\ UNCHANGED btnConnect
  /\ UNCHANGED <<bufferVars, netVars, load, IsNetworkThreadRunning, btnDisconnect,
                 sendQueueVars, recvVars, alive>>

SetsDisconnect(t) ==
  /\ At(t, "setDisconnect")
  /\ btnDisconnect' = FALSE
  /\ Goto(t, "clear")
  /\ UNCHANGED <<bufferVars, netVars, load, IsNetworkThreadRunning, btnConnect,
                 sendQueueVars, recvVars, alive>>

(* A thread is in a method of SendPacketQueue, and goes on to place when that *)
(* has returned.                                                              *)
InQueue(t, place) ==
  /\ pc' = IF step'[t] = "out" THEN [pc EXCEPT ![t] = place] ELSE pc
  /\ UNCHANGED <<bufferVars, netVars, formVars, recvVars, alive>>

Clears(t, next) == At(t, "clear") /\ Clear(t) /\ InQueue(t, next)

MethodFails(t) == alive /\ MethodThrows(t) /\ Dies

(* When a handler throws, the dispatcher of the user interface asks the user  *)
(* whether to go on.                                                          *)
HandlerAbandoned == alive /\ Leaves("ui") /\ InQueue("ui", "idle")
-----------------------------------------------------------------------------
(* NetworkReadProcess.                                                        *)
ReadLoops ==
  /\ At("read", "loop")
  /\ \/ ~ IsNetworkThreadRunning /\ Goto("read", "ended")
     \/ IsNetworkThreadRunning /\ IsConnected /\ Goto("read", "receive")
  /\ UNCHANGED <<bufferVars, netVars, formVars, sendQueueVars, recvVars, alive>>

(* Sock may be another socket by now.  One that was closed throws an          *)
(* exception Receive does not catch, one that is not connected one it does.   *)
ReceiveStarts ==
  /\ At("read", "receive")
  /\ \/ socket[Sock] = "closed" /\ Dies
     \/ /\ socket[Sock] \in {"created", "broken"}
        /\ Goto("read", "closeTest")
        /\ UNCHANGED <<bufferVars, netVars, formVars, sendQueueVars, recvVars, alive>>
     \/ /\ socket[Sock] = "connected"
        /\ receiving' = Sock
        /\ Goto("read", "receiving")
        /\ UNCHANGED <<bufferVars, Sock, socket, taken, formVars, sendQueueVars,
                       recvVars, alive>>

ServerStream(n) == served[n].bytes

(* Receive returns some bytes, which are written to the buffer at once.  The  *)
(* result of Write is ignored.                                                *)
Receives ==
  /\ At("read", "receiving")
  /\ socket[receiving] = "connected"
  /\ \E upto \in taken[receiving] + 1 .. Len(ServerStream(receiving)) :
       LET data == SubSeq(ServerStream(receiving), taken[receiving] + 1, upto)
       IN  /\ Len(data) <= RecvSize
           /\ taken' = [taken EXCEPT ![receiving] = upto]
           /\ Write(data)
           /\ intact' = (intact /\ Fits(data) /\
                         (source = receiving \/ enableReadSize = 0))
  /\ source' = receiving
  /\ Goto("read", "parse")
  /\ UNCHANGED <<Sock, socket, receiving, formVars, sendQueueVars, RecvPacketQueue,
                 processed, alive>>

(* The server closed the connection, or it broke: Receive returns null.       *)
ConnectionEnds ==
  /\ At("read", "receiving")
  /\ socket[receiving] = "connected"
  /\ \E state \in {"connected", "broken"} : SetSocket(receiving, state)
  /\ Goto("read", "closeTest")
  /\ UNCHANGED <<bufferVars, Sock, taken, receiving, formVars, sendQueueVars, recvVars, alive>>

(* Somebody closed the socket, or a Send found it broken.                     *)
ReceiveInterrupted ==
  /\ At("read", "receiving")
  /\ socket[receiving] \in {"closed", "broken"}
  /\ Goto("read", "closeTest")
  /\ UNCHANGED <<bufferVars, netVars, formVars, sendQueueVars, recvVars, alive>>

ParsesOne_leavesLoop ==
  /\ At("read", "parse")
  /\ Read
  /\ packetDataSize >= HeaderSize
  /\ RecvPacketQueue' = Append(RecvPacketQueue, completePacketData)
  /\ Goto("read", "loop")
  /\ UNCHANGED <<netVars, formVars, sendQueueVars, processed, source, intact, alive>>

(* One turn of the inner loop: the packet is handed to the user interface.    *)
ParsesOne ==
  /\ At("read", "parse")
  /\ Read
  /\ packetDataSize >= HeaderSize
  /\ RecvPacketQueue' = Append(RecvPacketQueue, completePacketData)
  /\ UNCHANGED <<netVars, formVars, sendQueueVars, processed, source, intact, pc, alive>>

(* A negative size or body size throws.                                       *)
ParseFails ==
  /\ At("read", "parse")
  /\ PacketReady
  /\ packetDataSize < HeaderSize /\ packetDataSize # 0
  /\ Dies

ParseEnds ==
  /\ At("read", "parse")
  /\ PacketReady => packetDataSize = 0
  /\ Goto("read", "loop")
  /\ UNCHANGED <<bufferVars, netVars, formVars, sendQueueVars, recvVars, alive>>

Reads == \/ ReadLoops \/ ReceiveStarts \/ ReceiveInterrupted
         \/ ParsesOne \/ ParseFails \/ ParseEnds
         \/ CloseTests("read", "setDisconnectd")
         \/ Closes("read", "setDisconnectd")
         \/ SetsButton("read") \/ SetsDisconnect("read")
         \/ Clears("read", "loop") \/ MethodFails("read")
-----------------------------------------------------------------------------
(* NetworkSendProcess.  Its lock on the queue keeps nobody out.               *)
SendLoops ==
  /\ At("send", "loop")
  /\ \/ ~ IsNetworkThreadRunning /\ Goto("send", "ended")
     \/ IsNetworkThreadRunning /\ IsConnected /\ Goto("send", "count")
  /\ UNCHANGED <<bufferVars, netVars, formVars, sendQueueVars, recvVars, alive>>

Counts == /\ At("send", "count") /\ Count
          /\ Goto("send", IF step'["send"] = "out" THEN "loop" ELSE "dequeue")
          /\ UNCHANGED <<bufferVars, netVars, formVars, recvVars, alive>>

Dequeues == At("send", "dequeue") /\ Dequeue /\ InQueue("send", "sendTest")

(* Network.Send drops the packet if there is no connection.                   *)
SendTests ==
  /\ At("send", "sendTest")
  /\ Goto("send", IF IsConnected THEN "send" ELSE "loop")
  /\ UNCHANGED <<bufferVars, netVars, formVars, sendQueueVars, recvVars, alive>>

Sends ==
  /\ At("send", "send")
  /\ removed # 0 /\ socket[Sock] = "connected"
  /\ Goto("send", "loop")
  /\ UNCHANGED <<bufferVars, netVars, formVars, sendQueueVars, recvVars, alive>>

(* No packet, a closed socket: not caught.  A connection that breaks, or a    *)
(* socket that is not connected: caught.                                      *)
SendFails ==
  /\ At("send", "send")
  /\ \/ removed = 0 \/ socket[Sock] = "closed"
     /\ Dies
  \/ /\ At("send", "send")
     /\ removed # 0 /\ socket[Sock] # "closed"
     /\ SetSocket(Sock, IF socket[Sock] = "connected" THEN "broken" ELSE socket[Sock])
     /\ Goto("send", "loop")
     /\ UNCHANGED <<bufferVars, Sock, taken, receiving, formVars, sendQueueVars, recvVars, alive>>

SendsOn == \/ SendLoops \/ Counts \/ Dequeues \/ MethodFails("send")
           \/ SendTests \/ Sends \/ SendFails
-----------------------------------------------------------------------------
(* btnConnect_Click: the new socket is in Sock before it is connected.        *)
ConnectClick ==
  /\ At("ui", "idle")
  /\ btnConnect
  /\ Sock + 1 \in Connections
  /\ Sock' = Sock + 1
  /\ SetSocket(Sock + 1, "created")
  /\ Goto("ui", "connect")
  /\ UNCHANGED <<bufferVars, taken, receiving, formVars, sendQueueVars, recvVars, alive>>

Connects ==
  /\ At("ui", "connect")
  /\ \/ /\ socket[Sock] = "created"
        /\ SetSocket(Sock, "connected")
        /\ Goto("ui", "connected")
     \/ /\ Goto("ui", "idle")
        /\ UNCHANGED socket
  /\ UNCHANGED <<bufferVars, Sock, taken, receiving, formVars, sendQueueVars, recvVars, alive>>

(* Connect returns Sock.Connected.                                            *)
ConnectReturns ==
  /\ At("ui", "connected")
  /\ Goto("ui", IF IsConnected THEN "disableConnect" ELSE "idle")
  /\ UNCHANGED <<bufferVars, netVars, formVars, sendQueueVars, recvVars, alive>>

DisablesConnect ==
  /\ At("ui", "disableConnect")
  /\ btnConnect' = FALSE
  /\ Goto("ui", "enableDisconnect")
  /\ UNCHANGED <<bufferVars, netVars, load, IsNetworkThreadRunning, btnDisconnect,
                 sendQueueVars, recvVars, alive>>

EnablesDisconnect ==
  /\ At("ui", "enableDisconnect")
  /\ btnDisconnect' = TRUE
  /\ Goto("ui", "idle")
  /\ UNCHANGED <<bufferVars, netVars, load, IsNetworkThreadRunning, btnConnect,
                 sendQueueVars, recvVars, alive>>

(* btnDisconnect_Click: SetDisconnectd, then Close.                           *)
DisconnectClick ==
  /\ At("ui", "idle")
  /\ btnDisconnect
  /\ Goto("ui", "setDisconnectd")
  /\ UNCHANGED <<bufferVars, netVars, formVars, sendQueueVars, recvVars, alive>>

(* PostSendPacket, the end of every handler that sends something.             *)
PostSendPacket ==
  /\ At("ui", "idle")
  /\ posted < MaxPosts
  /\ IsConnected
  /\ Goto("ui", "enqueue")
  /\ UNCHANGED <<bufferVars, netVars, formVars, sendQueueVars, recvVars, alive>>

Enqueues == At("ui", "enqueue") /\ Enqueue /\ InQueue("ui", "idle")

(* BackGroundProcess, from the timer: one packet at a time is taken out and   *)
(* handled; one whose PacketID is 0 is ignored, which counts as processed.    *)
BackGroundProcess ==
  /\ At("ui", "idle")
  /\ RecvPacketQueue # <<>>
  /\ processed' = Append(processed, Head(RecvPacketQueue))
  /\ RecvPacketQueue' = Tail(RecvPacketQueue)
  /\ UNCHANGED <<bufferVars, netVars, formVars, sendQueueVars, source, intact, pc, alive>>

FormClosing_keepsSocket ==
  /\ At("ui", "idle")
  /\ IsNetworkThreadRunning' = FALSE
  /\ Goto("ui", "gone")
  /\ UNCHANGED <<bufferVars, netVars, load, btnConnect, btnDisconnect, sendQueueVars,
                 recvVars, alive>>

(* mainForm_FormClosing; after its Close the user interface is gone.          *)
FormClosing ==
  /\ At("ui", "idle")
  /\ IsNetworkThreadRunning' = FALSE
  /\ Goto("ui", "closeTest")
  /\ UNCHANGED <<bufferVars, netVars, load, btnConnect, btnDisconnect, sendQueueVars, recvVars, alive>>

AfterClose == IF IsNetworkThreadRunning THEN "idle" ELSE "gone"

(* The handlers run to their end once they were called.                       *)
Handles == \/ Connects \/ ConnectReturns \/ DisablesConnect \/ EnablesDisconnect
           \/ Enqueues \/ MethodFails("ui") \/ HandlerAbandoned
           \/ SetsButton("ui") \/ SetsDisconnect("ui")
           \/ Clears("ui", "closeTest")
           \/ CloseTests("ui", AfterClose) \/ Closes("ui", AfterClose)

Clicks == ConnectClick \/ DisconnectClick \/ PostSendPacket \/ FormClosing

Next == \/ Reads \/ Receives \/ ConnectionEnds
        \/ SendsOn
        \/ Handles \/ Clicks \/ BackGroundProcess

(* The operating system runs every thread.  Nothing is assumed of the server  *)
(* or the user, except that the user does not keep the timer from being       *)
(* served for ever.                                                           *)
Fairness == /\ WF_vars(Reads) /\ WF_vars(SendsOn) /\ WF_vars(Handles)
            /\ SF_vars(BackGroundProcess)

Spec == Init /\ [][Next]_vars /\ Fairness
-----------------------------------------------------------------------------
Places == {"idle", "connect", "connected", "disableConnect", "enableDisconnect",
           "enqueue", "gone", "setDisconnectd", "setDisconnect", "clear", "closeTest",
           "close", "loop", "receive", "receiving", "parse", "ended",
           "count", "dequeue", "sendTest", "send"}

SocketStates == {"none", "created", "connected", "broken", "closed"}

(* Types, with the positions of the buffer in order and in bounds whatever    *)
(* the server sends and wherever a connection ends, and the indices of the    *)
(* queue in its array (but for a _tail of -1) whatever the races on it do; a  *)
(* thread is inside the queue where its caller waits for a method.            *)
TypeOK ==
  /\ BufferTypeOK /\ SendQueueTypeOK
  /\ Sock \in {0} \cup Connections /\ receiving \in {0} \cup Connections
  /\ socket \in [Connections -> SocketStates]
  /\ taken \in [Connections -> Nat]
  /\ \A n \in Connections : taken[n] <= Len(ServerStream(n))
  /\ posted <= MaxPosts
  /\ pc \in [{"ui", "read", "send"} -> Places]
  /\ \A t \in Users : step[t] # "out" => pc[t] \in {"clear", "enqueue", "dequeue"}

(* When the reader waits for the socket there is room for a packet of the     *)
(* greatest size, however the stream was cut: complete packets were all read  *)
(* and what was left was moved in time.  (Bytes of an earlier connection that *)
(* were left behind, and refused bytes, can hold the place of a size; then    *)
(* nothing is promised.)                                                      *)
RoomForPacket ==
  intact /\ pc.read = "receiving" => BufferSize - WritePos >= MaxPacketSize

Through(n, k) == served[n].cuts[k + 1]
Packet(n, k) == SubSeq(ServerStream(n), Through(n, k - 1) + 1, Through(n, k))

delivered == processed \o RecvPacketQueue

(* The packets of connection n that were delivered stand at the places from   *)
(* from[n] + 1 to from[n + 1], and are its first.                             *)
InOrder(from) ==
  /\ from[1] = 0 /\ from[Len(served) + 1] = Len(delivered)
  /\ \A n \in Connections :
       LET got == from[n + 1] - from[n]
       IN  /\ got \in 0 .. Len(served[n].cuts) - 1
           /\ Through(n, got) <= taken[n]
           /\ \A k \in 1 .. got : delivered[from[n] + k] = Packet(n, k)

(* While no bytes were refused and none were left behind by a lost            *)
(* connection, the packets that are queued and processed are, connection      *)
(* after connection, the first packets of the server, whole and in order.     *)
PacketsInOrder ==
  intact => \E from \in [1 .. Len(served) + 1 -> 0 .. Len(delivered)] : InOrder(from)

(* Everything that was received is processed: nothing waits in the queue, and *)
(* unless bytes were refused or left behind, each packet of which all bytes   *)
(* were received is among the processed ones.                                 *)
AllProcessed ==
  /\ RecvPacketQueue = <<>>
  /\ intact => \A n \in Connections : \A k \in 1 .. Len(served[n].cuts) - 1 :
                 taken[n] >= Through(n, k) => Packet(n, k) \in Range(processed)

(* Again and again everything that was received is processed, unless the      *)
(* program ends: whatever the reader, the connections and the clicks do       *)
(* meanwhile, a packet that is complete does not stay in the buffer or in the *)
(* queue.                                                                     *)
ReceivedIsProcessed == []<>(AllProcessed \/ ~ alive \/ pc.ui = "gone")

(* A connected socket that Sock no longer names.                              *)
Orphan == \E n \in Connections : n # Sock /\ socket[n] = "connected"

(* Closing the form ends both threads: the reader is woken from Receive by    *)
(* the Close, and sees the flag.  (A reader whose socket is not the one in    *)
(* Sock any more would stay.)                                                 *)
FormClosingEnds ==
  (pc.ui = "gone") ~> ((pc.read = "ended" /\ pc.send = "ended") \/ ~ alive \/ Orphan)
=============================================================================
