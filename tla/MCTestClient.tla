---------------------------- MODULE MCTestClient ----------------------------
(* An instance of the test client for TLC: two connections whose servers send *)
(* packets of sizes 3 and 2, and of size 3; or one whose server sends a byte  *)
(* more than the buffer holds, so that bytes may be refused; or one on which  *)
(* the user posts a packet.  Bytes are named by connection, packet and        *)
(* offset; where two bytes are not the first of a packet, the integer they    *)
(* encode is 0, negative, less than a header or the size of a packet.         *)
EXTENDS TestClient

PacketSizes == <<3, 2, 3, 2>>

MCBytes == {<<n, k, i>> : n \in 1 .. 2, k \in 1 .. 4, i \in 1 .. 3} \cup {<<0, 0, 0>>}

PacketBytes(n, k) == [i \in 1 .. PacketSizes[k] |-> <<n, k, i>>]

Servers == <<[bytes |-> PacketBytes(1, 1) \o PacketBytes(1, 2), cuts |-> <<0, 3, 5>>],
             [bytes |-> PacketBytes(2, 1), cuts |-> <<0, 3>>]>>

Long == [bytes |-> PacketBytes(1, 1) \o PacketBytes(1, 2) \o PacketBytes(1, 3)
                     \o PacketBytes(1, 4),
         cuts |-> <<0, 3, 5, 8, 10>>]

Silent == [bytes |-> <<>>, cuts |-> <<0>>]

MCLoads == {[served |-> Servers, posts |-> 0], [served |-> <<Long>>, posts |-> 0],
            [served |-> <<Silent>>, posts |-> 1]}

MCToInt16 ==
  [pair \in MCBytes \X MCBytes |->
     LET a == pair[1]  b == pair[2]
     IN  IF a[1] # 0 /\ a[3] = 1 /\ b = <<a[1], a[2], 2>> THEN PacketSizes[a[2]]
         ELSE <<-1, 0, 1, 2>>[1 + ((a[2] + a[3] + b[2]) % 4)]]

MCZero == <<0, 0, 0>>
=============================================================================
