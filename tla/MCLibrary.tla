----------------------------- MODULE MCLibrary -----------------------------
(* The classes of the library that stand alone: nothing in the repository     *)
(* uses one of them together with another, and the loops of the threads do    *)
(* not depend on what a worker does with a completion.  With them the send    *)
(* queue of the test client, under whatever methods its three threads call.   *)
(* Each behaviour is about one of them, the subject.                          *)
EXTENDS RichODBC, TraditionalMemoryPool, Queue, ServiceThreads, DataBuffer, StreamData,
        SendQueue

CONSTANT MaxPosted   \* bound: packets added to the send queue

VARIABLE subject

Init == /\ subject \in {"RichODBC", "TraditionalMemoryPool", "Queue", "Thread",
                        "DataBuffer", "StreamData", "SendQueue"}
        /\ OdbcInit /\ PoolInit /\ QueueInit /\ ServiceThreadsInit /\ StreamInit
        /\ DataBufferInit /\ SendQueueInit
        /\ subject # "DataBuffer" => fields = <<>>
        /\ subject # "RichODBC" => m_retcode = "success"

Next == /\ UNCHANGED subject
        /\ IF subject = "RichODBC" THEN OdbcNext ELSE UNCHANGED odbcVars
        /\ IF subject = "TraditionalMemoryPool" THEN PoolNext ELSE UNCHANGED poolVars
        /\ IF subject = "Queue" THEN QueueNext ELSE UNCHANGED queueVars
        /\ IF subject = "Thread" THEN ServiceThreadsNext ELSE UNCHANGED serviceThreadVars
        /\ IF subject = "DataBuffer" THEN DataBufferNext ELSE UNCHANGED dataBufferVars
        /\ IF subject = "StreamData" THEN StreamNext ELSE UNCHANGED streamVars
        /\ IF subject = "SendQueue" THEN SendQueueNext ELSE UNCHANGED sendQueueVars
        /\ posted' <= MaxPosted

vars == <<subject, odbcVars, poolVars, queueVars, serviceThreadVars, dataBufferVars,
          streamVars, sendQueueVars>>

Spec == Init /\ [][Next]_vars /\ ServiceThreadsFairness

TypeOK == /\ OdbcTypeOK /\ PoolTypeOK /\ QueueTypeOK
          /\ ServiceThreadsTypeOK /\ DataBufferTypeOK /\ StreamTypeOK

MCBlockSize == <<2, 3, 5>>
MCPieces == SeqOf(Byte, m_Capacity + 1)
=============================================================================
