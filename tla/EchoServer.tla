----------------------------- MODULE EchoServer -----------------------------
(* SimpleEchoServer: the I/O service with the receiver MGServerReceiver, its  *)
(* session map and the lock of that map.  Two threads now take two locks in   *)
(* different orders: the service calls notifyRegisterSocket and               *)
(* notifyReleaseSocket with entireSynch held, and both take m_SessionLock;    *)
(* Process, in the main thread, takes m_SessionLock and calls postingSend,    *)
(* which takes entireSynch.                                                   *)
(*                                                                            *)
(* A call that notifyMessage makes on the service runs in the worker, which   *)
(* waits for it; it has locals of its own, those of the client callback[w].   *)
EXTENDS AsynchIOService

CONSTANTS main,      \* the thread that calls Process once a second
          callback   \* the activation of notifyMessage in each worker

ASSUME EchoAssumption == /\ main \in Clients
                         /\ callback \in [Workers -> Clients \ {main}]
                         /\ IsInjective(callback)
                         /\ Connectors = {}

VARIABLES m_SessionMap,    \* the sockets in the map, keyed by uid
          m_SessionLock,   \* its owner
          iter,            \* the entry the iterator of Process is at; None: end()
          answered         \* workers whose notifyMessage has made its call, and
                           \* main while the body of its loop has made its own

echoVars == <<m_SessionMap, m_SessionLock, iter, answered>>
allVars  == <<vars, echoVars>>

EchoInit == /\ Init
            /\ m_SessionMap = {}
            /\ m_SessionLock = None
            /\ iter = None
            /\ answered = {}

SessionLockFree(t) == m_SessionLock \in {None, t}

(* The map is keyed by uid; std::map::insert keeps an entry that is there.    *)
insertSession(s) == IF \E r \in m_SessionMap : uid[r] = uid[s]
                      THEN m_SessionMap ELSE m_SessionMap \cup {s}

eraseSession_missing(s) == m_SessionMap
eraseSession(s) == {r \in m_SessionMap : uid[r] # uid[s]}

(* registerSocket goes on once notifyRegisterSocket has made the entry.       *)
notifyRegister(t) ==
  /\ SessionLockFree(t)
  /\ Insert(t)
  /\ m_SessionMap' = insertSession(socket[t])
  /\ UNCHANGED <<m_SessionLock, iter, answered>>

(* releaseSocket goes on once notifyReleaseSocket has erased the entry.       *)
notifyRelease(t) ==
  /\ SessionLockFree(t)
  /\ Erase(t)
  /\ m_SessionMap' = eraseSession(socket[t])
  /\ UNCHANGED <<m_SessionLock, iter, answered>>

(* notifyMessage sends the message back, or disconnects after a 'q'.          *)
notifyMessage(w) ==
  /\ pc[w] = "message" /\ w \notin answered /\ entireSynch = None
  /\ \/ postingSend(callback[w], socket[w])
     \/ disconnectSocket(callback[w], socket[w])
     \/ ~ CanSend(socket[w]) /\ UNCHANGED vars
  /\ answered' = answered \cup {w}
  /\ UNCHANGED <<m_SessionMap, m_SessionLock, iter>>

(* It returns, and handleCompletionOfReceive with 0.                          *)
MessageReturns(w) ==
  /\ w \in answered /\ pc[callback[w]] = "idle"
  /\ Message(w) /\ pc'[w] = "postingRead"
  /\ answered' = answered \ {w}
  /\ UNCHANGED <<m_SessionMap, m_SessionLock, iter>>

(* Process: the lock of the map for the whole loop, one postingSend for each  *)
(* entry.  std::map keeps its entries in the order of the uids, and ++iter    *)
(* finds the next one from the entry the iterator is at: iter stays there     *)
(* until postingSend has returned.                                            *)
ToFirst(S) == \/ S = {} /\ iter' = None
              \/ \E s \in S : /\ \A r \in S : uid[s] <= uid[r]
                              /\ iter' = s

ProcessBegins ==
  /\ pc[main] = "idle" /\ m_SessionLock = None
  /\ m_SessionLock' = main
  /\ ToFirst(m_SessionMap)
  /\ UNCHANGED <<vars, m_SessionMap, answered>>

ProcessSends ==
  /\ m_SessionLock = main /\ iter # None /\ main \notin answered
  /\ pc[main] = "idle" /\ entireSynch = None
  /\ postingSend(main, iter) \/ (~ CanSend(iter) /\ UNCHANGED vars)
  /\ answered' = answered \cup {main}
  /\ UNCHANGED <<m_SessionMap, m_SessionLock, iter>>

ProcessAdvances ==
  /\ main \in answered /\ pc[main] = "idle"
  /\ ToFirst({s \in m_SessionMap : uid[s] > uid[iter]})
  /\ answered' = answered \ {main}
  /\ UNCHANGED <<vars, m_SessionMap, m_SessionLock>>

ProcessEnds ==
  /\ m_SessionLock = main /\ iter = None
  /\ m_SessionLock' = None
  /\ UNCHANGED <<vars, m_SessionMap, iter, answered>>

ServiceStep ==
  \/ \E w \in Workers : DispatchStep(w) \/ \E f \in Frames : GetQueuedCompletionStatus(w, f)
  \/ \E t \in Threads : SocketStep(t)
  \/ \E a \in Acceptors : registerSocket(a) \/ \E h \in Handles : Accept(a, h)
  \/ \E c \in Clients : WSASend(c)
  \/ \E f \in Frames : Completes(f)

EchoNext ==
  \/ ServiceStep /\ UNCHANGED echoVars
  \/ \E t \in Threads : notifyRegister(t) \/ notifyRelease(t)
  \/ \E w \in Workers : notifyMessage(w) \/ MessageReturns(w)
  \/ ProcessBegins \/ ProcessSends \/ ProcessAdvances \/ ProcessEnds

EchoSpec == EchoInit /\ [][EchoNext]_allVars
-----------------------------------------------------------------------------
(* Whenever the service is not at work under its lock, the session map of the *)
(* application lists exactly the sockets in the map of the service, although  *)
(* the two are changed under different locks.                                 *)
SessionMapMatches == entireSynch = None => m_SessionMap = theASSocks

(* The entry that the iterator of Process is at stays in the map until ++iter *)
(* has left it.  m_SessionLock lets the same thread in again to erase: a send *)
(* of Process that is refused gives its reference back, and were that the     *)
(* last one, notifyReleaseSocket would erase the very entry the loop is at.   *)
IteratorValid == m_SessionLock = main /\ iter # None => iter \in m_SessionMap

(* No two threads wait for each other's lock: Process, which calls the        *)
(* service from a thread of its own as INetworkReceiver asks, and a thread    *)
(* that notifies the receiver.                                                *)
NoCrossWait ==
  ~ /\ m_SessionLock = main /\ pc[main] = "idle"
    /\ iter # None /\ main \notin answered
    /\ \E t \in Threads \ {main} : entireSynch = t /\ pc[t] \in {"inserting", "erasing"}
=============================================================================
