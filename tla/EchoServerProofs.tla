-------------------------- MODULE EchoServerProofs --------------------------
(* Theorems about the echo server: it is a user of the service, so that what  *)
(* is proved of the service holds in it; and its session map, under a lock of *)
(* its own, agrees with the map of the service and keeps the entry that the   *)
(* iterator of Process is at.                                                 *)
EXTENDS EchoServer, AsynchIOServiceReferences

(* A socket that is not used up has a reference, unless a thread is about to  *)
(* enter it or to erase it.                                                   *)
HasReference(s) == referCount[s] >= 1
Between(s) == \E t \in Threads : pc[t] \in {"inserting", "erasing"} /\ socket[t] = s
CountInv ==
  /\ \A s \in Sockets : life[s] = "unborn" => referCount[s] = 0
  /\ \A s \in Sockets : life[s] = "live"
       => HasReference(s) \/ (referCount[s] = 0 /\ Between(s))

(* Where Process is.  The socket its postingSend works on is the entry of the *)
(* iterator, and has another reference besides that of the send.              *)
MainVisits ==
  /\ m_SessionLock = main /\ iter # None => iter \in m_SessionMap
  /\ pc[main] # "idle" => /\ pc[main] \in {"WSASend", "releaseSocket"}
                          /\ m_SessionLock = main /\ socket[main] = iter
                          /\ iter # None /\ referCount[iter] >= 2

EchoInv == BasicInv /\ CountInv /\ m_SessionMap = theASSocks /\ MainVisits

(* The session that an acceptor is about to enter has a uid of its own, and   *)
(* so has the one that a thread is about to erase.                            *)
LEMMA InsertsSame ==
  ASSUME BasicInv, NEW t \in Threads, pc[t] = "inserting", m_SessionMap = theASSocks
  PROVE  insertSession(socket[t]) = theASSocks \cup {socket[t]}
<1>1. socket[t] \in Sockets /\ life[socket[t]] = "live"
  BY DEF BasicInv, TInv, LocalTypes, Local, WithSocket, UidInv, Alive
<1>2. \A r \in theASSocks : r \in Sockets /\ life[r] = "live"
  BY DEF BasicInv, TInv, ObjectTypes, UidInv, Alive
<1>3. \A r \in theASSocks : uid[r] = uid[socket[t]] => r = socket[t]
  BY <1>1, <1>2 DEF BasicInv, UidInv, Distinct, Holds
<1> QED
  BY <1>3 DEF insertSession

LEMMA ErasesOne ==
  ASSUME BasicInv, NEW t \in Threads, pc[t] = "erasing", m_SessionMap = theASSocks
  PROVE  /\ eraseSession(socket[t]) = theASSocks \ Lookup(uid[socket[t]])
         /\ \A r \in theASSocks : r # socket[t] => r \in eraseSession(socket[t])
<1>1. socket[t] \in Sockets /\ life[socket[t]] = "live"
  BY DEF BasicInv, TInv, LocalTypes, Local, WithSocket, UidInv, Alive
<1>2. \A r \in theASSocks : r \in Sockets /\ life[r] = "live"
  BY DEF BasicInv, TInv, ObjectTypes, UidInv, Alive
<1>3. \A r \in theASSocks : uid[r] = uid[socket[t]] => r = socket[t]
  BY <1>1, <1>2 DEF BasicInv, UidInv, Distinct, Holds
<1> QED
  BY <1>3 DEF eraseSession, Lookup

LEMMA CountUntouched ==
  ASSUME CountInv, UNCHANGED <<referCount, life>>,
         \A t \in Threads : pc[t] \in {"inserting", "erasing"}
                              => pc'[t] = pc[t] /\ socket'[t] = socket[t]
  PROVE  CountInv'
BY DEF CountInv, HasReference, Between

(* While a thread has the lock to itself, no socket is between map and count. *)
LEMMA NoneBetween ==
  ASSUME BasicInv, NEW t \in Threads, entireSynch \in {None, t},
         pc[t] \notin {"inserting", "erasing"}, NEW s \in Sockets
  PROVE  ~ Between(s)
BY ServiceAssumption DEF Between, BasicInv, Places, Locked, Role, WithSocket

LEMMA StepCounts == BasicInv /\ CountInv /\ [Next]_vars => CountInv'
<1> SUFFICES ASSUME BasicInv, CountInv, [Next]_vars PROVE CountInv'
  OBVIOUS
<1> USE Roles, ServiceAssumption DEF BasicInv, TInv, LocalTypes, ObjectTypes
<1>1. ASSUME NEW a \in Acceptors, registerSocket(a) PROVE CountInv'
  <2>1. PICK s \in Sockets :
          /\ life[s] = "unborn"
          /\ \/ life' = [life EXCEPT ![s] = "leaked"]
             \/ /\ life' = [life EXCEPT ![s] = "live"]
                /\ socket' = [socket EXCEPT ![a] = s] /\ Goto(a, "inserting")
    BY <1>1 DEF registerSocket, clone
  <2>2. UNCHANGED referCount /\ pc[a] = "registerSocket" /\ socket[a] = None
    BY <1>1 DEF registerSocket, Places, Carries, WithSocket
  <2>3. \A t \in Threads : pc[t] \in {"inserting", "erasing"}
                             => pc'[t] = pc[t] /\ socket'[t] = socket[t]
    BY <1>1, <2>2 DEF registerSocket, Goto, Return
  <2>4. \A r \in Sockets : Between(r) => Between(r)'
    BY <2>3 DEF Between
  <2>5. life'[s] = "live" => Between(s)'
    BY <2>1 DEF Between, Goto
  <2> QED BY <2>1, <2>2, <2>4, <2>5 DEF CountInv, HasReference
<1>2. ASSUME NEW c \in Connectors, NEW h \in Handles, connectSocket(c, h) PROVE CountInv'
  <2>1. CASE UNCHANGED <<life, localVars>>
    BY <1>2, <2>1, CountUntouched DEF connectSocket, localVars
  <2>2. CASE ~ UNCHANGED <<life, localVars>>
    <3>1. PICK s \in Sockets :
            /\ life[s] = "unborn"
            /\ \/ life' = [life EXCEPT ![s] = "leaked"] /\ UNCHANGED localVars
               \/ /\ life' = [life EXCEPT ![s] = "live"]
                  /\ socket' = [socket EXCEPT ![c] = s] /\ Goto(c, "inserting")
      BY <1>2, <2>2 DEF connectSocket, clone
    <3>2. UNCHANGED referCount /\ pc[c] = "idle"
      BY <1>2 DEF connectSocket
    <3>3. \A t \in Threads : pc[t] \in {"inserting", "erasing"}
                               => pc'[t] = pc[t] /\ socket'[t] = socket[t]
      BY <3>1, <3>2 DEF Goto, localVars
    <3>4. \A r \in Sockets : Between(r) => Between(r)'
      BY <3>3 DEF Between
    <3>5. life'[s] = "live" => Between(s)'
      BY <3>1 DEF Between, Goto
    <3> QED BY <3>1, <3>2, <3>4, <3>5 DEF CountInv, HasReference
  <2> QED BY <2>1, <2>2
<1>3. ASSUME NEW t \in Threads, Insert(t) PROVE CountInv'
  <2>1. PICK s \in Sockets : s = socket[t]
    BY <1>3 DEF Insert, Local, WithSocket
  <2>2. /\ pc[t] = "inserting" /\ life[s] = "live" /\ UNCHANGED <<life, socket>>
        /\ referCount' = [referCount EXCEPT ![s] = @ + 1]
        /\ \A u \in Threads \ {t} : pc'[u] = pc[u]
    BY <1>3, <2>1 DEF Insert, enterIO, Goto, UidInv, Alive
  <2>3. \A r \in Sockets \ {s} : Between(r) => Between(r)'
    BY <2>1, <2>2 DEF Between
  <2> QED BY <2>2, <2>3 DEF CountInv, HasReference
<1>4. ASSUME NEW c \in Clients, NEW s \in Sockets, postingSend(c, s) PROVE CountInv'
  <2>1. /\ entireSynch = None /\ pc[c] = "idle" /\ UNCHANGED life
        /\ referCount' = [referCount EXCEPT ![s] = @ + 1]
        /\ s \in theASSocks
    BY <1>4 DEF postingSend, enterIO, CanSend, Current, Lookup
  <2>2. life[s] = "live" /\ \A r \in Sockets : ~ Between(r)
    BY <2>1, NoneBetween DEF UidInv, Alive
  <2> QED BY <2>1, <2>2 DEF CountInv, HasReference
<1>5. ASSUME NEW t \in Threads, releaseSocket(t) PROVE CountInv'
  <2>1. PICK s \in Sockets : s = socket[t]
    BY <1>5 DEF releaseSocket, Local, WithSocket
  <2>2. /\ pc[t] = "releaseSocket" /\ life[s] = "live" /\ UNCHANGED life
        /\ referCount' = [referCount EXCEPT ![s] = @ - 1]
        /\ referCount[s] = 1 => pc' = [pc EXCEPT ![t] = "erasing"] /\ UNCHANGED socket
    BY <1>5, <2>1 DEF releaseSocket, lastReference, Goto
  <2>3. \A r \in Sockets : ~ Between(r)
    BY <1>5, NoneBetween DEF releaseSocket
  <2>4. referCount[s] = 1 => Between(s)'
    BY <2>1, <2>2 DEF Between
  <2> QED BY <2>2, <2>3, <2>4 DEF CountInv, HasReference
<1>6. ASSUME NEW t \in Threads, Erase(t) PROVE CountInv'
  <2>1. PICK s \in Sockets : s = socket[t]
    BY <1>6 DEF Erase, Local, WithSocket
  <2>2. /\ pc[t] = "erasing" /\ life' = [life EXCEPT ![s] = "deleted"]
        /\ UNCHANGED referCount
        /\ \A u \in Threads \ {t} : pc'[u] = pc[u] /\ socket'[u] = socket[u]
    BY <1>6, <2>1 DEF Erase, LeaveReleaseSocket, Return, Goto
  <2>3. \A r \in Sockets \ {s} : Between(r) => Between(r)'
    BY <2>1, <2>2 DEF Between
  <2> QED BY <2>2, <2>3 DEF CountInv, HasReference
<1>7. CASE \/ \E w \in Workers : WorkerStep(w) \/ \E f \in Frames : GetQueuedCompletionStatus(w, f)
           \/ \E t \in Threads : SocketStep(t) /\ ~ releaseSocket(t)
           \/ \E a \in Acceptors, h \in Handles : Accept(a, h)
           \/ \E c \in Connectors : ConnectEx(c)
           \/ \E c \in Clients : \/ WSASend(c)
                                 \/ \E s \in Sockets : disconnectSocket(c, s)
           \/ \E f \in Frames : Completes(f)
  <2>1. UNCHANGED <<referCount, life>>
    BY <1>7 DEF WorkerStep, DispatchStep, SocketStep, GetQueuedCompletionStatus,
       dispatchCompletion, dispatchError, Disappeared, Connected, Message, disconnect,
       closesocket, setClosed, postingRead, WSARecv, ReleaseFrame, Accept, ConnectEx,
       WSASend, disconnectSocket, Completes, socketVars
  <2>2. ASSUME NEW t \in Threads, pc[t] \in {"inserting", "erasing"}
        PROVE  pc'[t] = pc[t] /\ socket'[t] = socket[t]
    BY <1>7, <2>2 DEF WorkerStep, DispatchStep, SocketStep, GetQueuedCompletionStatus,
       dispatchCompletion, dispatchError, Disappeared, Connected, Message, disconnect,
       closesocket, setClosed, postingRead, WSARecv, ReleaseFrame, Accept, ConnectEx,
       WSASend, disconnectSocket, Completes, localVars, Goto, Return, AfterDisconnect,
       Posted, Refused
  <2> QED BY <2>1, <2>2, CountUntouched
<1>8. CASE UNCHANGED vars
  BY <1>8, CountUntouched DEF vars, socketVars, localVars
<1> QED
  BY <1>1, <1>2, <1>3, <1>4, <1>5, <1>6, <1>7, <1>8
  DEF Next, SharedStep, SocketStep, StaleCall

(* A step of the server is one of the service, or leaves the service alone.   *)
LEMMA EchoStepsService == EchoInv /\ [EchoNext]_allVars => [Next]_vars
<1> SUFFICES ASSUME EchoInv, EchoNext PROVE [Next]_vars
  BY DEF allVars
<1>1. CASE ServiceStep
  BY <1>1 DEF ServiceStep, Next, WorkerStep, SharedStep
<1>2. ASSUME NEW t \in Threads, notifyRegister(t) \/ notifyRelease(t) PROVE Next
  BY <1>2 DEF notifyRegister, notifyRelease, Next, SharedStep
<1>3. ASSUME NEW w \in Workers, notifyMessage(w) PROVE [Next]_vars
  <2>1. callback[w] \in Clients
    BY EchoAssumption
  <2>2. socket[w] \in Sockets
    BY <1>3, Roles DEF notifyMessage, EchoInv, BasicInv, TInv, LocalTypes, Local,
       WithSocket
  <2> QED
    BY <1>3, <2>1, <2>2 DEF notifyMessage, Next
<1>4. ASSUME NEW w \in Workers, MessageReturns(w) PROVE Next
  BY <1>4 DEF MessageReturns, Next, WorkerStep
<1>5. CASE ProcessSends
  <2>1. postingSend(main, iter) \/ UNCHANGED vars
    BY <1>5 DEF ProcessSends
  <2>2. iter \in Sockets /\ main \in Clients
    BY <1>5, EchoAssumption
    DEF ProcessSends, EchoInv, MainVisits, BasicInv, TInv, ObjectTypes
  <2> QED
    BY <2>1, <2>2 DEF Next
<1>6. CASE ProcessBegins \/ ProcessAdvances \/ ProcessEnds
  BY <1>6 DEF ProcessBegins, ProcessAdvances, ProcessEnds
<1> QED
  BY <1>1, <1>2, <1>3, <1>4, <1>5, <1>6 DEF EchoNext

(* A step of the service that the receiver is not told of leaves the map      *)
(* alone.  The postingSend of Process goes on, or returns; nobody else gives  *)
(* a reference back meanwhile, because it has the lock.                       *)
Sending == /\ pc[main] \in {"WSASend", "releaseSocket"}
           /\ socket[main] = iter /\ referCount[iter] >= 2
Aside == /\ pc'[main] = pc[main] /\ socket'[main] = socket[main]
         /\ UNCHANGED referCount
Goes == /\ UNCHANGED theASSocks
        /\ pc[main] = "idle" => pc'[main] = "idle"
        /\ pc[main] # "idle" => pc'[main] = "idle" \/ Sending'

LEMMA ServiceStepQuiet ==
  ASSUME EchoInv, ServiceStep, UNCHANGED echoVars
  PROVE  Goes
<1>1. main \in Clients /\ main \in Threads /\ main \notin Workers \cup Acceptors
  BY EchoAssumption, ServiceAssumption DEF Threads
<1>2. /\ pc \in [Threads -> Labels] /\ socket \in [Threads -> Sockets \cup {None}]
      /\ referCount \in [Sockets -> Int]
  BY DEF EchoInv, BasicInv, TInv, LocalTypes, ObjectTypes
<1>3. /\ pc[main] # "idle" => Sending /\ iter \in Sockets /\ entireSynch = main
      /\ UNCHANGED iter
  BY <1>1 DEF Sending, EchoInv, MainVisits, BasicInv, TInv, ObjectTypes, Places, Locked,
     WithSocket, echoVars
<1>0. ASSUME Aside, UNCHANGED theASSocks PROVE Goes
  BY <1>0, <1>3 DEF Aside, Goes, Sending
<1> USE <1>1, <1>2, Roles DEF socketVars, Goto, Return
<1>4. ASSUME NEW w \in Workers, DispatchStep(w) PROVE Goes
  <2>1. Aside /\ UNCHANGED theASSocks
    BY <1>4 DEF DispatchStep, dispatchCompletion, dispatchError, Disappeared, Connected,
       postingRead, ReleaseFrame, Aside
  <2> QED BY <1>0, <2>1
<1>5. ASSUME NEW w \in Workers, NEW f \in Frames, GetQueuedCompletionStatus(w, f) PROVE Goes
  <2>1. Aside /\ UNCHANGED theASSocks
    BY <1>5 DEF GetQueuedCompletionStatus, Aside
  <2> QED BY <1>0, <2>1
<1>6. ASSUME NEW t \in Threads \ {main}, SocketStep(t) PROVE Goes
  <2>1. CASE releaseSocket(t)
    <3>1. pc[main] = "idle"
      BY <1>3, <2>1, ServiceAssumption DEF releaseSocket
    <3>2. pc'[main] = pc[main] /\ UNCHANGED theASSocks
      BY <1>6, <2>1 DEF releaseSocket, LeaveReleaseSocket
    <3> QED BY <3>1, <3>2 DEF Goes
  <2>2. CASE ~ releaseSocket(t)
    <3>1. Aside /\ UNCHANGED theASSocks
      BY <1>6, <2>2 DEF SocketStep, disconnect, closesocket, setClosed, WSARecv,
         AfterDisconnect, Posted, Refused, Aside
    <3> QED BY <1>0, <3>1
  <2> QED BY <2>1, <2>2
<1>7. CASE SocketStep(main)
  <2>1. /\ pc[main] = "releaseSocket" /\ releaseSocket(main) /\ op[main] = None
        /\ socket[main] = iter /\ referCount[iter] >= 2
    BY <1>3, <1>7 DEF SocketStep, disconnect, closesocket, setClosed, WSARecv,
       releaseSocket, Sending, EchoInv, BasicInv, Places, Carries
  <2>2. pc'[main] = "idle" /\ UNCHANGED theASSocks
    BY <1>3, <2>1 DEF releaseSocket, lastReference, LeaveReleaseSocket
  <2> QED BY <2>1, <2>2 DEF Goes
<1>8. ASSUME NEW a \in Acceptors, registerSocket(a) PROVE Goes
  <2>1. Aside /\ UNCHANGED theASSocks
    BY <1>8 DEF registerSocket, Aside
  <2> QED BY <1>0, <2>1
<1>9. ASSUME NEW a \in Acceptors, NEW h \in Handles, Accept(a, h) PROVE Goes
  <2>1. Aside /\ UNCHANGED theASSocks
    BY <1>9 DEF Accept, Aside
  <2> QED BY <1>0, <2>1
<1>10. ASSUME NEW c \in Clients, c # main, WSASend(c) PROVE Goes
  <2>1. Aside /\ UNCHANGED theASSocks
    BY <1>10 DEF WSASend, Posted, Refused, Aside
  <2> QED BY <1>0, <2>1
<1>11. CASE WSASend(main)
  <2>1. UNCHANGED <<theASSocks, referCount>> /\ pc[main] = "WSASend"
    BY <1>11 DEF WSASend
  <2>2. pc'[main] = "idle" \/ (pc'[main] = "releaseSocket" /\ UNCHANGED socket)
    BY <1>11 DEF WSASend, Posted, Refused
  <2> QED BY <1>3, <2>1, <2>2 DEF Goes, Sending
<1>12. ASSUME NEW f \in Frames, Completes(f) PROVE Goes
  <2>1. Aside /\ UNCHANGED theASSocks
    BY <1>12 DEF Completes, localVars, Aside
  <2> QED BY <1>0, <2>1
<1> QED
  BY <1>4, <1>5, <1>6, <1>7, <1>8, <1>9, <1>10, <1>11, <1>12 DEF ServiceStep

LEMMA InitEcho == EchoInit => EchoInv
<1> SUFFICES ASSUME EchoInit PROVE EchoInv
  OBVIOUS
<1>1. BasicInv
  BY InitTInv, InitPlaces, InitFrames, InitUids DEF EchoInit, BasicInv
<1>2. main \in Threads /\ None \notin Threads
  BY EchoAssumption, ServiceAssumption DEF Threads
<1>3. CountInv /\ pc[main] = "idle"
  BY <1>2 DEF EchoInit, Init, CountInv
<1> QED
  BY <1>1, <1>2, <1>3 DEF EchoInit, Init, EchoInv, MainVisits

LEMMA StepEcho == EchoInv /\ [EchoNext]_allVars => EchoInv'
<1> SUFFICES ASSUME EchoInv, [EchoNext]_allVars PROVE EchoInv'
  OBVIOUS
<1>a. BasicInv' /\ CountInv'
  BY EchoStepsService, StepTInv, StepPlaces, StepFrames, StepUids, StepCounts
  DEF EchoInv, BasicInv
<1>b. /\ main \in Clients /\ main \in Threads /\ main \notin Workers /\ main # None
      /\ None \notin Sockets /\ socket \in [Threads -> Sockets \cup {None}]
      /\ pc \in [Threads -> Labels] /\ referCount \in [Sockets -> Int]
      /\ m_SessionMap \subseteq Sockets
  BY EchoAssumption, ServiceAssumption
  DEF Threads, EchoInv, BasicInv, TInv, LocalTypes, ObjectTypes
<1>c. pc[main] # "idle" => entireSynch = main
  BY <1>b DEF EchoInv, MainVisits, BasicInv, Places, Locked, WithSocket
<1> SUFFICES m_SessionMap' = theASSocks' /\ MainVisits'
  BY <1>a DEF EchoInv
<1>1. CASE ServiceStep /\ UNCHANGED echoVars
  <2>1. Goes /\ UNCHANGED <<m_SessionMap, m_SessionLock, iter>>
    BY <1>1, ServiceStepQuiet DEF echoVars
  <2> QED BY <2>1 DEF Goes, Sending, EchoInv, MainVisits
<1>2. ASSUME NEW t \in Threads, notifyRegister(t)
      PROVE  m_SessionMap' = theASSocks' /\ MainVisits'
  <2>1. /\ pc[t] = "inserting" /\ m_SessionMap' = insertSession(socket[t])
        /\ theASSocks' = theASSocks \cup {socket[t]}
        /\ UNCHANGED <<socket, m_SessionLock, iter>>
    BY <1>2 DEF notifyRegister, Insert
  <2>2. m_SessionMap' = theASSocks'
    BY <2>1, InsertsSame DEF EchoInv
  <2>3. t # main /\ entireSynch = t
    BY <2>1, <1>b, ServiceAssumption
    DEF EchoInv, MainVisits, BasicInv, Places, Role, Locked, WithSocket
  <2>4. pc[main] = "idle" /\ pc'[main] = "idle"
    BY <1>2, <2>3, <1>b, <1>c DEF notifyRegister, Insert, Goto
  <2> QED
    BY <2>1, <2>2, <2>4 DEF EchoInv, MainVisits
<1>3. ASSUME NEW t \in Threads, notifyRelease(t)
      PROVE  m_SessionMap' = theASSocks' /\ MainVisits'
  <2>1. /\ pc[t] = "erasing" /\ m_SessionLock \in {None, t}
        /\ m_SessionMap' = eraseSession(socket[t])
        /\ theASSocks' = theASSocks \ Lookup(uid[socket[t]])
        /\ UNCHANGED <<m_SessionLock, iter>>
    BY <1>3 DEF notifyRelease, SessionLockFree, Erase
  <2>2. m_SessionMap' = theASSocks'
    BY <2>1, ErasesOne DEF EchoInv
  <2>3. t # main /\ entireSynch = t
    BY <2>1, <1>b DEF EchoInv, MainVisits, BasicInv, Places, Locked, WithSocket
  <2>4. pc[main] = "idle" /\ pc'[main] = "idle"
    BY <1>3, <2>3, <1>b, <1>c DEF notifyRelease, Erase, LeaveReleaseSocket, Return, Goto
  <2>5. m_SessionLock' # main
    BY <2>1, <2>3, <1>b
  <2> QED
    BY <2>2, <2>4, <2>5 DEF MainVisits
<1>4. ASSUME NEW w \in Workers, notifyMessage(w)
      PROVE  m_SessionMap' = theASSocks' /\ MainVisits'
  <2>1. callback[w] \in Threads /\ callback[w] # main /\ entireSynch = None
    BY <1>4, EchoAssumption, Roles DEF notifyMessage
  <2>2. /\ pc[main] = "idle" /\ pc'[main] = "idle" /\ UNCHANGED theASSocks
    BY <1>4, <2>1, <1>b, <1>c DEF notifyMessage, postingSend, disconnectSocket, vars,
       socketVars, localVars, Goto
  <2> QED
    BY <1>4, <2>2 DEF notifyMessage, EchoInv, MainVisits
<1>5. ASSUME NEW w \in Workers, MessageReturns(w)
      PROVE  m_SessionMap' = theASSocks' /\ MainVisits'
  <2>1. /\ UNCHANGED <<theASSocks, referCount, socket, m_SessionMap, m_SessionLock, iter>>
        /\ pc'[main] = pc[main]
    BY <1>5, <1>b DEF MessageReturns, Message, socketVars, Goto
  <2> QED
    BY <2>1 DEF EchoInv, MainVisits
<1>6. CASE ProcessBegins
  <2>1. /\ pc[main] = "idle" /\ UNCHANGED <<pc, theASSocks, m_SessionMap>>
        /\ ToFirst(m_SessionMap)
    BY <1>6 DEF ProcessBegins, vars, socketVars, localVars
  <2>2. iter' # None => iter' \in m_SessionMap
    BY <2>1 DEF ToFirst
  <2> QED
    BY <2>1, <2>2 DEF EchoInv, MainVisits
<1>7. CASE ProcessSends
  <2>1. /\ m_SessionLock = main /\ iter # None /\ pc[main] = "idle" /\ entireSynch = None
        /\ UNCHANGED <<theASSocks, m_SessionMap, m_SessionLock, iter>>
        /\ iter \in m_SessionMap /\ iter \in Sockets
    BY <1>7, <1>b DEF ProcessSends, postingSend, vars, socketVars, EchoInv, MainVisits
  <2>2. CASE UNCHANGED vars
    BY <2>1, <2>2 DEF vars, localVars, EchoInv, MainVisits
  <2>3. CASE postingSend(main, iter)
    <3>1. life[iter] = "live" /\ ~ Between(iter)
      BY <2>1, <1>b, NoneBetween DEF EchoInv, BasicInv, UidInv, Alive
    <3>2. referCount[iter] >= 1
      BY <2>1, <3>1 DEF EchoInv, CountInv, HasReference
    <3>3. /\ pc'[main] = "WSASend" /\ socket'[main] = iter
          /\ referCount'[iter] = referCount[iter] + 1
      BY <1>b, <2>1, <2>3 DEF postingSend, Goto, enterIO
    <3> QED
      BY <1>b, <2>1, <3>2, <3>3 DEF EchoInv, MainVisits
  <2> QED
    BY <1>7, <2>2, <2>3 DEF ProcessSends
<1>8. CASE ProcessAdvances
  <2>1. /\ pc[main] = "idle" /\ UNCHANGED <<pc, theASSocks, m_SessionMap>>
        /\ ToFirst({s \in m_SessionMap : uid[s] > uid[iter]})
    BY <1>8 DEF ProcessAdvances, vars, socketVars, localVars
  <2>2. iter' # None => iter' \in m_SessionMap
    BY <2>1 DEF ToFirst
  <2> QED
    BY <2>1, <2>2 DEF EchoInv, MainVisits
<1>9. CASE ProcessEnds
  <2>1. /\ iter = None /\ UNCHANGED <<vars, m_SessionMap, iter>>
    BY <1>9 DEF ProcessEnds
  <2>2. pc[main] = "idle"
    BY <2>1 DEF EchoInv, MainVisits
  <2> QED
    BY <2>1, <2>2 DEF vars, socketVars, localVars, EchoInv, MainVisits
<1>10. CASE UNCHANGED allVars
  BY <1>10 DEF allVars, echoVars, vars, socketVars, localVars, EchoInv, MainVisits
<1> QED
  BY <1>1, <1>2, <1>3, <1>4, <1>5, <1>6, <1>7, <1>8, <1>9, <1>10 DEF EchoNext

LEMMA EchoInvariant == EchoSpec => []EchoInv
BY InitEcho, StepEcho, PTL DEF EchoSpec

(* The echo server uses the service as its own specification says, with any   *)
(* number of workers answering messages and Process sending: every theorem    *)
(* about Spec is one about the server.                                        *)
THEOREM EchoServerUsesService == EchoSpec => Spec
<1>1. EchoInit => Init
  BY DEF EchoInit
<1> QED
  BY <1>1, EchoInvariant, EchoStepsService, PTL DEF EchoSpec, Spec

(* The session map of the application lists exactly the sockets in the map of *)
(* the service whenever that is not at work under its lock.                   *)
THEOREM SessionMapsAgree == EchoSpec => []SessionMapMatches
<1>1. EchoInv => SessionMapMatches
  BY DEF EchoInv, SessionMapMatches
<1> QED
  BY <1>1, EchoInvariant, PTL

(* The entry that the iterator of Process is at stays in the map until ++iter *)
(* has left it, the send of that entry included: other threads wait for       *)
(* m_SessionLock, and a refused send of Process itself never gives the last   *)
(* reference back, because the session still has one of its own.              *)
THEOREM IteratorStaysValid == EchoSpec => []IteratorValid
<1>1. EchoInv => IteratorValid
  BY DEF EchoInv, MainVisits, IteratorValid
<1> QED
  BY <1>1, EchoInvariant, PTL

(* In the running server, too, no thread has a pointer to a deleted socket.   *)
THEOREM EchoServerUsesNoFreedSocket ==
  ASSUME ~ ReuseStale
  PROVE  EchoSpec => []NoUseAfterFree
BY EchoServerUsesService, NoSocketUsedAfterFree, PTL
=============================================================================
