-------------------- MODULE AsynchIOServiceReferences ---------------------
(* Theorems about who refers to a socket: its SOCKET value, the requests on   *)
(* it, the uid they come back with, and its reference count.  They hold if a  *)
(* SOCKET value is not handed out again while a thread still has it.          *)
EXTENDS AsynchIOServiceProofs

(* Where SOCKET values are.  A socket object and a thread that works on it    *)
(* agree on the value, or one of them has noticed that it was closed.         *)
Given(s) == life[s] \in {"live", "deleted"}

ThreadAgrees ==
  \A t \in Threads : socket[t] # None =>
    /\ Given(socket[t])
    /\ handle[t] # None => /\ sockID[socket[t]] \in {None, handle[t]}
                           /\ handle[t] \in open => sockID[socket[t]] = handle[t]
SocketAssociated ==
  \A s \in Sockets : Given(s) /\ sockID[s] \in open => assoc[sockID[s]] = uid[s]
OwnSOCKET ==
  /\ \A s, r \in Sockets : sockID[s] = sockID[r] /\ sockID[s] # None => s = r
  /\ \A s \in Sockets : life[s] = "unborn" => sockID[s] = None
ClosedByThread ==
  /\ \A t \in Threads : pc[t] = "setClosed" => handle[t] \notin open
  /\ \A s \in Sockets : sockID[s] # None /\ sockID[s] \notin open =>
       \E t \in Threads : pc[t] = "setClosed" /\ socket[t] = s /\ handle[t] = sockID[s]
AcceptedIsNew ==
  \A a \in Threads : pc[a] = "registerSocket" =>
    /\ handle[a] \in open
    /\ \A s \in Sockets : sockID[s] # handle[a]
    /\ \A t \in Threads : handle[t] = handle[a] => t = a
HandleInv == ThreadAgrees /\ SocketAssociated /\ OwnSOCKET /\ ClosedByThread /\ AcceptedIsNew

LEMMA InitHandles == Init => HandleInv
BY DEF Init, HandleInv, ThreadAgrees, SocketAssociated, OwnSOCKET, ClosedByThread,
   AcceptedIsNew

LEMMA StepHandles ==
  ASSUME ~ ReuseStale, BasicInv, BasicInv', HandleInv, [Next]_vars
  PROVE  HandleInv'
<1> USE ServiceAssumption, Roles
    DEF BasicInv, TInv, ObjectTypes, SystemTypes, LocalTypes, Local, WithFrame, WithSocket,
        WithHandle, Labels, Places, Role, Carries, Locked, Closing, WorkerOnly, HasHandle,
        UidInv, Alive, HandleInv, Given, ThreadAgrees, SocketAssociated, OwnSOCKET,
        ClosedByThread, AcceptedIsNew, socketVars, osVars, uidVars
<1>1. ASSUME NEW w \in Workers, NEW f \in Frames, GetQueuedCompletionStatus(w, f)
      PROVE  HandleInv'
  BY <1>1 DEF GetQueuedCompletionStatus, Goto
<1>2. ASSUME NEW w \in Workers, dispatchCompletion(w) PROVE HandleInv'
  BY <1>2 DEF dispatchCompletion, Goto, FoundLabel, Lookup
<1>3. ASSUME NEW w \in Workers, Disappeared(w) PROVE HandleInv'
  BY <1>3 DEF Disappeared, Goto, Return
<1>4. ASSUME NEW w \in Workers, dispatchError(w) PROVE HandleInv'
  BY <1>4 DEF dispatchError, Goto, Lookup
<1>5. ASSUME NEW w \in Workers, Connected(w) PROVE HandleInv'
  BY <1>5 DEF Connected, Goto
<1>6. ASSUME NEW w \in Workers, Message(w) PROVE HandleInv'
  BY <1>6 DEF Message, Goto
<1>7. ASSUME NEW t \in Threads, disconnect(t) PROVE HandleInv'
  BY <1>7 DEF disconnect, Goto, Return, AfterDisconnect
<1>8. ASSUME NEW t \in Threads, closesocket(t) PROVE HandleInv'
  BY <1>8 DEF closesocket, Goto
<1>9. ASSUME NEW t \in Threads, setClosed(t) PROVE HandleInv'
  BY <1>9 DEF setClosed, Goto, Return, AfterDisconnect, forgetSOCKET
<1>10. ASSUME NEW w \in Workers, postingRead(w) PROVE HandleInv'
  BY <1>10 DEF postingRead, Goto
<1>11. ASSUME NEW t \in Threads, WSARecv(t) PROVE HandleInv'
  BY <1>11 DEF WSARecv, Goto, Return, Posted, Refused, Unlock
<1>12. ASSUME NEW t \in Threads, releaseSocket(t) PROVE HandleInv'
  BY <1>12 DEF releaseSocket, Goto, Return, LeaveReleaseSocket
<1>13. ASSUME NEW t \in Threads, Erase(t) PROVE HandleInv'
  BY <1>13 DEF Erase, Goto, Return, LeaveReleaseSocket
<1>14. ASSUME NEW w \in Workers, ReleaseFrame(w) PROVE HandleInv'
  BY <1>14 DEF ReleaseFrame, Goto, Return
<1>15. ASSUME NEW a \in Acceptors, NEW h \in Handles, Accept(a, h)
       PROVE  HandleInv'
  BY <1>15 DEF Accept, Goto, NewHandle
<1>16. ASSUME NEW a \in Acceptors, registerSocket(a) PROVE HandleInv'
  <2>1. ThreadAgrees'
    BY <1>16 DEF registerSocket, Goto, Return, clone
  <2>2. SocketAssociated'
    BY <1>16 DEF registerSocket, Goto, Return, clone
  <2>3. OwnSOCKET'
    BY <1>16 DEF registerSocket, Goto, Return, clone
  <2>4. ClosedByThread'
    BY <1>16 DEF registerSocket, Goto, Return, clone
  <2>5. AcceptedIsNew'
    BY <1>16 DEF registerSocket, Goto, Return, clone
  <2> QED BY <2>1, <2>2, <2>3, <2>4, <2>5
<1>17. ASSUME NEW t \in Threads, Insert(t) PROVE HandleInv'
  BY <1>17 DEF Insert, Goto
<1>18. ASSUME NEW c \in Connectors, NEW h \in Handles, connectSocket(c, h)
       PROVE  HandleInv'
  <2>1. ThreadAgrees'
    BY <1>18 DEF connectSocket, Goto, localVars, clone, NewHandle
  <2>2. SocketAssociated'
    BY <1>18 DEF connectSocket, Goto, localVars, clone, NewHandle
  <2>3. OwnSOCKET'
    <3>1. \A r \in Sockets : sockID[r] # h
      BY <1>18 DEF connectSocket, NewHandle, ClosedByThread
    <3>2. CASE UNCHANGED <<sockID, life>>
      BY <3>2 DEF OwnSOCKET
    <3>3. CASE ~ UNCHANGED <<sockID, life>>
      <4>1. PICK s \in Sockets : /\ sockID' = [sockID EXCEPT ![s] = h]
                                 /\ life'[s] # "unborn"
                                 /\ \A r \in Sockets \ {s} : life'[r] = life[r]
        BY <1>18, <3>3 DEF connectSocket
      <4> QED
        BY <3>1, <4>1 DEF OwnSOCKET
    <3> QED BY <3>2, <3>3
  <2>4. ClosedByThread'
    <3>1. /\ open' = open \cup {h} /\ \A t \in Threads : handle[t] # h
          /\ \A t \in Threads : pc[t] = "setClosed" \/ pc'[t] = "setClosed"
                 => pc'[t] = pc[t] /\ socket'[t] = socket[t] /\ handle'[t] = handle[t]
      BY <1>18 DEF connectSocket, NewHandle, localVars, Goto
    <3>2. \A s \in Sockets : sockID'[s] = sockID[s] \/ sockID'[s] = h
      BY <1>18 DEF connectSocket
    <3> QED BY <3>1, <3>2 DEF ClosedByThread
  <2>5. AcceptedIsNew'
    BY <1>18 DEF connectSocket, Goto, localVars, clone, NewHandle
  <2> QED BY <2>1, <2>2, <2>3, <2>4, <2>5
<1>19. ASSUME NEW c \in Connectors, ConnectEx(c) PROVE HandleInv'
  <2>1. ThreadAgrees'
    BY <1>19 DEF ConnectEx, Goto, Return, Posted, Refused, Unlock
  <2>2. SocketAssociated'
    BY <1>19 DEF ConnectEx, Goto, Return, Posted, Refused, Unlock
  <2>3. OwnSOCKET'
    BY <1>19 DEF ConnectEx, Goto, Return, Posted, Refused, Unlock
  <2>4. ClosedByThread'
    <3>1. UNCHANGED <<sockID, open>>
      BY <1>19 DEF ConnectEx
    <3>2. \A t \in Threads : pc[t] = "setClosed" \/ pc'[t] = "setClosed"
             => pc'[t] = pc[t] /\ socket'[t] = socket[t] /\ handle'[t] = handle[t]
      BY <1>19 DEF ConnectEx, Goto, Return, Posted, Refused
    <3> QED BY <3>1, <3>2 DEF ClosedByThread
  <2>5. AcceptedIsNew'
    BY <1>19 DEF ConnectEx, Goto, Return, Posted, Refused, Unlock
  <2> QED BY <2>1, <2>2, <2>3, <2>4, <2>5
<1>20. ASSUME NEW c \in Clients, NEW s \in Sockets, postingSend(c, s)
       PROVE  HandleInv'
  BY <1>20 DEF postingSend, Goto, Current, CanSend, Lookup
<1>21. ASSUME NEW c \in Clients, WSASend(c) PROVE HandleInv'
  BY <1>21 DEF WSASend, Goto, Return, Posted, Refused, Unlock
<1>22. ASSUME NEW c \in Clients, NEW s \in Sockets, disconnectSocket(c, s)
       PROVE  HandleInv'
  BY <1>22 DEF disconnectSocket, Goto, Current, Lookup
<1>23. ASSUME NEW f \in Frames, Completes(f) PROVE HandleInv'
  BY <1>23 DEF Completes, localVars
<1>24. CASE UNCHANGED vars
  BY <1>24 DEF vars, localVars
<1> QED
  BY <1>1, <1>2, <1>3, <1>4, <1>5, <1>6, <1>7, <1>8, <1>9, <1>10, <1>11, <1>12,
     <1>13, <1>14, <1>15, <1>16, <1>17, <1>18, <1>19, <1>20, <1>21, <1>22,
     <1>23, <1>24 DEF Next, WorkerStep, DispatchStep, SocketStep, SharedStep,
     StaleCall

(* What a request knows.  A posted one lies on the open SOCKET of its socket; *)
(* a key it came back with is the uid of that socket.                         *)
Dispatches(t) == pc[t] \in {"dispatchCompletion", "dispatchError"}

PostedOnOwn ==
  \A f \in Frames : io[f].state = "posted" =>
    /\ io[f].sock \in Sockets /\ Given(io[f].sock)
    /\ io[f].on \in open /\ sockID[io[f].sock] = io[f].on
KeyedByUid ==
  \A f \in Frames : io[f].key # 0 =>
    io[f].sock \in Sockets /\ Given(io[f].sock) /\ io[f].key = uid[io[f].sock]
DispatchedKeyed ==
  /\ \A f \in Frames : io[f].state = "queued" => io[f].key # 0
  /\ \A t \in Threads : Dispatches(t) => io[op[t]].key # 0
RequestInv == PostedOnOwn /\ KeyedByUid /\ DispatchedKeyed

LEMMA InitRequests == Init => RequestInv
BY DEF Init, RequestInv, PostedOnOwn, KeyedByUid, DispatchedKeyed, Dispatches, Blank

(* A request that ends on a SOCKET comes back with the uid of its socket.     *)
LEMMA KeyOfCompletion ==
  ASSUME BasicInv, HandleInv, RequestInv, NEW f \in Frames, io[f].state = "posted"
  PROVE  assoc[io[f].on] = uid[io[f].sock] /\ uid[io[f].sock] # 0
<1>1. /\ io[f].sock \in Sockets /\ Given(io[f].sock)
      /\ io[f].on \in open /\ sockID[io[f].sock] = io[f].on
  BY DEF RequestInv, PostedOnOwn
<1>2. io[f].sock \in Constructed
  BY <1>1 DEF Constructed, Given
<1> QED
  BY <1>1, <1>2 DEF HandleInv, SocketAssociated, BasicInv, UidInv, InRange, Numbers,
     PrototypeUid,
     TInv, UidTypes

LEMMA RequestsKept ==
  ASSUME RequestInv, UNCHANGED io,
         \A s \in Sockets : Given(s) => Given(s)' /\ uid'[s] = uid[s],
         \A f \in Frames : io[f].state = "posted" =>
            io[f].on \in open' /\ sockID'[io[f].sock] = io[f].on,
         \A t \in Threads : Dispatches(t)' => Dispatches(t) /\ op'[t] = op[t]
  PROVE  RequestInv'
<1>1. PostedOnOwn' /\ KeyedByUid'
  BY DEF RequestInv, PostedOnOwn, KeyedByUid
<1>2. DispatchedKeyed'
  BY DEF RequestInv, DispatchedKeyed, Dispatches
<1> QED
  BY <1>1, <1>2 DEF RequestInv

LEMMA RequestFreed ==
  ASSUME BasicInv, RequestInv, NEW t \in Threads, op[t] \in Frames,
         io' = [io EXCEPT ![op[t]] = Blank], UNCHANGED <<uid, life, sockID, open>>,
         \A u \in Threads : Dispatches(u)' => u # t /\ Dispatches(u) /\ op'[u] = op[u]
  PROVE  RequestInv'
<1>1. io'[op[t]] = Blank /\ \A f \in Frames \ {op[t]} : io'[f] = io[f]
  BY DEF BasicInv, TInv, FrameTypes
<1>2. PostedOnOwn' /\ KeyedByUid'
  BY <1>1 DEF RequestInv, PostedOnOwn, KeyedByUid, Given, Blank
<1>3. \A f \in Frames : io'[f].state = "queued" => io'[f].key # 0
  BY <1>1 DEF RequestInv, DispatchedKeyed, Blank
<1>4. ASSUME NEW u \in Threads, Dispatches(u)' PROVE io'[op'[u]].key # 0
  <2>1. op[u] \in Frames /\ op[u] # op[t]
    BY <1>4, ServiceAssumption DEF BasicInv, FrameInv, FrameOwnership, TInv,
       LocalTypes, Local, WithFrame, Dispatches
  <2> QED
    BY <1>1, <1>4, <2>1 DEF RequestInv, DispatchedKeyed, Dispatches
<1> QED
  BY <1>2, <1>3, <1>4 DEF RequestInv, DispatchedKeyed, Dispatches

LEMMA RequestMade ==
  ASSUME BasicInv, HandleInv, RequestInv, NEW t \in Threads, NEW type, op[t] \in Frames,
         socket[t] \in Sockets, handle[t] \in open,
         io' = [io EXCEPT ![op[t]] = Request(type, socket[t], handle[t])],
         UNCHANGED <<uid, life, sockID, open>>,
         \A u \in Threads : Dispatches(u)' => u # t /\ Dispatches(u) /\ op'[u] = op[u]
  PROVE  RequestInv'
<1>1. /\ io'[op[t]] = Request(type, socket[t], handle[t])
      /\ \A f \in Frames \ {op[t]} : io'[f] = io[f]
  BY DEF BasicInv, TInv, FrameTypes
<1>2. Given(socket[t]) /\ sockID[socket[t]] = handle[t]
  BY ServiceAssumption DEF HandleInv, ThreadAgrees, BasicInv, TInv, SystemTypes
<1>3. PostedOnOwn' /\ KeyedByUid'
  BY <1>1, <1>2 DEF RequestInv, PostedOnOwn, KeyedByUid, Given, Request
<1>4. \A f \in Frames : io'[f].state = "queued" => io'[f].key # 0
  BY <1>1 DEF RequestInv, DispatchedKeyed, Request
<1>5. ASSUME NEW u \in Threads, Dispatches(u)' PROVE io'[op'[u]].key # 0
  <2>1. op[u] \in Frames /\ op[u] # op[t]
    BY <1>5, ServiceAssumption DEF BasicInv, FrameInv, FrameOwnership, TInv,
       LocalTypes, Local, WithFrame, Dispatches
  <2> QED
    BY <1>1, <1>5, <2>1 DEF RequestInv, DispatchedKeyed, Dispatches
<1> QED
  BY <1>3, <1>4, <1>5 DEF RequestInv, DispatchedKeyed, Dispatches

LEMMA RequestsEnded ==
  ASSUME BasicInv, HandleInv, RequestInv, NEW ended \in SUBSET Frames,
         \A f \in ended : /\ io[f].state = "posted"
                          /\ \E r : io'[f] = Completion(f, r),
         \A f \in Frames \ ended : io'[f] = io[f],
         UNCHANGED <<uid, life, sockID>>,
         \A f \in Frames \ ended : io[f].state = "posted" => io[f].on \in open',
         \A u \in Threads : Dispatches(u)' => Dispatches(u) /\ op'[u] = op[u]
  PROVE  RequestInv'
<1>1. ASSUME NEW f \in ended
      PROVE  /\ io'[f].state = "queued" /\ io'[f].sock = io[f].sock
             /\ io'[f].key = uid[io[f].sock] /\ uid[io[f].sock] # 0
             /\ io[f].sock \in Sockets /\ Given(io[f].sock)
  <2>1. assoc[io[f].on] = uid[io[f].sock] /\ uid[io[f].sock] # 0
    BY KeyOfCompletion
  <2>2. io[f] \in FrameFields
    BY DEF BasicInv, TInv, FrameTypes
  <2> QED
    BY <2>1, <2>2 DEF Completion, FrameFields, RequestInv, PostedOnOwn
<1>2. PostedOnOwn' /\ KeyedByUid'
  BY <1>1 DEF RequestInv, PostedOnOwn, KeyedByUid, Given
<1>3. \A f \in Frames : io'[f].state = "queued" => io'[f].key # 0
  BY <1>1 DEF RequestInv, DispatchedKeyed
<1>4. ASSUME NEW u \in Threads, Dispatches(u)' PROVE io'[op'[u]].key # 0
  <2>1. op[u] \in Frames /\ op[u] \notin InUse
    BY <1>4, ServiceAssumption DEF BasicInv, FrameInv, FrameOwnership, InHand, TInv,
       LocalTypes, Local, WithFrame, Dispatches
  <2> QED
    BY <1>4, <2>1 DEF RequestInv, DispatchedKeyed, Dispatches, InUse
<1> QED
  BY <1>2, <1>3, <1>4 DEF RequestInv, DispatchedKeyed, Dispatches

LEMMA StepRequests ==
  ASSUME BasicInv, BasicInv', HandleInv, HandleInv', RequestInv, [Next]_vars
  PROVE  RequestInv'
<1>a. /\ FrameInv /\ UidInv /\ Places
      /\ ObjectTypes /\ SystemTypes /\ FrameTypes /\ LocalTypes
  BY DEF BasicInv, TInv
<1> USE ServiceAssumption, Roles, <1>a DEF LocalTypes
<1> DEFINE KnownKept == \A s \in Sockets : Given(s) => Given(s)' /\ uid'[s] = uid[s]
           PostedKept == \A f \in Frames : io[f].state = "posted" =>
                            io[f].on \in open' /\ sockID'[io[f].sock] = io[f].on
           DispatchKept == \A t \in Threads : Dispatches(t)' => Dispatches(t) /\ op'[t] = op[t]
<1>0. UNCHANGED io /\ KnownKept /\ PostedKept /\ DispatchKept => RequestInv'
  BY RequestsKept
<1>1. ASSUME NEW w \in Workers, NEW f \in Frames, GetQueuedCompletionStatus(w, f)
      PROVE  RequestInv'
  <2>1. UNCHANGED <<uid, life, sockID, open>>
    BY <1>1 DEF GetQueuedCompletionStatus, socketVars, osVars
  <2>2. /\ \A g \in Frames : /\ io'[g].sock = io[g].sock /\ io'[g].on = io[g].on /\ io'[g].key = io[g].key
                             /\ io'[g].state # "user" => io'[g].state = io[g].state
        /\ io[f].key # 0 /\ f \in Frames
    BY <1>1 DEF GetQueuedCompletionStatus, FrameTypes, FrameFields, RequestInv,
       DispatchedKeyed
  <2>3. PostedOnOwn' /\ KeyedByUid'
    <3>1. \A s \in Sockets : Given(s)' = Given(s)
      BY <2>1 DEF Given
    <3>2. ASSUME NEW g \in Frames, io'[g].state = "posted" PROVE io[g].state = "posted"
      BY <2>2, <3>2
    <3>3. PostedOnOwn'
      BY <2>1, <2>2, <3>1, <3>2 DEF RequestInv, PostedOnOwn
    <3>4. KeyedByUid'
      BY <2>1, <2>2, <3>1 DEF RequestInv, KeyedByUid
    <3> QED BY <3>3, <3>4
  <2>4. \A u \in Threads : Dispatches(u)' => (u = w /\ op'[u] = f) \/ (Dispatches(u) /\ op'[u] = op[u] /\ op[u] \in Frames)
    BY <1>1 DEF GetQueuedCompletionStatus, Goto, Dispatches, Local, WithFrame
  <2>5. \A u \in Threads : Dispatches(u)' => io'[op'[u]].key # 0
    BY <2>2, <2>4 DEF RequestInv, DispatchedKeyed
  <2>6. \A g \in Frames : io'[g].state = "queued" => io'[g].key # 0
    BY <2>2 DEF RequestInv, DispatchedKeyed
  <2> QED BY <2>3, <2>5, <2>6 DEF RequestInv, DispatchedKeyed
<1>2. ASSUME NEW w \in Workers, dispatchCompletion(w) PROVE RequestInv'
  <2>1. UNCHANGED io
    BY <1>2 DEF dispatchCompletion, frameVars
  <2>2. KnownKept
    BY <1>2 DEF dispatchCompletion, Goto, FoundLabel, socketVars, osVars, Given
  <2>3. PostedKept
    BY <1>2 DEF dispatchCompletion, Goto, FoundLabel, socketVars, osVars,
       RequestInv, PostedOnOwn
  <2>4. DispatchKept
    BY <1>2 DEF dispatchCompletion, Goto, FoundLabel, Dispatches
  <2> QED BY <1>0, <2>1, <2>2, <2>3, <2>4
<1>3. ASSUME NEW w \in Workers, Disappeared(w) PROVE RequestInv'
  <2>1. op[w] \in Frames /\ io' = [io EXCEPT ![op[w]] = Blank] /\ UNCHANGED <<uid, life, sockID, open>>
    BY <1>3 DEF Disappeared, releaseIOFrame, Local, WithFrame, socketVars, osVars
  <2>2. \A u \in Threads : Dispatches(u)' => u # w /\ Dispatches(u) /\ op'[u] = op[u]
    BY <1>3 DEF Disappeared, Goto, Return, Dispatches
  <2> QED BY <2>1, <2>2, RequestFreed
<1>4. ASSUME NEW w \in Workers, dispatchError(w) PROVE RequestInv'
  <2>1. UNCHANGED io
    BY <1>4 DEF dispatchError, frameVars
  <2>2. KnownKept
    BY <1>4 DEF dispatchError, Goto, socketVars, osVars, Given
  <2>3. PostedKept
    BY <1>4 DEF dispatchError, Goto, socketVars, osVars, RequestInv,
       PostedOnOwn
  <2>4. DispatchKept
    BY <1>4 DEF dispatchError, Goto, Dispatches
  <2> QED BY <1>0, <2>1, <2>2, <2>3, <2>4
<1>5. ASSUME NEW w \in Workers, Connected(w) PROVE RequestInv'
  <2>1. op[w] \in Frames /\ UNCHANGED <<uid, life, sockID, open>>
    BY <1>5 DEF Connected, Local, WithFrame, socketVars, osVars
  <2>2. \A u \in Threads : Dispatches(u)' => u # w /\ Dispatches(u) /\ op'[u] = op[u]
    BY <1>5 DEF Connected, Goto, Dispatches
  <2>3. CASE UNCHANGED io
    BY <1>0, <2>1, <2>2, <2>3 DEF RequestInv, PostedOnOwn, Given
  <2>4. CASE io' = [io EXCEPT ![op[w]] = Blank]
    BY <2>1, <2>2, <2>4, RequestFreed
  <2> QED BY <1>5, <2>3, <2>4 DEF Connected, frameVars, releaseIOFrame
<1>6. ASSUME NEW w \in Workers, Message(w) PROVE RequestInv'
  <2>1. UNCHANGED io
    BY <1>6 DEF Message, frameVars
  <2>2. KnownKept
    BY <1>6 DEF Message, Goto, socketVars, osVars, Given
  <2>3. PostedKept
    BY <1>6 DEF Message, Goto, socketVars, osVars, RequestInv, PostedOnOwn
  <2>4. DispatchKept
    BY <1>6 DEF Message, Goto, Dispatches
  <2> QED BY <1>0, <2>1, <2>2, <2>3, <2>4
<1>7. ASSUME NEW t \in Threads, disconnect(t) PROVE RequestInv'
  <2>1. UNCHANGED io
    BY <1>7 DEF disconnect, frameVars
  <2>2. KnownKept
    BY <1>7 DEF disconnect, Goto, Return, AfterDisconnect, socketVars, osVars,
       Given
  <2>3. PostedKept
    BY <1>7 DEF disconnect, Goto, Return, AfterDisconnect, socketVars, osVars,
       RequestInv, PostedOnOwn
  <2>4. DispatchKept
    BY <1>7 DEF disconnect, Goto, Return, AfterDisconnect, Dispatches, Local,
       WithFrame, Places, Carries
  <2> QED BY <1>0, <2>1, <2>2, <2>3, <2>4
<1>8. ASSUME NEW t \in Threads, closesocket(t) PROVE RequestInv'
  <2>1. PICK ended \in SUBSET Frames : ended = {f \in Frames : Cancelled(f, handle[t])}
    OBVIOUS
  <2>2. UNCHANGED <<uid, life, sockID>> /\ open' = open \ {handle[t]} /\ handle[t] \in Handles
    BY <1>8 DEF closesocket, socketVars, Local, WithHandle
  <2>3. DispatchKept
    BY <1>8 DEF closesocket, Goto, Dispatches
  <2>4. \A f \in ended : io[f].state = "posted" /\ \E r : io'[f] = Completion(f, r)
    <3>1. ASSUME NEW f \in ended PROVE assoc[handle[t]] # 0
      BY <2>1, KeyOfCompletion DEF Cancelled
    <3> QED BY <1>8, <2>1, <3>1 DEF closesocket, Cancelled
  <2>5. \A f \in Frames \ ended : io'[f] = io[f] /\ (io[f].state = "posted" => io[f].on \in open')
    BY <1>8, <2>1, <2>2 DEF closesocket, Cancelled, RequestInv, PostedOnOwn
  <2> QED BY <2>2, <2>3, <2>4, <2>5, RequestsEnded
<1>9. ASSUME NEW t \in Threads, setClosed(t) PROVE RequestInv'
  <2>1. UNCHANGED io
    BY <1>9 DEF setClosed, frameVars
  <2>2. KnownKept
    BY <1>9 DEF setClosed, Goto, Return, AfterDisconnect, forgetSOCKET,
       socketVars, osVars, Given
  <2>3. PostedKept
    BY <1>9 DEF setClosed, Goto, Return, AfterDisconnect, forgetSOCKET,
       socketVars, osVars, RequestInv, PostedOnOwn, HandleInv, ThreadAgrees,
       ClosedByThread, Places, Carries, Local, WithSocket, ObjectTypes
  <2>4. DispatchKept
    BY <1>9 DEF setClosed, Goto, Return, AfterDisconnect, Dispatches, Local,
       WithFrame, Places, Carries
  <2> QED BY <1>0, <2>1, <2>2, <2>3, <2>4
<1>10. ASSUME NEW w \in Workers, postingRead(w) PROVE RequestInv'
  <2>1. UNCHANGED io
    BY <1>10 DEF postingRead, frameVars
  <2>2. KnownKept
    BY <1>10 DEF postingRead, Goto, socketVars, osVars, Given
  <2>3. PostedKept
    BY <1>10 DEF postingRead, Goto, socketVars, osVars, RequestInv, PostedOnOwn
  <2>4. DispatchKept
    BY <1>10 DEF postingRead, Goto, Dispatches
  <2> QED BY <1>0, <2>1, <2>2, <2>3, <2>4
<1>11. ASSUME NEW t \in Threads, WSARecv(t) PROVE RequestInv'
  <2>1. op[t] \in Frames /\ socket[t] \in Sockets /\ UNCHANGED <<uid, life, sockID, open>>
    BY <1>11 DEF WSARecv, Local, WithFrame, WithSocket, socketVars, osVars
  <2>2. \A u \in Threads : Dispatches(u)' => u # t /\ Dispatches(u) /\ op'[u] = op[u]
    BY <1>11 DEF WSARecv, Goto, Return, Posted, Refused, Unlock, Dispatches
  <2>3. CASE Posted(t, "read")
    BY <2>1, <2>2, <2>3, RequestMade DEF Posted
  <2>4. CASE Refused(t)
    <3>1. io' = [io EXCEPT ![op[t]] = Blank]
      BY <2>4 DEF Refused, releaseIOFrame
    <3> QED BY <2>1, <2>2, <3>1, RequestFreed
  <2> QED BY <1>11, <2>3, <2>4 DEF WSARecv
<1>12. ASSUME NEW t \in Threads, releaseSocket(t) PROVE RequestInv'
  <2>1. UNCHANGED io
    BY <1>12 DEF releaseSocket, frameVars
  <2>2. KnownKept
    BY <1>12 DEF releaseSocket, Goto, Return, LeaveReleaseSocket, socketVars,
       osVars, Given
  <2>3. PostedKept
    BY <1>12 DEF releaseSocket, Goto, Return, LeaveReleaseSocket, socketVars,
       osVars, RequestInv, PostedOnOwn
  <2>4. DispatchKept
    BY <1>12 DEF releaseSocket, Goto, Return, LeaveReleaseSocket, Dispatches
  <2> QED BY <1>0, <2>1, <2>2, <2>3, <2>4
<1>13. ASSUME NEW t \in Threads, Erase(t) PROVE RequestInv'
  <2>1. UNCHANGED io
    BY <1>13 DEF Erase, frameVars
  <2>2. KnownKept
    BY <1>13 DEF Erase, Goto, Return, LeaveReleaseSocket, socketVars, osVars,
       Given, ObjectTypes
  <2>3. PostedKept
    BY <1>13 DEF Erase, Goto, Return, LeaveReleaseSocket, socketVars, osVars,
       RequestInv, PostedOnOwn
  <2>4. DispatchKept
    BY <1>13 DEF Erase, Goto, Return, LeaveReleaseSocket, Dispatches
  <2> QED BY <1>0, <2>1, <2>2, <2>3, <2>4
<1>14. ASSUME NEW w \in Workers, ReleaseFrame(w) PROVE RequestInv'
  <2>1. op[w] \in Frames /\ io' = [io EXCEPT ![op[w]] = Blank] /\ UNCHANGED <<uid, life, sockID, open>>
    BY <1>14 DEF ReleaseFrame, releaseIOFrame, Local, WithFrame, socketVars, osVars
  <2>2. \A u \in Threads : Dispatches(u)' => u # w /\ Dispatches(u) /\ op'[u] = op[u]
    BY <1>14 DEF ReleaseFrame, Goto, Return, Dispatches
  <2> QED BY <2>1, <2>2, RequestFreed
<1>15. ASSUME NEW a \in Acceptors, NEW h \in Handles, Accept(a, h)
       PROVE  RequestInv'
  <2>1. UNCHANGED io
    BY <1>15 DEF Accept, frameVars
  <2>2. KnownKept
    BY <1>15 DEF Accept, Goto, NewHandle, socketVars, osVars, Given
  <2>3. PostedKept
    BY <1>15 DEF Accept, Goto, NewHandle, socketVars, osVars, RequestInv,
       PostedOnOwn
  <2>4. DispatchKept
    BY <1>15 DEF Accept, Goto, Dispatches
  <2> QED BY <1>0, <2>1, <2>2, <2>3, <2>4
<1>16. ASSUME NEW a \in Acceptors, registerSocket(a) PROVE RequestInv'
  <2>1. UNCHANGED io
    BY <1>16 DEF registerSocket, frameVars
  <2>2. KnownKept
    BY <1>16 DEF registerSocket, Goto, Return, clone, socketVars, osVars,
       Given, ObjectTypes
  <2>3. PostedKept
    BY <1>16 DEF registerSocket, Goto, Return, clone, socketVars, osVars,
       RequestInv, PostedOnOwn, Given, ObjectTypes
  <2>4. DispatchKept
    BY <1>16 DEF registerSocket, Goto, Return, Dispatches
  <2> QED BY <1>0, <2>1, <2>2, <2>3, <2>4
<1>17. ASSUME NEW t \in Threads, Insert(t) PROVE RequestInv'
  <2>1. UNCHANGED io
    BY <1>17 DEF Insert, frameVars, retrieveIOFrame
  <2>2. KnownKept
    BY <1>17 DEF Insert, Goto, retrieveIOFrame, socketVars, osVars, Given
  <2>3. PostedKept
    BY <1>17 DEF Insert, Goto, retrieveIOFrame, socketVars, osVars, RequestInv,
       PostedOnOwn
  <2>4. DispatchKept
    BY <1>17 DEF Insert, Goto, Dispatches
  <2> QED BY <1>0, <2>1, <2>2, <2>3, <2>4
<1>18. ASSUME NEW c \in Connectors, NEW h \in Handles, connectSocket(c, h)
       PROVE  RequestInv'
  <2>1. UNCHANGED io
    BY <1>18 DEF connectSocket, frameVars
  <2>2. KnownKept
    BY <1>18 DEF connectSocket, Goto, localVars, clone, NewHandle, socketVars,
       osVars, Given, ObjectTypes
  <2>3. PostedKept
    BY <1>18 DEF connectSocket, Goto, localVars, clone, NewHandle, socketVars,
       osVars, RequestInv, PostedOnOwn, Given, ObjectTypes
  <2>4. DispatchKept
    BY <1>18 DEF connectSocket, Goto, localVars, Dispatches
  <2> QED BY <1>0, <2>1, <2>2, <2>3, <2>4
<1>19. ASSUME NEW c \in Connectors, ConnectEx(c) PROVE RequestInv'
  <2>1. op[c] \in Frames /\ socket[c] \in Sockets /\ UNCHANGED <<uid, life, sockID, open>>
    BY <1>19 DEF ConnectEx, Local, WithFrame, WithSocket, socketVars, osVars
  <2>2. \A u \in Threads : Dispatches(u)' => u # c /\ Dispatches(u) /\ op'[u] = op[u]
    BY <1>19 DEF ConnectEx, Goto, Return, Posted, Refused, Unlock, Dispatches
  <2>3. CASE Posted(c, "connect")
    BY <2>1, <2>2, <2>3, RequestMade DEF Posted
  <2>4. CASE Refused(c)
    <3>1. io' = [io EXCEPT ![op[c]] = Blank]
      BY <2>4 DEF Refused, releaseIOFrame
    <3> QED BY <2>1, <2>2, <3>1, RequestFreed
  <2> QED BY <1>19, <2>3, <2>4 DEF ConnectEx
<1>20. ASSUME NEW c \in Clients, NEW s \in Sockets, postingSend(c, s)
       PROVE  RequestInv'
  <2>1. UNCHANGED io
    BY <1>20 DEF postingSend, frameVars, retrieveIOFrame
  <2>2. KnownKept
    BY <1>20 DEF postingSend, Goto, retrieveIOFrame, socketVars, osVars, Given
  <2>3. PostedKept
    BY <1>20 DEF postingSend, Goto, retrieveIOFrame, socketVars, osVars,
       RequestInv, PostedOnOwn
  <2>4. DispatchKept
    BY <1>20 DEF postingSend, Goto, Dispatches
  <2> QED BY <1>0, <2>1, <2>2, <2>3, <2>4
<1>21. ASSUME NEW c \in Clients, WSASend(c) PROVE RequestInv'
  <2>1. op[c] \in Frames /\ socket[c] \in Sockets /\ UNCHANGED <<uid, life, sockID, open>>
    BY <1>21 DEF WSASend, Local, WithFrame, WithSocket, socketVars, osVars
  <2>2. \A u \in Threads : Dispatches(u)' => u # c /\ Dispatches(u) /\ op'[u] = op[u]
    BY <1>21 DEF WSASend, Goto, Return, Posted, Refused, Unlock, Dispatches
  <2>3. CASE Posted(c, "write")
    BY <2>1, <2>2, <2>3, RequestMade DEF Posted
  <2>4. CASE Refused(c)
    <3>1. io' = [io EXCEPT ![op[c]] = Blank]
      BY <2>4 DEF Refused, releaseIOFrame
    <3> QED BY <2>1, <2>2, <3>1, RequestFreed
  <2> QED BY <1>21, <2>3, <2>4 DEF WSASend
<1>22. ASSUME NEW c \in Clients, NEW s \in Sockets, disconnectSocket(c, s)
       PROVE  RequestInv'
  <2>1. UNCHANGED io
    BY <1>22 DEF disconnectSocket, frameVars
  <2>2. KnownKept
    BY <1>22 DEF disconnectSocket, Goto, socketVars, osVars, Given
  <2>3. PostedKept
    BY <1>22 DEF disconnectSocket, Goto, socketVars, osVars, RequestInv,
       PostedOnOwn
  <2>4. DispatchKept
    BY <1>22 DEF disconnectSocket, Goto, Dispatches
  <2> QED BY <1>0, <2>1, <2>2, <2>3, <2>4
<1>23. ASSUME NEW f \in Frames, Completes(f) PROVE RequestInv'
  <2>1. UNCHANGED <<uid, life, sockID, open>>
    BY <1>23 DEF Completes, socketVars, osVars
  <2>2. DispatchKept
    BY <1>23 DEF Completes, localVars, Dispatches
  <2>3. /\ io[f].state = "posted" /\ \E r : io'[f] = Completion(f, r)
        /\ \A g \in Frames \ {f} : io'[g] = io[g]
    BY <1>23 DEF Completes, FrameTypes
  <2>4. \A g \in Frames : io[g].state = "posted" => io[g].on \in open'
    BY <2>1 DEF RequestInv, PostedOnOwn
  <2>5. PICK ended \in SUBSET Frames : ended = {f}
    OBVIOUS
  <2>6. /\ \A g \in ended : io[g].state = "posted" /\ \E r : io'[g] = Completion(g, r)
        /\ \A g \in Frames \ ended : io'[g] = io[g] /\ (io[g].state = "posted" => io[g].on \in open')
    BY <2>3, <2>4, <2>5
  <2> QED BY <2>1, <2>2, <2>6, RequestsEnded
<1>24. CASE UNCHANGED vars
  BY <1>0, <1>24 DEF vars, socketVars, osVars, frameVars, localVars, RequestInv,
     PostedOnOwn,
     Given, Dispatches
<1> QED
  BY <1>1, <1>2, <1>3, <1>4, <1>5, <1>6, <1>7, <1>8, <1>9, <1>10, <1>11, <1>12,
     <1>13, <1>14, <1>15, <1>16, <1>17, <1>18, <1>19, <1>20, <1>21, <1>22,
     <1>23, <1>24 DEF Next, WorkerStep, DispatchStep, SocketStep, SharedStep,
     StaleCall

(* Why the reference count can be trusted.  It covers the references there    *)
(* are (and is their number, if no lookup misses); a socket that is not in    *)
(* the map has none, nor has one that is being erased; and whoever works on a *)
(* socket found it in the map, or is about to put it there.                   *)
CountedAt(s) ==
  /\ IsFiniteSet(Outstanding(s)) /\ IsFiniteSet(Dispatching(s)) /\ IsFiniteSet(Using(s))
  /\ referCount[s] >= References(s)
  /\ TornFind \/ referCount[s] = References(s)
Counted == \A s \in Sockets : CountedAt(s)
NoneLeft ==
  /\ \A s \in Sockets : s \notin theASSocks => referCount[s] = 0
  /\ \A t \in Threads : pc[t] = "erasing" => referCount[socket[t]] = 0
InMap ==
  \A t \in Threads : socket[t] # None => (pc[t] = "inserting" <=> socket[t] \notin theASSocks)
RefInv == Counted /\ NoneLeft /\ InMap

LEMMA OneEnters ==
  ASSUME NEW S, NEW T, NEW x, IsFiniteSet(S), x \notin S, T = S \cup {x}
  PROVE  /\ IsFiniteSet(T) /\ Cardinality(S) \in Nat
         /\ Cardinality(T) = Cardinality(S) + 1
BY FS_AddElement, FS_CardinalityType

LEMMA OneLeaves ==
  ASSUME NEW S, NEW T, NEW x, IsFiniteSet(S), x \in S, T = S \ {x}
  PROVE  /\ IsFiniteSet(T) /\ Cardinality(T) \in Nat
         /\ Cardinality(S) = Cardinality(T) + 1
<1>1. IsFiniteSet(T) /\ Cardinality(T) = Cardinality(S) - 1
  BY FS_RemoveElement
<1>2. Cardinality(T) \in Nat /\ Cardinality(S) \in Nat
  BY <1>1, FS_CardinalityType
<1> QED
  BY <1>1, <1>2

LEMMA CountsAreNumbers ==
  ASSUME BasicInv, Counted, NEW s \in Sockets
  PROVE  /\ Cardinality(Outstanding(s)) \in Nat /\ Cardinality(Dispatching(s)) \in Nat
         /\ Cardinality(Using(s)) \in Nat /\ referCount[s] \in Int
BY FS_CardinalityType DEF Counted, CountedAt, BasicInv, TInv, ObjectTypes

LEMMA InitReferences == Init => RefInv
<1> SUFFICES ASSUME Init PROVE RefInv
  OBVIOUS
<1>1. ASSUME NEW s \in Sockets
      PROVE Outstanding(s) = {} /\ Dispatching(s) = {} /\ Using(s) = {}
  BY ServiceAssumption, Roles
  DEF Init, Outstanding, Dispatching, Using, Blank
<1>2. IsFiniteSet({}) /\ Cardinality({}) = 0
  BY FS_EmptySet
<1>3. ASSUME NEW s \in Sockets PROVE References(s) = 0 /\ referCount[s] = 0
  <2>1. Cardinality(Outstanding(s)) = 0 /\ Cardinality(Dispatching(s)) = 0 /\ Cardinality(Using(s)) = 0
    BY <1>1, <1>2
  <2> QED BY <2>1 DEF References, Init
<1>4. ASSUME NEW s \in Sockets
      PROVE  /\ IsFiniteSet(Outstanding(s)) /\ IsFiniteSet(Dispatching(s)) /\ IsFiniteSet(Using(s))
             /\ referCount[s] >= References(s) /\ referCount[s] = References(s)
  BY <1>1, <1>2, <1>3
<1> QED
  BY <1>4 DEF Init, RefInv, Counted, CountedAt, NoneLeft, InMap

(* A reference held somewhere keeps the socket in the map.                    *)
LEMMA ReferredIsInMap ==
  ASSUME BasicInv, RefInv, NEW s \in Sockets, NEW x,
         x \in Outstanding(s) \cup Dispatching(s) \cup Using(s)
  PROVE  s \in theASSocks /\ referCount[s] >= 1
<1>1. /\ IsFiniteSet(Outstanding(s)) /\ IsFiniteSet(Dispatching(s)) /\ IsFiniteSet(Using(s))
      /\ referCount[s] >= References(s)
  BY DEF RefInv, Counted, CountedAt
<1>2. /\ Cardinality(Outstanding(s)) \in Nat /\ Cardinality(Dispatching(s)) \in Nat
      /\ Cardinality(Using(s)) \in Nat /\ referCount[s] \in Int
  BY CountsAreNumbers DEF RefInv
<1>3. \/ Cardinality(Outstanding(s)) >= 1 \/ Cardinality(Dispatching(s)) >= 1
      \/ Cardinality(Using(s)) >= 1
  <2>1. ASSUME NEW S, IsFiniteSet(S), x \in S PROVE Cardinality(S) >= 1
    <3>1. PICK T : T = S \ {x}
      OBVIOUS
    <3>2. Cardinality(T) \in Nat /\ Cardinality(S) = Cardinality(T) + 1
      BY <2>1, <3>1, OneLeaves
    <3> QED BY <3>2
  <2> QED
    BY <1>1, <2>1
<1>4. referCount[s] >= 1
  BY <1>1, <1>2, <1>3 DEF References
<1> QED
  BY <1>4 DEF RefInv, NoneLeft

(* The lookup of a completion finds the socket the request was made for.      *)
LEMMA LookupFinds ==
  ASSUME BasicInv, RequestInv, RefInv, NEW w \in Threads, Dispatches(w)
  PROVE  /\ w \in Workers /\ op[w] \in Frames
         /\ io[op[w]].sock \in theASSocks
         /\ Lookup(io[op[w]].key) = {io[op[w]].sock}
         /\ w \in Dispatching(io[op[w]].sock)
<1>1. w \in Workers /\ op[w] \in Frames
  BY DEF BasicInv, Places, Role, WorkerOnly, TInv, LocalTypes, Local, WithFrame,
     Dispatches
<1>2. io[op[w]].sock \in Sockets /\ io[op[w]].key = uid[io[op[w]].sock]
  BY <1>1 DEF RequestInv, DispatchedKeyed, KeyedByUid
<1>3. w \in Dispatching(io[op[w]].sock)
  BY <1>1, <1>2 DEF Dispatching, Dispatches
<1>4. io[op[w]].sock \in theASSocks
  BY <1>2, <1>3, ReferredIsInMap
<1>5. \A r \in theASSocks : uid[r] = uid[io[op[w]].sock] => r = io[op[w]].sock
  BY <1>2, <1>4 DEF BasicInv, UidInv, Distinct, Alive, Holds, TInv, ObjectTypes
<1> QED
  BY <1>1, <1>2, <1>3, <1>4, <1>5 DEF Lookup

(* Counts after a step, from where the references are then.                   *)
LEMMA CountKeptAt ==
  ASSUME NEW s \in Sockets, CountedAt(s), referCount'[s] = referCount[s],
         Outstanding(s)' = Outstanding(s), Dispatching(s)' = Dispatching(s),
         Using(s)' = Using(s)
  PROVE  CountedAt(s)'
BY DEF CountedAt, References

LEMMA CountsKept ==
  ASSUME Counted, UNCHANGED referCount,
         \A s \in Sockets : /\ Outstanding(s)' = Outstanding(s)
                            /\ Dispatching(s)' = Dispatching(s)
                            /\ Using(s)' = Using(s)
  PROVE  Counted'
BY DEF Counted, CountedAt, References

LEMMA UsingKept ==
  ASSUME NEW t \in Threads, NEW s \in Sockets, (t \in Using(s)') <=> (t \in Using(s)),
         \A u \in Threads \ {t} : pc'[u] = pc[u] /\ op'[u] = op[u] /\ socket'[u] = socket[u]
  PROVE  Using(s)' = Using(s)
BY DEF Using

LEMMA DispatchingKept ==
  ASSUME BasicInv, NEW s \in Sockets,
         \A f \in Frames : io[f].state = "user" => io'[f].sock = io[f].sock,
         \A w \in Workers : /\ Dispatches(w)' <=> Dispatches(w)
                            /\ Dispatches(w) => op'[w] = op[w]
  PROVE  Dispatching(s)' = Dispatching(s)
<1>1. ASSUME NEW w \in Workers, Dispatches(w) PROVE io'[op[w]].sock = io[op[w]].sock
  BY <1>1, Roles, ServiceAssumption DEF Dispatches, BasicInv, TInv, LocalTypes,
     Local, WithFrame, FrameInv, FrameOwnership,
     InUse, InHand
<1> QED
  BY <1>1 DEF Dispatching, Dispatches

LEMMA OutstandingKept ==
  ASSUME NEW s \in Sockets,
         \A f \in Frames : /\ io'[f].state = "user" <=> io[f].state = "user"
                           /\ io[f].state # "user" => io'[f].sock = io[f].sock
  PROVE  Outstanding(s)' = Outstanding(s)
BY DEF Outstanding

(* The operating system keeps the requests it has, and gives none up.         *)
LEMMA EndedBySystem ==
  ASSUME BasicInv, NEW f \in Frames,
         (\E t \in Threads : closesocket(t)) \/ (\E g \in Frames : Completes(g))
  PROVE  /\ io'[f].state = "user" <=> io[f].state = "user"
         /\ io'[f].sock = io[f].sock /\ io'[f].optype = io[f].optype
<1>1. io[f] \in FrameFields /\ io \in [Frames -> FrameFields]
  BY DEF BasicInv, TInv, FrameTypes
<1>2. \A r : /\ Completion(f, r).state = "queued" /\ Completion(f, r).sock = io[f].sock
             /\ Completion(f, r).optype = io[f].optype
  BY <1>1 DEF Completion, FrameFields
<1>3. \/ io'[f] = io[f]
      \/ io[f].state = "posted" /\ \E r : io'[f] = Completion(f, r)
      \/ io[f].state = "posted" /\ io'[f] = [io[f] EXCEPT !.on = None]
  BY <1>1 DEF closesocket, Completes, Cancelled
<1>4. CASE io'[f] = [io[f] EXCEPT !.on = None]
  BY <1>1, <1>4 DEF FrameFields
<1> QED
  BY <1>2, <1>3, <1>4


(* If the lookup misses, then because the map changes under an unlocked find. *)
LEMMA WhyMissed ==
  ASSUME BasicInv, RequestInv, RefInv, NEW w \in Workers, Disappeared(w)
  PROVE  Dispatches(w) /\ op[w] \in Frames /\ TornFind
<1>1. Dispatches(w)
  BY DEF Disappeared, Dispatches
<1>2. op[w] \in Frames /\ Lookup(io[op[w]].key) # {}
  BY <1>1, LookupFinds, Roles
<1> QED
  BY <1>1, <1>2 DEF Disappeared

(* A socket gets one more user, or loses one.                                 *)
LEMMA OneMoreUser ==
  ASSUME BasicInv, RefInv, NEW s \in Sockets, NEW t \in Threads, t \notin Using(s),
         referCount' = [referCount EXCEPT ![s] = @ + 1],
         \A r \in Sockets : /\ Outstanding(r)' = Outstanding(r)
                            /\ Dispatching(r)' = Dispatching(r),
         Using(s)' = Using(s) \cup {t},
         \A r \in Sockets \ {s} : Using(r)' = Using(r)
  PROVE  Counted'
<1>1. /\ referCount'[s] = referCount[s] + 1
      /\ \A r \in Sockets \ {s} : referCount'[r] = referCount[r]
  BY DEF BasicInv, TInv, ObjectTypes
<1>2. /\ CountedAt(s) /\ IsFiniteSet(Using(s))
      /\ Cardinality(Outstanding(s)) \in Nat /\ Cardinality(Dispatching(s)) \in Nat
      /\ Cardinality(Using(s)) \in Nat /\ referCount[s] \in Int
  BY CountsAreNumbers DEF RefInv, Counted, CountedAt
<1>3. PICK T : T = Using(s) \cup {t}
  OBVIOUS
<1>4. IsFiniteSet(T) /\ Cardinality(T) = Cardinality(Using(s)) + 1
  BY <1>2, <1>3, OneEnters
<1>5. CountedAt(s)'
  BY <1>1, <1>2, <1>3, <1>4 DEF CountedAt, References
<1>6. ASSUME NEW r \in Sockets \ {s} PROVE CountedAt(r)'
  BY <1>1, CountKeptAt DEF RefInv, Counted
<1> QED
  BY <1>5, <1>6 DEF Counted

LEMMA OneUserLess ==
  ASSUME BasicInv, RefInv, NEW s \in Sockets, NEW t \in Using(s),
         referCount' = [referCount EXCEPT ![s] = @ - 1],
         \A r \in Sockets : /\ Outstanding(r)' = Outstanding(r)
                            /\ Dispatching(r)' = Dispatching(r),
         Using(s)' = Using(s) \ {t},
         \A r \in Sockets \ {s} : Using(r)' = Using(r)
  PROVE  Counted'
<1>1. /\ referCount'[s] = referCount[s] - 1
      /\ \A r \in Sockets \ {s} : referCount'[r] = referCount[r]
  BY DEF BasicInv, TInv, ObjectTypes
<1>2. /\ CountedAt(s) /\ IsFiniteSet(Using(s))
      /\ Cardinality(Outstanding(s)) \in Nat /\ Cardinality(Dispatching(s)) \in Nat
      /\ Cardinality(Using(s)) \in Nat /\ referCount[s] \in Int
  BY CountsAreNumbers DEF RefInv, Counted, CountedAt
<1>3. PICK T : T = Using(s) \ {t}
  OBVIOUS
<1>4. /\ IsFiniteSet(T) /\ Cardinality(T) \in Nat
      /\ Cardinality(Using(s)) = Cardinality(T) + 1
  BY <1>2, <1>3, OneLeaves
<1>5. CountedAt(s)'
  BY <1>1, <1>2, <1>3, <1>4 DEF CountedAt, References
<1>6. ASSUME NEW r \in Sockets \ {s} PROVE CountedAt(r)'
  BY <1>1, CountKeptAt DEF RefInv, Counted
<1> QED
  BY <1>5, <1>6 DEF Counted

(* A reference goes on: from the queue to the worker that takes the           *)
(* completion, from there to the socket it finds, and from a thread that      *)
(* posts a request to that request.                                           *)
LEMMA CompletionIsTaken ==
  ASSUME BasicInv, RequestInv, RefInv, NEW w \in Workers, NEW f \in Frames,
         GetQueuedCompletionStatus(w, f)
  PROVE  Counted'
<1> USE Roles, ServiceAssumption DEF BasicInv, TInv, LocalTypes
<1>1. PICK s \in Sockets : s = io[f].sock
  BY DEF GetQueuedCompletionStatus, RequestInv, KeyedByUid, DispatchedKeyed
<1>2. /\ io[f].state = "queued" /\ io'[f].state = "user" /\ io'[f].sock = s
      /\ \A g \in Frames \ {f} : io'[g] = io[g]
  BY <1>1 DEF GetQueuedCompletionStatus, FrameTypes, FrameFields
<1>3. /\ pc[w] = "idle" /\ Dispatches(w)' /\ op'[w] = f /\ UNCHANGED <<socket, referCount>>
      /\ \A u \in Threads \ {w} : pc'[u] = pc[u] /\ op'[u] = op[u]
  BY DEF GetQueuedCompletionStatus, Goto, Dispatches, socketVars
<1>4. /\ f \in Outstanding(s) /\ Outstanding(s)' = Outstanding(s) \ {f}
      /\ \A r \in Sockets \ {s} : Outstanding(r)' = Outstanding(r)
  BY <1>1, <1>2 DEF Outstanding
<1>5. \A u \in Workers : Dispatches(u) => u # w /\ op[u] \in Frames \ {f}
  BY <1>2, <1>3 DEF Dispatches, Local, WithFrame, FrameInv, FrameOwnership, InUse,
     InHand
<1>6. /\ w \notin Dispatching(s) /\ Dispatching(s)' = Dispatching(s) \cup {w}
      /\ \A r \in Sockets \ {s} : Dispatching(r)' = Dispatching(r)
  BY <1>2, <1>3, <1>5 DEF Dispatching, Dispatches
<1>7. socket[w] = None
  BY <1>3 DEF Places, Carries, WithSocket
<1>8. \A r \in Sockets : Using(r)' = Using(r)
  BY <1>3, <1>7 DEF Using
<1>9. CountedAt(s)'
  <2>1. PICK T, U : T = Outstanding(s) \ {f} /\ U = Dispatching(s) \cup {w}
    OBVIOUS
  <2>2. /\ CountedAt(s) /\ IsFiniteSet(Outstanding(s)) /\ IsFiniteSet(Dispatching(s))
    BY DEF RefInv, Counted, CountedAt
  <2>3. /\ IsFiniteSet(T) /\ IsFiniteSet(U) /\ Cardinality(T) \in Nat
        /\ Cardinality(Outstanding(s)) = Cardinality(T) + 1
        /\ Cardinality(U) = Cardinality(Dispatching(s)) + 1
    BY <1>4, <1>6, <2>1, <2>2, OneEnters, OneLeaves
  <2>4. /\ Cardinality(Dispatching(s)) \in Nat /\ Cardinality(Using(s)) \in Nat
        /\ referCount[s] \in Int
    BY CountsAreNumbers DEF RefInv
  <2> QED
    BY <1>3, <1>4, <1>6, <1>8, <2>1, <2>2, <2>3, <2>4 DEF CountedAt, References
<1>10. ASSUME NEW r \in Sockets \ {s} PROVE CountedAt(r)'
  BY <1>3, <1>4, <1>6, <1>8, CountKeptAt DEF RefInv, Counted
<1> QED
  BY <1>9, <1>10 DEF Counted

LEMMA SocketIsFound ==
  ASSUME BasicInv, RequestInv, RefInv, NEW w \in Workers, NEW s \in Sockets, Dispatches(w),
         s \in Lookup(io[op[w]].key), socket' = [socket EXCEPT ![w] = s],
         NEW label, label \notin {"dispatchCompletion", "dispatchError", "inserting", "erasing"},
         pc' = [pc EXCEPT ![w] = label], UNCHANGED <<io, op, referCount>>
  PROVE  Counted'
<1>1. s = io[op[w]].sock /\ w \in Dispatching(s)
  BY LookupFinds, Roles
<1> USE Roles, ServiceAssumption DEF BasicInv, TInv, LocalTypes
<1>2. /\ pc'[w] = label /\ socket'[w] = s /\ ~ Dispatches(w)'
      /\ \A u \in Threads \ {w} : pc'[u] = pc[u] /\ socket'[u] = socket[u]
  BY DEF Dispatches
<1>3. \A r \in Sockets : Outstanding(r)' = Outstanding(r)
  BY DEF Outstanding
<1>4. /\ Dispatching(s)' = Dispatching(s) \ {w}
      /\ \A r \in Sockets \ {s} : Dispatching(r)' = Dispatching(r)
  BY <1>1, <1>2 DEF Dispatching, Dispatches
<1>5. socket[w] = None
  BY DEF Places, Carries, WithSocket, Dispatches
<1>6. /\ w \notin Using(s) /\ Using(s)' = Using(s) \cup {w}
      /\ \A r \in Sockets \ {s} : Using(r)' = Using(r)
  BY <1>2, <1>5 DEF Using
<1>7. CountedAt(s)'
  <2>1. PICK T, U : T = Dispatching(s) \ {w} /\ U = Using(s) \cup {w}
    OBVIOUS
  <2>2. CountedAt(s) /\ IsFiniteSet(Dispatching(s)) /\ IsFiniteSet(Using(s))
    BY DEF RefInv, Counted, CountedAt
  <2>3. /\ IsFiniteSet(T) /\ IsFiniteSet(U) /\ Cardinality(T) \in Nat
        /\ Cardinality(Dispatching(s)) = Cardinality(T) + 1
        /\ Cardinality(U) = Cardinality(Using(s)) + 1
    BY <1>1, <1>6, <2>1, <2>2, OneEnters, OneLeaves
  <2>4. /\ Cardinality(Outstanding(s)) \in Nat /\ Cardinality(Using(s)) \in Nat
        /\ referCount[s] \in Int
    BY CountsAreNumbers DEF RefInv
  <2> QED
    BY <1>3, <1>4, <1>6, <2>1, <2>2, <2>3, <2>4 DEF CountedAt, References
<1>8. ASSUME NEW r \in Sockets \ {s} PROVE CountedAt(r)'
  BY <1>3, <1>4, <1>6, CountKeptAt DEF RefInv, Counted
<1> QED
  BY <1>7, <1>8 DEF Counted

Posting == {"WSARecv", "ConnectEx", "WSASend"}

LEMMA RequestIsPosted ==
  ASSUME BasicInv, RefInv, NEW t \in Threads, pc[t] \in Posting, NEW type,
         Posted(t, type), UNCHANGED referCount
  PROVE  Counted'
<1> USE Roles, ServiceAssumption DEF BasicInv, TInv, LocalTypes
<1>1. PICK f \in Frames, s \in Sockets : f = op[t] /\ s = socket[t] /\ f # None /\ s # None
  BY DEF Posting, Local, WithFrame, WithSocket
<1>2. /\ io'[f].state = "posted" /\ io'[f].sock = s
      /\ \A g \in Frames \ {f} : io'[g] = io[g]
  BY <1>1 DEF Posted, Request, FrameTypes
<1>3. /\ pc'[t] = "idle" /\ socket'[t] = None
      /\ \A u \in Threads \ {t} : pc'[u] = pc[u] /\ op'[u] = op[u] /\ socket'[u] = socket[u]
  BY DEF Posted, Return, Goto
<1>4. io[f].state = "user"
  BY <1>1 DEF FrameInv, FrameOwnership, InUse, InHand
<1>5. /\ f \notin Outstanding(s) /\ Outstanding(s)' = Outstanding(s) \cup {f}
      /\ \A r \in Sockets \ {s} : Outstanding(r)' = Outstanding(r)
  BY <1>2, <1>4 DEF Outstanding
<1>6. \A u \in Workers : Dispatches(u) => u # t /\ op[u] \in Frames \ {f}
  BY <1>1 DEF Posting, Dispatches, Local, WithFrame, FrameInv, FrameOwnership
<1>7. \A r \in Sockets : Dispatching(r)' = Dispatching(r)
  BY <1>2, <1>3, <1>6 DEF Dispatching, Dispatches
<1>8. /\ t \in Using(s) /\ Using(s)' = Using(s) \ {t}
      /\ \A r \in Sockets \ {s} : Using(r)' = Using(r)
  BY <1>1, <1>3 DEF Using, Posting
<1>9. CountedAt(s)'
  <2>1. PICK T, U : T = Using(s) \ {t} /\ U = Outstanding(s) \cup {f}
    OBVIOUS
  <2>2. CountedAt(s) /\ IsFiniteSet(Outstanding(s)) /\ IsFiniteSet(Using(s))
    BY DEF RefInv, Counted, CountedAt
  <2>3. /\ IsFiniteSet(T) /\ IsFiniteSet(U) /\ Cardinality(T) \in Nat
        /\ Cardinality(Using(s)) = Cardinality(T) + 1
        /\ Cardinality(U) = Cardinality(Outstanding(s)) + 1
    BY <1>5, <1>8, <2>1, <2>2, OneEnters, OneLeaves
  <2>4. /\ Cardinality(Outstanding(s)) \in Nat /\ Cardinality(Dispatching(s)) \in Nat
        /\ referCount[s] \in Int
    BY CountsAreNumbers DEF RefInv
  <2> QED
    BY <1>5, <1>7, <1>8, <2>1, <2>2, <2>3, <2>4 DEF CountedAt, References
<1>10. ASSUME NEW r \in Sockets \ {s} PROVE CountedAt(r)'
  BY <1>5, <1>7, <1>8, CountKeptAt DEF RefInv, Counted
<1> QED
  BY <1>9, <1>10 DEF Counted

LEMMA RequestIsRefused ==
  ASSUME BasicInv, RefInv, NEW t \in Threads, pc[t] \in Posting,
         Refused(t), UNCHANGED referCount
  PROVE  Counted'
<1> USE Roles, ServiceAssumption DEF BasicInv, TInv, LocalTypes
<1>1. PICK f \in Frames : f = op[t] /\ f # None
  BY DEF Posting, Local, WithFrame
<1>2. /\ io[f].state = "user" /\ io'[f].state = "user"
      /\ \A g \in Frames \ {f} : io'[g] = io[g]
  BY <1>1 DEF Refused, releaseIOFrame, Blank, FrameTypes, FrameInv, FrameOwnership,
     InUse, InHand
<1>3. \A r \in Sockets : Outstanding(r)' = Outstanding(r)
  BY <1>2 DEF Outstanding
<1>4. /\ pc'[t] = "releaseSocket" /\ socket' = socket
      /\ \A u \in Threads \ {t} : pc'[u] = pc[u] /\ op'[u] = op[u]
  BY DEF Refused, Goto
<1>5. \A u \in Workers : Dispatches(u) => u # t /\ op[u] \in Frames \ {f}
  BY <1>1 DEF Posting, Dispatches, Local, WithFrame, FrameInv, FrameOwnership
<1>6. \A r \in Sockets : Dispatching(r)' = Dispatching(r)
  BY <1>2, <1>4, <1>5 DEF Dispatching, Dispatches
<1>7. \A r \in Sockets : Using(r)' = Using(r)
  BY <1>1, <1>4 DEF Using, Posting
<1> QED
  BY <1>3, <1>6, <1>7, CountsKept DEF RefInv

LEMMA StepReferences ==
  ASSUME BasicInv, BasicInv', HandleInv, RequestInv, RefInv, [Next]_vars
  PROVE  RefInv'
<1> USE ServiceAssumption, Roles DEF BasicInv, TInv, LocalTypes
<1>1. ASSUME NEW w \in Workers, NEW f \in Frames, GetQueuedCompletionStatus(w, f)
      PROVE  RefInv'
  <2>1. Counted'
    BY <1>1, CompletionIsTaken
  <2>2. NoneLeft'
    BY <1>1 DEF GetQueuedCompletionStatus, Goto, socketVars, RefInv, NoneLeft,
       InMap, ObjectTypes, Local, WithSocket, Places, Role, Carries, Locked,
       WorkerOnly, Closing, UidInv, Alive
  <2>3. InMap'
    BY <1>1 DEF GetQueuedCompletionStatus, Goto, socketVars, RefInv, InMap,
       ObjectTypes, Local, WithSocket, Places, Role, Carries, Locked,
       WorkerOnly, Closing, UidInv, Alive
  <2> QED BY <2>1, <2>2, <2>3 DEF RefInv
<1>2. ASSUME NEW w \in Workers, dispatchCompletion(w) PROVE RefInv'
  <2>1. Counted'
    <3>1. PICK s \in Sockets : /\ s \in Lookup(io[op[w]].key)
                               /\ socket' = [socket EXCEPT ![w] = s]
      BY <1>2 DEF dispatchCompletion, Lookup, ObjectTypes
    <3>2. PICK label : label = FoundLabel(op[w])
      OBVIOUS
    <3>3. label \notin {"dispatchCompletion", "dispatchError", "inserting", "erasing"}
      BY <3>2 DEF FoundLabel
    <3>4. /\ Dispatches(w) /\ pc' = [pc EXCEPT ![w] = label]
          /\ UNCHANGED <<io, op, referCount>>
      BY <1>2, <3>2 DEF dispatchCompletion, Goto, frameVars, socketVars, Dispatches
    <3> QED BY <3>1, <3>3, <3>4, SocketIsFound
  <2>2. NoneLeft'
    BY <1>2 DEF dispatchCompletion, Goto, FoundLabel, Lookup, socketVars,
       RefInv, NoneLeft, InMap, ObjectTypes, Local, WithSocket, Places, Role,
       Carries, Locked, WorkerOnly, Closing, UidInv, Alive
  <2>3. InMap'
    BY <1>2 DEF dispatchCompletion, Goto, FoundLabel, Lookup, socketVars,
       RefInv, InMap, ObjectTypes, Local, WithSocket, Places, Role, Carries,
       Locked, WorkerOnly, Closing, UidInv, Alive
  <2> QED BY <2>1, <2>2, <2>3 DEF RefInv
<1>3. ASSUME NEW w \in Workers, Disappeared(w) PROVE RefInv'
  <2>1. /\ Dispatches(w) /\ op[w] \in Frames /\ TornFind /\ UNCHANGED referCount
    BY <1>3, WhyMissed DEF Disappeared, socketVars
  <2>2. /\ io'[op[w]].state = "user" /\ io[op[w]].state = "user"
        /\ \A f \in Frames \ {op[w]} : io'[f] = io[f]
    BY <1>3, <2>1 DEF Disappeared, releaseIOFrame, Blank, FrameTypes, FrameInv,
       FrameOwnership,
       InUse, InHand
  <2>3. /\ pc'[w] = "idle" /\ socket'[w] = None /\ socket[w] = None
        /\ \A u \in Threads \ {w} : pc'[u] = pc[u] /\ op'[u] = op[u] /\ socket'[u] = socket[u]
    BY <1>3, <2>1 DEF Disappeared, Return, Goto, Dispatches, Places, Carries, WithSocket
  <2>4. Counted'
    <3>1. \A s \in Sockets : Outstanding(s)' = Outstanding(s) /\ Using(s)' = Using(s)
      BY <2>2, <2>3 DEF Outstanding, Using
    <3>2. \A u \in Workers : Dispatches(u) /\ u # w => op[u] \in Frames \ {op[w]}
      BY <2>1 DEF Dispatches, Local, WithFrame, FrameInv, FrameOwnership
    <3>3. \A s \in Sockets : Dispatching(s)' = Dispatching(s) \ {w}
      BY <2>2, <2>3, <3>2 DEF Dispatching, Dispatches
    <3>4. ASSUME NEW s \in Sockets PROVE CountedAt(s)'
      <4>1. PICK T : T = Dispatching(s) \ {w}
        OBVIOUS
      <4>2. IsFiniteSet(Dispatching(s)) /\ CountedAt(s)
        BY DEF RefInv, Counted, CountedAt
      <4>3. /\ IsFiniteSet(T) /\ Cardinality(T) \in Nat
            /\ Cardinality(T) <= Cardinality(Dispatching(s))
        BY <4>1, <4>2, FS_Subset, FS_CardinalityType
      <4>4. /\ Cardinality(Outstanding(s)) \in Nat /\ Cardinality(Dispatching(s)) \in Nat
            /\ Cardinality(Using(s)) \in Nat /\ referCount[s] \in Int
        BY CountsAreNumbers DEF RefInv
      <4>5. References(s)' = Cardinality(Outstanding(s)) + Cardinality(T) + Cardinality(Using(s))
        BY <3>1, <3>3, <4>1 DEF References
      <4>6. referCount'[s] >= References(s)'
        BY <2>1, <4>2, <4>3, <4>4, <4>5 DEF CountedAt, References
      <4> QED BY <2>1, <3>1, <3>3, <4>1, <4>2, <4>3, <4>6 DEF CountedAt
    <3> QED BY <3>4 DEF Counted
  <2>5. NoneLeft'
    BY <1>3 DEF Disappeared, Goto, Return, socketVars, RefInv, NoneLeft, InMap,
       ObjectTypes, Local, WithSocket, Places, Role, Carries, Locked,
       WorkerOnly, Closing, UidInv, Alive
  <2>6. InMap'
    BY <1>3 DEF Disappeared, Goto, Return, socketVars, RefInv, InMap,
       ObjectTypes, Local, WithSocket, Places, Role, Carries, Locked,
       WorkerOnly, Closing, UidInv, Alive
  <2> QED BY <2>4, <2>5, <2>6 DEF RefInv
<1>4. ASSUME NEW w \in Workers, dispatchError(w) PROVE RefInv'
  <2>1. Counted'
    <3>1. PICK s \in Sockets : /\ s \in Lookup(io[op[w]].key)
                               /\ socket' = [socket EXCEPT ![w] = s]
      BY <1>4 DEF dispatchError, Lookup, ObjectTypes
    <3>2. /\ Dispatches(w) /\ pc' = [pc EXCEPT ![w] = "releaseSocket"]
          /\ UNCHANGED <<io, op, referCount>>
      BY <1>4 DEF dispatchError, Goto, frameVars, socketVars, Dispatches
    <3> QED BY <3>1, <3>2, SocketIsFound
  <2>2. NoneLeft'
    BY <1>4 DEF dispatchError, Goto, Lookup, socketVars, RefInv, NoneLeft,
       InMap, ObjectTypes, Local, WithSocket, Places, Role, Carries, Locked,
       WorkerOnly, Closing, UidInv, Alive
  <2>3. InMap'
    BY <1>4 DEF dispatchError, Goto, Lookup, socketVars, RefInv, InMap,
       ObjectTypes, Local, WithSocket, Places, Role, Carries, Locked,
       WorkerOnly, Closing, UidInv, Alive
  <2> QED BY <2>1, <2>2, <2>3 DEF RefInv
<1>5. ASSUME NEW w \in Workers, Connected(w) PROVE RefInv'
  <2>1. \A r \in Sockets : Outstanding(r)' = Outstanding(r)
    <3>1. \A f \in Frames : /\ io'[f].state = "user" <=> io[f].state = "user"
                            /\ io[f].state # "user" => io'[f].sock = io[f].sock
      BY <1>5 DEF Connected, frameVars, releaseIOFrame, Blank, FrameTypes,
         FrameFields, FrameInv, FrameOwnership, InUse, InHand, Local,
         WithFrame, Places
    <3> QED BY <3>1, OutstandingKept
  <2>2. \A r \in Sockets : Dispatching(r)' = Dispatching(r)
    <3>1. \A u \in Workers : (Dispatches(u)' <=> Dispatches(u)) /\ (Dispatches(u) => op'[u] = op[u])
      BY <1>5 DEF Connected, Goto, Dispatches, Places, Carries
    <3>2. ASSUME NEW r \in Sockets PROVE Dispatching(r)' = Dispatching(r)
      <4>1. \A u \in Workers : Dispatches(u) => u # w /\ op[u] # op[w] /\ op[u] \in Frames
        BY <1>5 DEF Connected, Dispatches, Local, WithFrame, FrameInv, FrameOwnership
      <4>2. \A u \in Workers : Dispatches(u) => io'[op[u]] = io[op[u]]
        BY <1>5, <4>1 DEF Connected, frameVars, releaseIOFrame, FrameTypes, Local,
           WithFrame
      <4> QED BY <3>1, <4>2 DEF Dispatching, Dispatches
    <3> QED BY <3>2
  <2>3. \A r \in Sockets : Using(r)' = Using(r)
    <3>1. \A u \in Threads \ {w} : pc'[u] = pc[u] /\ op'[u] = op[u] /\ socket'[u] = socket[u]
      BY <1>5 DEF Connected, Goto
    <3>2. \A r \in Sockets : (w \in Using(r)') <=> (w \in Using(r))
      BY <1>5 DEF Connected, Goto, Using, Places, Role, Carries, WorkerOnly,
         Closing, WithSocket, Labels
    <3> QED BY <3>1, <3>2, UsingKept
  <2>4. Counted'
    <3>1. UNCHANGED referCount
      BY <1>5 DEF Connected, socketVars
    <3> QED BY <2>1, <2>2, <2>3, <3>1, CountsKept DEF RefInv
  <2>5. NoneLeft'
    BY <1>5 DEF Connected, Goto, socketVars, RefInv, NoneLeft, InMap,
       ObjectTypes, Local, WithSocket, Places, Role, Carries, Locked,
       WorkerOnly, Closing, UidInv, Alive
  <2>6. InMap'
    BY <1>5 DEF Connected, Goto, socketVars, RefInv, InMap, ObjectTypes, Local,
       WithSocket, Places, Role, Carries, Locked, WorkerOnly, Closing, UidInv,
       Alive
  <2> QED BY <2>4, <2>5, <2>6 DEF RefInv
<1>6. ASSUME NEW w \in Workers, Message(w) PROVE RefInv'
  <2>1. \A r \in Sockets : Outstanding(r)' = Outstanding(r)
    BY <1>6 DEF Message, frameVars, Outstanding
  <2>2. \A r \in Sockets : Dispatching(r)' = Dispatching(r)
    <3>1. \A u \in Workers : (Dispatches(u)' <=> Dispatches(u)) /\ (Dispatches(u) => op'[u] = op[u])
      BY <1>6 DEF Message, Goto, Dispatches, Places, Carries
    <3>2. UNCHANGED io
      BY <1>6 DEF Message, frameVars
    <3> QED BY <3>1, <3>2, DispatchingKept
  <2>3. \A r \in Sockets : Using(r)' = Using(r)
    <3>1. \A u \in Threads \ {w} : pc'[u] = pc[u] /\ op'[u] = op[u] /\ socket'[u] = socket[u]
      BY <1>6 DEF Message, Goto
    <3>2. \A r \in Sockets : (w \in Using(r)') <=> (w \in Using(r))
      BY <1>6 DEF Message, Goto, Using, Places, Role, Carries, WorkerOnly,
         Closing, WithSocket, Labels
    <3> QED BY <3>1, <3>2, UsingKept
  <2>4. Counted'
    <3>1. UNCHANGED referCount
      BY <1>6 DEF Message, socketVars
    <3> QED BY <2>1, <2>2, <2>3, <3>1, CountsKept DEF RefInv
  <2>5. NoneLeft'
    BY <1>6 DEF Message, Goto, socketVars, RefInv, NoneLeft, InMap,
       ObjectTypes, Local, WithSocket, Places, Role, Carries, Locked,
       WorkerOnly, Closing, UidInv, Alive
  <2>6. InMap'
    BY <1>6 DEF Message, Goto, socketVars, RefInv, InMap, ObjectTypes, Local,
       WithSocket, Places, Role, Carries, Locked, WorkerOnly, Closing, UidInv,
       Alive
  <2> QED BY <2>4, <2>5, <2>6 DEF RefInv
<1>7. ASSUME NEW t \in Threads, disconnect(t) PROVE RefInv'
  <2>1. \A r \in Sockets : Outstanding(r)' = Outstanding(r)
    BY <1>7 DEF disconnect, frameVars, Outstanding
  <2>2. \A r \in Sockets : Dispatching(r)' = Dispatching(r)
    <3>1. \A u \in Workers : (Dispatches(u)' <=> Dispatches(u)) /\ (Dispatches(u) => op'[u] = op[u])
      BY <1>7 DEF disconnect, Goto, Return, AfterDisconnect, Dispatches,
         Places, Carries
    <3>2. UNCHANGED io
      BY <1>7 DEF disconnect, frameVars
    <3> QED BY <3>1, <3>2, DispatchingKept
  <2>3. \A r \in Sockets : Using(r)' = Using(r)
    <3>1. \A u \in Threads \ {t} : pc'[u] = pc[u] /\ op'[u] = op[u] /\ socket'[u] = socket[u]
      BY <1>7 DEF disconnect, Goto, Return, AfterDisconnect
    <3>2. \A r \in Sockets : (t \in Using(r)') <=> (t \in Using(r))
      BY <1>7 DEF disconnect, Goto, Return, AfterDisconnect, Using, Places,
         Role, Carries, WorkerOnly, Closing, WithSocket, Labels
    <3> QED BY <3>1, <3>2, UsingKept
  <2>4. Counted'
    <3>1. UNCHANGED referCount
      BY <1>7 DEF disconnect, socketVars
    <3> QED BY <2>1, <2>2, <2>3, <3>1, CountsKept DEF RefInv
  <2>5. NoneLeft'
    BY <1>7 DEF disconnect, Goto, Return, AfterDisconnect, socketVars, RefInv,
       NoneLeft, InMap, ObjectTypes, Local, WithSocket, Places, Role, Carries,
       Locked, WorkerOnly, Closing, UidInv, Alive
  <2>6. InMap'
    BY <1>7 DEF disconnect, Goto, Return, AfterDisconnect, socketVars, RefInv,
       InMap, ObjectTypes, Local, WithSocket, Places, Role, Carries, Locked,
       WorkerOnly, Closing, UidInv, Alive
  <2> QED BY <2>4, <2>5, <2>6 DEF RefInv
<1>8. ASSUME NEW t \in Threads, closesocket(t) PROVE RefInv'
  <2>1. ASSUME NEW g \in Frames
        PROVE  /\ io'[g].state = "user" <=> io[g].state = "user"
               /\ io'[g].sock = io[g].sock
    BY <1>8, EndedBySystem
  <2>2. \A r \in Sockets : Outstanding(r)' = Outstanding(r)
    BY <2>1, OutstandingKept
  <2>3. \A r \in Sockets : Dispatching(r)' = Dispatching(r)
    <3>1. \A u \in Workers : (Dispatches(u)' <=> Dispatches(u)) /\ (Dispatches(u) => op'[u] = op[u])
      BY <1>8 DEF closesocket, Goto, Dispatches, Places, Carries
    <3> QED BY <2>1, <3>1, DispatchingKept
  <2>4. \A r \in Sockets : Using(r)' = Using(r)
    <3>1. \A u \in Threads \ {t} : pc'[u] = pc[u] /\ op'[u] = op[u] /\ socket'[u] = socket[u]
      BY <1>8 DEF closesocket, Goto
    <3>2. \A r \in Sockets : (t \in Using(r)') <=> (t \in Using(r))
      BY <1>8 DEF closesocket, Goto, Using, Places, Role, Carries, WorkerOnly,
         Closing, WithSocket, Labels
    <3> QED BY <3>1, <3>2, UsingKept
  <2>5. Counted'
    <3>1. UNCHANGED referCount
      BY <1>8 DEF closesocket, socketVars
    <3> QED BY <2>2, <2>3, <2>4, <3>1, CountsKept DEF RefInv
  <2>6. NoneLeft'
    BY <1>8 DEF closesocket, Goto, socketVars, RefInv, NoneLeft, InMap,
       ObjectTypes, Local, WithSocket, Places, Role, Carries, Locked,
       WorkerOnly, Closing, UidInv, Alive
  <2>7. InMap'
    BY <1>8 DEF closesocket, Goto, socketVars, RefInv, InMap, ObjectTypes,
       Local, WithSocket, Places, Role, Carries, Locked, WorkerOnly, Closing,
       UidInv, Alive
  <2> QED BY <2>5, <2>6, <2>7 DEF RefInv
<1>9. ASSUME NEW t \in Threads, setClosed(t) PROVE RefInv'
  <2>1. \A r \in Sockets : Outstanding(r)' = Outstanding(r)
    BY <1>9 DEF setClosed, frameVars, Outstanding
  <2>2. \A r \in Sockets : Dispatching(r)' = Dispatching(r)
    <3>1. \A u \in Workers : (Dispatches(u)' <=> Dispatches(u)) /\ (Dispatches(u) => op'[u] = op[u])
      BY <1>9 DEF setClosed, Goto, Return, AfterDisconnect, Dispatches, Places,
         Carries
    <3>2. UNCHANGED io
      BY <1>9 DEF setClosed, frameVars
    <3> QED BY <3>1, <3>2, DispatchingKept
  <2>3. \A r \in Sockets : Using(r)' = Using(r)
    <3>1. \A u \in Threads \ {t} : pc'[u] = pc[u] /\ op'[u] = op[u] /\ socket'[u] = socket[u]
      BY <1>9 DEF setClosed, Goto, Return, AfterDisconnect
    <3>2. \A r \in Sockets : (t \in Using(r)') <=> (t \in Using(r))
      BY <1>9 DEF setClosed, Goto, Return, AfterDisconnect, Using, Places,
         Role, Carries, WorkerOnly, Closing, WithSocket, Labels
    <3> QED BY <3>1, <3>2, UsingKept
  <2>4. Counted'
    <3>1. UNCHANGED referCount
      BY <1>9 DEF setClosed, socketVars
    <3> QED BY <2>1, <2>2, <2>3, <3>1, CountsKept DEF RefInv
  <2>5. NoneLeft'
    BY <1>9 DEF setClosed, Goto, Return, AfterDisconnect, socketVars, RefInv,
       NoneLeft, InMap, ObjectTypes, Local, WithSocket, Places, Role, Carries,
       Locked, WorkerOnly, Closing, UidInv, Alive
  <2>6. InMap'
    BY <1>9 DEF setClosed, Goto, Return, AfterDisconnect, socketVars, RefInv,
       InMap, ObjectTypes, Local, WithSocket, Places, Role, Carries, Locked,
       WorkerOnly, Closing, UidInv, Alive
  <2> QED BY <2>4, <2>5, <2>6 DEF RefInv
<1>10. ASSUME NEW w \in Workers, postingRead(w) PROVE RefInv'
  <2>1. \A r \in Sockets : Outstanding(r)' = Outstanding(r)
    BY <1>10 DEF postingRead, frameVars, Outstanding
  <2>2. \A r \in Sockets : Dispatching(r)' = Dispatching(r)
    <3>1. \A u \in Workers : (Dispatches(u)' <=> Dispatches(u)) /\ (Dispatches(u) => op'[u] = op[u])
      BY <1>10 DEF postingRead, Goto, Dispatches, Places, Carries
    <3>2. UNCHANGED io
      BY <1>10 DEF postingRead, frameVars
    <3> QED BY <3>1, <3>2, DispatchingKept
  <2>3. \A r \in Sockets : Using(r)' = Using(r)
    <3>1. \A u \in Threads \ {w} : pc'[u] = pc[u] /\ op'[u] = op[u] /\ socket'[u] = socket[u]
      BY <1>10 DEF postingRead, Goto
    <3>2. \A r \in Sockets : (w \in Using(r)') <=> (w \in Using(r))
      BY <1>10 DEF postingRead, Goto, Using, Places, Role, Carries, WorkerOnly,
         Closing, WithSocket, Labels
    <3> QED BY <3>1, <3>2, UsingKept
  <2>4. Counted'
    <3>1. UNCHANGED referCount
      BY <1>10 DEF postingRead, socketVars
    <3> QED BY <2>1, <2>2, <2>3, <3>1, CountsKept DEF RefInv
  <2>5. NoneLeft'
    BY <1>10 DEF postingRead, Goto, socketVars, RefInv, NoneLeft, InMap,
       ObjectTypes, Local, WithSocket, Places, Role, Carries, Locked,
       WorkerOnly, Closing, UidInv, Alive
  <2>6. InMap'
    BY <1>10 DEF postingRead, Goto, socketVars, RefInv, InMap, ObjectTypes,
       Local, WithSocket, Places, Role, Carries, Locked, WorkerOnly, Closing,
       UidInv, Alive
  <2> QED BY <2>4, <2>5, <2>6 DEF RefInv
<1>11. ASSUME NEW t \in Threads, WSARecv(t) PROVE RefInv'
  <2>1. pc[t] \in Posting /\ UNCHANGED referCount
    BY <1>11 DEF WSARecv, Posting, socketVars
  <2>2. Counted'
    <3>1. CASE Posted(t, "read")
      BY <2>1, <3>1, RequestIsPosted
    <3>2. CASE Refused(t)
      BY <2>1, <3>2, RequestIsRefused
    <3> QED BY <1>11, <3>1, <3>2 DEF WSARecv
  <2>3. NoneLeft'
    BY <1>11 DEF WSARecv, Goto, Return, Posted, Refused, Unlock, socketVars,
       RefInv, NoneLeft, InMap, ObjectTypes, Local, WithSocket, Places, Role,
       Carries, Locked, WorkerOnly, Closing, UidInv, Alive
  <2>4. InMap'
    BY <1>11 DEF WSARecv, Goto, Return, Posted, Refused, Unlock, socketVars,
       RefInv, InMap, ObjectTypes, Local, WithSocket, Places, Role, Carries,
       Locked, WorkerOnly, Closing, UidInv, Alive
  <2> QED BY <2>2, <2>3, <2>4 DEF RefInv
<1>12. ASSUME NEW t \in Threads, releaseSocket(t) PROVE RefInv'
  <2>1. PICK s \in theASSocks : s = socket[t] /\ s # None /\ s \in Sockets /\ t \in Using(s)
    BY <1>12 DEF releaseSocket, RefInv, InMap, Local, WithSocket, Using, ObjectTypes
  <2>2. /\ referCount' = [referCount EXCEPT ![s] = @ - 1] /\ UNCHANGED <<io, theASSocks>>
        /\ pc[t] = "releaseSocket" /\ ~ Dispatches(t)' /\ pc'[t] # "inserting"
        /\ \/ pc'[t] = "erasing" /\ socket'[t] = s /\ referCount[s] = 1
           \/ pc'[t] # "erasing" /\ socket'[t] = None
    BY <1>12, <2>1 DEF releaseSocket, LeaveReleaseSocket, Return, Goto, lastReference,
       frameVars, Dispatches
  <2>3. \A u \in Threads \ {t} : pc'[u] = pc[u] /\ op'[u] = op[u] /\ socket'[u] = socket[u]
    BY <1>12 DEF releaseSocket, LeaveReleaseSocket, Return, Goto
  <2>4. Counted'
    <3>1. \A r \in Sockets : Outstanding(r)' = Outstanding(r)
      BY <2>2 DEF Outstanding
    <3>2. \A r \in Sockets : Dispatching(r)' = Dispatching(r)
      BY <2>2, <2>3 DEF Dispatching, Dispatches
    <3>3. /\ Using(s)' = Using(s) \ {t}
          /\ \A r \in Sockets \ {s} : Using(r)' = Using(r)
      BY <2>1, <2>2, <2>3 DEF Using
    <3> QED BY <2>1, <2>2, <3>1, <3>2, <3>3, OneUserLess
  <2>5. NoneLeft'
    <3>1. \A r \in Sockets \ {s} : referCount'[r] = referCount[r]
      BY <2>2 DEF ObjectTypes
    <3>2. referCount[s] = 1 => referCount'[s] = 0
      BY <2>1, <2>2 DEF ObjectTypes
    <3>3. \A u \in Threads \ {t} : pc[u] # "erasing"
      BY <1>12, AloneInside DEF releaseSocket
    <3> QED BY <2>1, <2>2, <2>3, <3>1, <3>2, <3>3 DEF RefInv, NoneLeft
  <2>6. InMap'
    BY <2>1, <2>2, <2>3 DEF RefInv, InMap
  <2> QED BY <2>4, <2>5, <2>6 DEF RefInv
<1>13. ASSUME NEW t \in Threads, Erase(t) PROVE RefInv'
  <2>1. \A r \in Sockets : Outstanding(r)' = Outstanding(r)
    BY <1>13 DEF Erase, frameVars, Outstanding
  <2>2. \A r \in Sockets : Dispatching(r)' = Dispatching(r)
    <3>1. \A u \in Workers : (Dispatches(u)' <=> Dispatches(u)) /\ (Dispatches(u) => op'[u] = op[u])
      BY <1>13 DEF Erase, Goto, Return, LeaveReleaseSocket, Dispatches, Places,
         Carries
    <3>2. UNCHANGED io
      BY <1>13 DEF Erase, frameVars
    <3> QED BY <3>1, <3>2, DispatchingKept
  <2>3. \A r \in Sockets : Using(r)' = Using(r)
    <3>1. \A u \in Threads \ {t} : pc'[u] = pc[u] /\ op'[u] = op[u] /\ socket'[u] = socket[u]
      BY <1>13 DEF Erase, Goto, Return, LeaveReleaseSocket
    <3>2. \A r \in Sockets : (t \in Using(r)') <=> (t \in Using(r))
      BY <1>13 DEF Erase, Goto, Return, LeaveReleaseSocket, Using, Places,
         Role, Carries, WorkerOnly, Closing, WithSocket, Labels
    <3> QED BY <3>1, <3>2, UsingKept
  <2>4. Counted'
    <3>1. UNCHANGED referCount
      BY <1>13 DEF Erase, socketVars
    <3> QED BY <2>1, <2>2, <2>3, <3>1, CountsKept DEF RefInv
  <2>5. PICK s \in theASSocks : s = socket[t]
    BY <1>13 DEF Erase, RefInv, InMap, Local, WithSocket
  <2>6. theASSocks' = theASSocks \ {s} /\ referCount[s] = 0
    <3>1. theASSocks' = theASSocks \ {socket[t]}
      BY <1>13, SocketGivenUp
    <3> QED BY <1>13, <2>5, <3>1 DEF Erase, RefInv, NoneLeft
  <2>7. ASSUME NEW u \in Threads \ {t} PROVE socket[u] # s
    <3>1. u \notin Using(s)
      BY <2>5, <2>6, ReferredIsInMap DEF ObjectTypes
    <3>2. entireSynch = t
      BY <1>13 DEF Erase, Places, Locked, WithSocket
    <3>3. pc[u] # "erasing" /\ (u \notin Workers => pc[u] \notin WithSocket)
      BY <3>2, AloneInside
    <3>4. u \in Workers => pc[u] # "inserting"
      BY DEF Places, Role
    <3>5. pc[u] \notin WithSocket => socket[u] = None
      BY DEF Places, Carries
    <3> QED BY <2>5, <3>1, <3>3, <3>4, <3>5 DEF Using, ObjectTypes
  <2>8. /\ UNCHANGED referCount /\ socket'[t] = None /\ pc'[t] \in {"idle", "releaseIOFrame"}
        /\ \A u \in Threads \ {t} : pc'[u] = pc[u] /\ socket'[u] = socket[u]
    BY <1>13 DEF Erase, LeaveReleaseSocket, Return, Goto
  <2>9. NoneLeft'
    BY <2>5, <2>6, <2>8 DEF RefInv, NoneLeft
  <2>10. InMap'
    BY <2>5, <2>6, <2>7, <2>8 DEF RefInv, InMap
  <2> QED BY <2>4, <2>9, <2>10 DEF RefInv
<1>14. ASSUME NEW w \in Workers, ReleaseFrame(w) PROVE RefInv'
  <2>1. \A r \in Sockets : Outstanding(r)' = Outstanding(r)
    <3>1. \A f \in Frames : /\ io'[f].state = "user" <=> io[f].state = "user"
                            /\ io[f].state # "user" => io'[f].sock = io[f].sock
      BY <1>14 DEF ReleaseFrame, frameVars, releaseIOFrame, Blank, FrameTypes,
         FrameFields, FrameInv, FrameOwnership, InUse, InHand, Local,
         WithFrame, Places
    <3> QED BY <3>1, OutstandingKept
  <2>2. \A r \in Sockets : Dispatching(r)' = Dispatching(r)
    <3>1. \A u \in Workers : (Dispatches(u)' <=> Dispatches(u)) /\ (Dispatches(u) => op'[u] = op[u])
      BY <1>14 DEF ReleaseFrame, Goto, Return, Dispatches, Places, Carries
    <3>2. ASSUME NEW r \in Sockets PROVE Dispatching(r)' = Dispatching(r)
      <4>1. \A u \in Workers : Dispatches(u) => u # w /\ op[u] # op[w] /\ op[u] \in Frames
        BY <1>14 DEF ReleaseFrame, Dispatches, Local, WithFrame, FrameInv,
           FrameOwnership
      <4>2. \A u \in Workers : Dispatches(u) => io'[op[u]] = io[op[u]]
        BY <1>14, <4>1 DEF ReleaseFrame, frameVars, releaseIOFrame, FrameTypes,
           Local, WithFrame
      <4> QED BY <3>1, <4>2 DEF Dispatching, Dispatches
    <3> QED BY <3>2
  <2>3. \A r \in Sockets : Using(r)' = Using(r)
    <3>1. \A u \in Threads \ {w} : pc'[u] = pc[u] /\ op'[u] = op[u] /\ socket'[u] = socket[u]
      BY <1>14 DEF ReleaseFrame, Goto, Return
    <3>2. \A r \in Sockets : (w \in Using(r)') <=> (w \in Using(r))
      BY <1>14 DEF ReleaseFrame, Goto, Return, Using, Places, Role, Carries,
         WorkerOnly, Closing, WithSocket, Labels
    <3> QED BY <3>1, <3>2, UsingKept
  <2>4. Counted'
    <3>1. UNCHANGED referCount
      BY <1>14 DEF ReleaseFrame, socketVars
    <3> QED BY <2>1, <2>2, <2>3, <3>1, CountsKept DEF RefInv
  <2>5. NoneLeft'
    BY <1>14 DEF ReleaseFrame, Goto, Return, socketVars, RefInv, NoneLeft,
       InMap, ObjectTypes, Local, WithSocket, Places, Role, Carries, Locked,
       WorkerOnly, Closing, UidInv, Alive
  <2>6. InMap'
    BY <1>14 DEF ReleaseFrame, Goto, Return, socketVars, RefInv, InMap,
       ObjectTypes, Local, WithSocket, Places, Role, Carries, Locked,
       WorkerOnly, Closing, UidInv, Alive
  <2> QED BY <2>4, <2>5, <2>6 DEF RefInv
<1>15. ASSUME NEW a \in Acceptors, NEW h \in Handles, Accept(a, h) PROVE RefInv'
  <2>1. \A r \in Sockets : Outstanding(r)' = Outstanding(r)
    BY <1>15 DEF Accept, frameVars, Outstanding
  <2>2. \A r \in Sockets : Dispatching(r)' = Dispatching(r)
    <3>1. \A u \in Workers : (Dispatches(u)' <=> Dispatches(u)) /\ (Dispatches(u) => op'[u] = op[u])
      BY <1>15 DEF Accept, Goto, Dispatches, Places, Carries
    <3>2. UNCHANGED io
      BY <1>15 DEF Accept, frameVars
    <3> QED BY <3>1, <3>2, DispatchingKept
  <2>3. \A r \in Sockets : Using(r)' = Using(r)
    <3>1. \A u \in Threads \ {a} : pc'[u] = pc[u] /\ op'[u] = op[u] /\ socket'[u] = socket[u]
      BY <1>15 DEF Accept, Goto
    <3>2. \A r \in Sockets : (a \in Using(r)') <=> (a \in Using(r))
      BY <1>15 DEF Accept, Goto, Using, Places, Role, Carries, WorkerOnly,
         Closing, WithSocket, Labels
    <3> QED BY <3>1, <3>2, UsingKept
  <2>4. Counted'
    <3>1. UNCHANGED referCount
      BY <1>15 DEF Accept, socketVars
    <3> QED BY <2>1, <2>2, <2>3, <3>1, CountsKept DEF RefInv
  <2>5. NoneLeft'
    BY <1>15 DEF Accept, Goto, socketVars, RefInv, NoneLeft, InMap,
       ObjectTypes, Local, WithSocket, Places, Role, Carries, Locked,
       WorkerOnly, Closing, UidInv, Alive
  <2>6. InMap'
    BY <1>15 DEF Accept, Goto, socketVars, RefInv, InMap, ObjectTypes, Local,
       WithSocket, Places, Role, Carries, Locked, WorkerOnly, Closing, UidInv,
       Alive
  <2> QED BY <2>4, <2>5, <2>6 DEF RefInv
<1>16. ASSUME NEW a \in Acceptors, registerSocket(a) PROVE RefInv'
  <2>1. \A r \in Sockets : Outstanding(r)' = Outstanding(r)
    BY <1>16 DEF registerSocket, frameVars, Outstanding
  <2>2. \A r \in Sockets : Dispatching(r)' = Dispatching(r)
    <3>1. \A u \in Workers : (Dispatches(u)' <=> Dispatches(u)) /\ (Dispatches(u) => op'[u] = op[u])
      BY <1>16 DEF registerSocket, Goto, Return, Dispatches, Places, Carries
    <3>2. UNCHANGED io
      BY <1>16 DEF registerSocket, frameVars
    <3> QED BY <3>1, <3>2, DispatchingKept
  <2>3. \A r \in Sockets : Using(r)' = Using(r)
    <3>1. \A u \in Threads \ {a} : pc'[u] = pc[u] /\ op'[u] = op[u] /\ socket'[u] = socket[u]
      BY <1>16 DEF registerSocket, Goto, Return
    <3>2. \A r \in Sockets : (a \in Using(r)') <=> (a \in Using(r))
      BY <1>16 DEF registerSocket, Goto, Return, Using, Places, Role, Carries,
         WorkerOnly, Closing, WithSocket, Labels
    <3> QED BY <3>1, <3>2, UsingKept
  <2>4. Counted'
    <3>1. UNCHANGED referCount
      BY <1>16 DEF registerSocket, socketVars
    <3> QED BY <2>1, <2>2, <2>3, <3>1, CountsKept DEF RefInv
  <2>5. NoneLeft'
    BY <1>16 DEF registerSocket, Goto, Return, clone, socketVars, RefInv,
       NoneLeft, InMap, ObjectTypes, Local, WithSocket, Places, Role, Carries,
       Locked, WorkerOnly, Closing, UidInv, Alive
  <2>6. InMap'
    BY <1>16 DEF registerSocket, Goto, Return, clone, socketVars, RefInv,
       InMap, ObjectTypes, Local, WithSocket, Places, Role, Carries, Locked,
       WorkerOnly, Closing, UidInv, Alive
  <2> QED BY <2>4, <2>5, <2>6 DEF RefInv
<1>17. ASSUME NEW t \in Threads, Insert(t) PROVE RefInv'
  <2>1. PICK s \in Sockets : s = socket[t] /\ s # None /\ pc[t] = "inserting"
    BY <1>17 DEF Insert, Local, WithSocket
  <2>2. /\ referCount' = [referCount EXCEPT ![s] = @ + 1] /\ UNCHANGED <<io, socket>>
        /\ pc'[t] \in {"WSARecv", "ConnectEx"} /\ op'[t] \in Frames /\ t \notin Clients
        /\ \A u \in Threads \ {t} : pc'[u] = pc[u] /\ op'[u] = op[u]
    BY <1>17, <2>1 DEF Insert, Goto, enterIO, retrieveIOFrame, Places, Role
  <2>3. \A r \in Sockets : Outstanding(r)' = Outstanding(r) /\ Dispatching(r)' = Dispatching(r)
    BY <2>1, <2>2 DEF Outstanding, Dispatching
  <2>4. Counted'
    <3>1. /\ t \notin Using(s) /\ Using(s)' = Using(s) \cup {t}
          /\ \A r \in Sockets \ {s} : Using(r)' = Using(r)
      BY <2>1, <2>2 DEF Using
    <3> QED BY <2>2, <2>3, <3>1, OneMoreUser
  <2>5. NoneLeft'
    BY <1>17 DEF Insert, Goto, enterIO, socketVars, RefInv, NoneLeft, InMap,
       ObjectTypes, Local, WithSocket, Places, Role, Carries, Locked,
       WorkerOnly, Closing, UidInv, Alive
  <2>6. InMap'
    BY <1>17 DEF Insert, Goto, enterIO, socketVars, RefInv, InMap, ObjectTypes,
       Local, WithSocket, Places, Role, Carries, Locked, WorkerOnly, Closing,
       UidInv, Alive
  <2> QED BY <2>4, <2>5, <2>6 DEF RefInv
<1>18. ASSUME NEW c \in Connectors, NEW h \in Handles, connectSocket(c, h)
       PROVE  RefInv'
  <2>1. \A r \in Sockets : Outstanding(r)' = Outstanding(r)
    BY <1>18 DEF connectSocket, frameVars, Outstanding
  <2>2. \A r \in Sockets : Dispatching(r)' = Dispatching(r)
    <3>1. \A u \in Workers : (Dispatches(u)' <=> Dispatches(u)) /\ (Dispatches(u) => op'[u] = op[u])
      BY <1>18 DEF connectSocket, Goto, localVars, Dispatches, Places, Carries
    <3>2. UNCHANGED io
      BY <1>18 DEF connectSocket, frameVars
    <3> QED BY <3>1, <3>2, DispatchingKept
  <2>3. \A r \in Sockets : Using(r)' = Using(r)
    <3>1. \A u \in Threads \ {c} : pc'[u] = pc[u] /\ op'[u] = op[u] /\ socket'[u] = socket[u]
      BY <1>18 DEF connectSocket, Goto, localVars
    <3>2. \A r \in Sockets : (c \in Using(r)') <=> (c \in Using(r))
      BY <1>18 DEF connectSocket, Goto, localVars, Using, Places, Role,
         Carries, WorkerOnly, Closing, WithSocket, Labels
    <3> QED BY <3>1, <3>2, UsingKept
  <2>4. Counted'
    <3>1. UNCHANGED referCount
      BY <1>18 DEF connectSocket, socketVars
    <3> QED BY <2>1, <2>2, <2>3, <3>1, CountsKept DEF RefInv
  <2>5. NoneLeft'
    BY <1>18 DEF connectSocket, Goto, localVars, clone, socketVars, RefInv,
       NoneLeft, InMap, ObjectTypes, Local, WithSocket, Places, Role, Carries,
       Locked, WorkerOnly, Closing, UidInv, Alive
  <2>6. InMap'
    BY <1>18 DEF connectSocket, Goto, localVars, clone, socketVars, RefInv,
       InMap, ObjectTypes, Local, WithSocket, Places, Role, Carries, Locked,
       WorkerOnly, Closing, UidInv, Alive
  <2> QED BY <2>4, <2>5, <2>6 DEF RefInv
<1>19. ASSUME NEW c \in Connectors, ConnectEx(c) PROVE RefInv'
  <2>1. pc[c] \in Posting /\ UNCHANGED referCount
    BY <1>19 DEF ConnectEx, Posting, socketVars
  <2>2. Counted'
    <3>1. CASE Posted(c, "connect")
      BY <2>1, <3>1, RequestIsPosted
    <3>2. CASE Refused(c)
      BY <2>1, <3>2, RequestIsRefused
    <3> QED BY <1>19, <3>1, <3>2 DEF ConnectEx
  <2>3. NoneLeft'
    BY <1>19 DEF ConnectEx, Goto, Return, Posted, Refused, Unlock, socketVars,
       RefInv, NoneLeft, InMap, ObjectTypes, Local, WithSocket, Places, Role,
       Carries, Locked, WorkerOnly, Closing, UidInv, Alive
  <2>4. InMap'
    BY <1>19 DEF ConnectEx, Goto, Return, Posted, Refused, Unlock, socketVars,
       RefInv, InMap, ObjectTypes, Local, WithSocket, Places, Role, Carries,
       Locked, WorkerOnly, Closing, UidInv, Alive
  <2> QED BY <2>2, <2>3, <2>4 DEF RefInv
<1>20. ASSUME NEW c \in Clients, NEW s \in Sockets, postingSend(c, s)
       PROVE  RefInv'
  <2>1. /\ s \in theASSocks /\ pc[c] = "idle" /\ entireSynch = None /\ socket[c] = None
    BY <1>20 DEF postingSend, CanSend, Current, Lookup, Places, Carries, WithSocket
  <2>2. /\ referCount' = [referCount EXCEPT ![s] = @ + 1] /\ UNCHANGED io
        /\ pc'[c] = "WSASend" /\ op'[c] \in Frames /\ socket'[c] = s
        /\ \A u \in Threads \ {c} : pc'[u] = pc[u] /\ op'[u] = op[u] /\ socket'[u] = socket[u]
    BY <1>20 DEF postingSend, Goto, enterIO, retrieveIOFrame
  <2>3. \A r \in Sockets : Outstanding(r)' = Outstanding(r) /\ Dispatching(r)' = Dispatching(r)
    BY <2>1, <2>2 DEF Outstanding, Dispatching
  <2>4. Counted'
    <3>1. /\ c \notin Using(s) /\ Using(s)' = Using(s) \cup {c}
          /\ \A r \in Sockets \ {s} : Using(r)' = Using(r)
      BY <2>1, <2>2 DEF Using
    <3> QED BY <2>2, <2>3, <3>1, OneMoreUser
  <2>5. NoneLeft'
    BY <1>20 DEF postingSend, Goto, CanSend, Current, Lookup, enterIO,
       socketVars, RefInv, NoneLeft, InMap, ObjectTypes, Local, WithSocket,
       Places, Role, Carries, Locked, WorkerOnly, Closing, UidInv, Alive
  <2>6. InMap'
    BY <1>20 DEF postingSend, Goto, CanSend, Current, Lookup, enterIO,
       socketVars, RefInv, InMap, ObjectTypes, Local, WithSocket, Places, Role,
       Carries, Locked, WorkerOnly, Closing, UidInv, Alive
  <2> QED BY <2>4, <2>5, <2>6 DEF RefInv
<1>21. ASSUME NEW c \in Clients, WSASend(c) PROVE RefInv'
  <2>1. pc[c] \in Posting /\ UNCHANGED referCount
    BY <1>21 DEF WSASend, Posting, socketVars
  <2>2. Counted'
    <3>1. CASE Posted(c, "write")
      BY <2>1, <3>1, RequestIsPosted
    <3>2. CASE Refused(c)
      BY <2>1, <3>2, RequestIsRefused
    <3> QED BY <1>21, <3>1, <3>2 DEF WSASend
  <2>3. NoneLeft'
    BY <1>21 DEF WSASend, Goto, Return, Posted, Refused, Unlock, socketVars,
       RefInv, NoneLeft, InMap, ObjectTypes, Local, WithSocket, Places, Role,
       Carries, Locked, WorkerOnly, Closing, UidInv, Alive
  <2>4. InMap'
    BY <1>21 DEF WSASend, Goto, Return, Posted, Refused, Unlock, socketVars,
       RefInv, InMap, ObjectTypes, Local, WithSocket, Places, Role, Carries,
       Locked, WorkerOnly, Closing, UidInv, Alive
  <2> QED BY <2>2, <2>3, <2>4 DEF RefInv
<1>22. ASSUME NEW c \in Clients, NEW s \in Sockets, disconnectSocket(c, s)
       PROVE  RefInv'
  <2>1. \A r \in Sockets : Outstanding(r)' = Outstanding(r)
    BY <1>22 DEF disconnectSocket, frameVars, Outstanding
  <2>2. \A r \in Sockets : Dispatching(r)' = Dispatching(r)
    <3>1. \A u \in Workers : (Dispatches(u)' <=> Dispatches(u)) /\ (Dispatches(u) => op'[u] = op[u])
      BY <1>22 DEF disconnectSocket, Goto, Dispatches, Places, Carries
    <3>2. UNCHANGED io
      BY <1>22 DEF disconnectSocket, frameVars
    <3> QED BY <3>1, <3>2, DispatchingKept
  <2>3. \A r \in Sockets : Using(r)' = Using(r)
    <3>1. \A u \in Threads \ {c} : pc'[u] = pc[u] /\ op'[u] = op[u] /\ socket'[u] = socket[u]
      BY <1>22 DEF disconnectSocket, Goto
    <3>2. \A r \in Sockets : (c \in Using(r)') <=> (c \in Using(r))
      BY <1>22 DEF disconnectSocket, Goto, Using, Places, Role, Carries,
         WorkerOnly, Closing, WithSocket, Labels
    <3> QED BY <3>1, <3>2, UsingKept
  <2>4. Counted'
    <3>1. UNCHANGED referCount
      BY <1>22 DEF disconnectSocket, socketVars
    <3> QED BY <2>1, <2>2, <2>3, <3>1, CountsKept DEF RefInv
  <2>5. NoneLeft'
    BY <1>22 DEF disconnectSocket, Goto, Current, Lookup, socketVars, RefInv,
       NoneLeft, InMap, ObjectTypes, Local, WithSocket, Places, Role, Carries,
       Locked, WorkerOnly, Closing, UidInv, Alive
  <2>6. InMap'
    BY <1>22 DEF disconnectSocket, Goto, Current, Lookup, socketVars, RefInv,
       InMap, ObjectTypes, Local, WithSocket, Places, Role, Carries, Locked,
       WorkerOnly, Closing, UidInv, Alive
  <2> QED BY <2>4, <2>5, <2>6 DEF RefInv
<1>23. ASSUME NEW f \in Frames, Completes(f) PROVE RefInv'
  <2>1. ASSUME NEW g \in Frames
        PROVE  /\ io'[g].state = "user" <=> io[g].state = "user"
               /\ io'[g].sock = io[g].sock
    BY <1>23, EndedBySystem
  <2>2. \A r \in Sockets : Outstanding(r)' = Outstanding(r)
    BY <2>1, OutstandingKept
  <2>3. \A r \in Sockets : Dispatching(r)' = Dispatching(r)
    <3>1. \A u \in Workers : (Dispatches(u)' <=> Dispatches(u)) /\ (Dispatches(u) => op'[u] = op[u])
      BY <1>23 DEF Completes, localVars, Dispatches, Places, Carries
    <3> QED BY <2>1, <3>1, DispatchingKept
  <2>4. \A r \in Sockets : Using(r)' = Using(r)
    BY <1>23 DEF Completes, localVars, Using
  <2>5. Counted'
    <3>1. UNCHANGED referCount
      BY <1>23 DEF Completes, socketVars
    <3> QED BY <2>2, <2>3, <2>4, <3>1, CountsKept DEF RefInv
  <2>6. NoneLeft'
    BY <1>23 DEF Completes, localVars, socketVars, RefInv, NoneLeft, InMap,
       ObjectTypes, Local, WithSocket, Places, Role, Carries, Locked,
       WorkerOnly, Closing, UidInv, Alive
  <2>7. InMap'
    BY <1>23 DEF Completes, localVars, socketVars, RefInv, InMap, ObjectTypes,
       Local, WithSocket, Places, Role, Carries, Locked, WorkerOnly, Closing,
       UidInv, Alive
  <2> QED BY <2>5, <2>6, <2>7 DEF RefInv
<1>24. CASE UNCHANGED vars
  <2>1. Counted'
    BY <1>24, CountsKept DEF vars, socketVars, frameVars, localVars, RefInv,
       Outstanding, Dispatching, Using
  <2> QED BY <1>24, <2>1 DEF vars, socketVars, localVars, RefInv, NoneLeft, InMap
<1> QED
  BY <1>1, <1>2, <1>3, <1>4, <1>5, <1>6, <1>7, <1>8, <1>9, <1>10, <1>11, <1>12,
     <1>13, <1>14, <1>15, <1>16, <1>17, <1>18, <1>19, <1>20, <1>21, <1>22,
     <1>23, <1>24 DEF Next, WorkerStep, DispatchStep, SocketStep, SharedStep,
     StaleCall
-----------------------------------------------------------------------------
SocketInv == BasicInv /\ HandleInv /\ RequestInv /\ RefInv

LEMMA SocketInvariant ==
  ASSUME ~ ReuseStale
  PROVE  Spec => []SocketInv
<1>1. Init => SocketInv
  BY InitTInv, InitPlaces, InitFrames, InitUids, InitHandles, InitRequests,
     InitReferences
  DEF SocketInv, BasicInv
<1>2. SocketInv /\ [Next]_vars => SocketInv'
  <2> SUFFICES ASSUME SocketInv, [Next]_vars PROVE SocketInv'
    OBVIOUS
  <2>1. BasicInv'
    BY StepTInv, StepPlaces, StepFrames, StepUids DEF SocketInv, BasicInv
  <2>2. HandleInv'
    BY <2>1, StepHandles DEF SocketInv
  <2>3. RequestInv'
    BY <2>1, <2>2, StepRequests DEF SocketInv
  <2>4. RefInv'
    BY <2>1, StepReferences DEF SocketInv
  <2> QED
    BY <2>1, <2>2, <2>3, <2>4 DEF SocketInv
<1> QED
  BY <1>1, <1>2, PTL DEF Spec

(* No thread ever has a pointer to a deleted socket: whoever works on one has *)
(* a reference, keeps it in the map (or is putting it there), and is alone    *)
(* with it when it erases it.                                                 *)
THEOREM NoSocketUsedAfterFree ==
  ASSUME ~ ReuseStale
  PROVE  Spec => []NoUseAfterFree
<1>1. SocketInv => NoUseAfterFree
  <2> SUFFICES ASSUME SocketInv, NEW t \in Threads, socket[t] # None
               PROVE  life[socket[t]] = "live"
    BY DEF NoUseAfterFree
  <2> QED
    BY DEF SocketInv, RefInv, InMap, BasicInv, UidInv, Alive
<1> QED
  BY <1>1, SocketInvariant, PTL

(* The reference count of a socket covers its requests and the threads that   *)
(* will still call releaseSocket for it, whatever an unlocked find misses.    *)
THEOREM CountCoversReferences ==
  ASSUME ~ ReuseStale
  PROVE  Spec => []RefCountCovers
<1>1. SocketInv => RefCountCovers
  BY DEF SocketInv, RefInv, Counted, CountedAt, RefCountCovers
<1> QED
  BY <1>1, SocketInvariant, PTL

(* If no find misses, enterIO and releaseSocket are called in pairs: the      *)
(* count is exactly the number of references.                                 *)
THEOREM CountIsExact ==
  ASSUME ~ ReuseStale, ~ TornFind
  PROVE  Spec => []RefCountExact
<1>1. SocketInv => RefCountExact
  BY DEF SocketInv, RefInv, Counted, CountedAt, RefCountExact
<1> QED
  BY <1>1, SocketInvariant, PTL

(* A completion comes back under the uid of the socket the request was posted *)
(* for.                                                                       *)
THEOREM CompletesOnItsSocket ==
  ASSUME ~ ReuseStale
  PROVE  Spec => []CompletesOnOwnSocket
<1>1. SocketInv => CompletesOnOwnSocket
  BY DEF SocketInv, RequestInv, KeyedByUid, CompletesOnOwnSocket
<1> QED
  BY <1>1, SocketInvariant, PTL

(* "already disappeared... oops critical error" is never reached: a           *)
(* completion still holds the reference that keeps its socket in the map.     *)
THEOREM NothingDisappears ==
  ASSUME ~ ReuseStale, ~ TornFind
  PROVE  Spec => NeverDisappeared
<1>1. SocketInv /\ [Next]_vars =>
        [\A w \in Workers : pc[w] \in {"dispatchCompletion", "dispatchError"}
                              => pc'[w] # "idle"]_vars
  <2> SUFFICES ASSUME SocketInv, [Next]_vars, NEW w \in Workers,
                      Dispatches(w), pc'[w] = "idle"
               PROVE  FALSE
    BY DEF Dispatches
  <2> USE Roles, ServiceAssumption DEF SocketInv, BasicInv, TInv, LocalTypes
  <2>1. ASSUME NEW v \in Workers, NEW f \in Frames,
     GetQueuedCompletionStatus(v, f) PROVE FALSE
    BY <2>1 DEF GetQueuedCompletionStatus, Goto, Dispatches
  <2>2. ASSUME NEW v \in Workers, dispatchCompletion(v) PROVE FALSE
    BY <2>2 DEF dispatchCompletion, Goto, FoundLabel, Dispatches
  <2>3. ASSUME NEW v \in Workers, Disappeared(v) PROVE FALSE
    BY <2>3, WhyMissed DEF SocketInv
  <2>4. ASSUME NEW v \in Workers, dispatchError(v) PROVE FALSE
    BY <2>4 DEF dispatchError, Goto, Dispatches
  <2>5. ASSUME NEW v \in Workers, Connected(v) PROVE FALSE
    BY <2>5 DEF Connected, Goto, Dispatches
  <2>6. ASSUME NEW v \in Workers, Message(v) PROVE FALSE
    BY <2>6 DEF Message, Goto, Dispatches
  <2>7. ASSUME NEW t \in Threads, disconnect(t) PROVE FALSE
    BY <2>7 DEF disconnect, Goto, Return, AfterDisconnect, Dispatches
  <2>8. ASSUME NEW t \in Threads, closesocket(t) PROVE FALSE
    BY <2>8 DEF closesocket, Goto, Dispatches
  <2>9. ASSUME NEW t \in Threads, setClosed(t) PROVE FALSE
    BY <2>9 DEF setClosed, Goto, Return, AfterDisconnect, Dispatches
  <2>10. ASSUME NEW v \in Workers, postingRead(v) PROVE FALSE
    BY <2>10 DEF postingRead, Goto, Dispatches
  <2>11. ASSUME NEW t \in Threads, WSARecv(t) PROVE FALSE
    BY <2>11 DEF WSARecv, Goto, Return, Posted, Refused, Unlock, Dispatches
  <2>12. ASSUME NEW t \in Threads, releaseSocket(t) PROVE FALSE
    BY <2>12 DEF releaseSocket, Goto, Return, LeaveReleaseSocket, Dispatches
  <2>13. ASSUME NEW t \in Threads, Erase(t) PROVE FALSE
    BY <2>13 DEF Erase, Goto, Return, LeaveReleaseSocket, Dispatches
  <2>14. ASSUME NEW v \in Workers, ReleaseFrame(v) PROVE FALSE
    BY <2>14 DEF ReleaseFrame, Goto, Return, Dispatches
  <2>15. ASSUME NEW a \in Acceptors, NEW h \in Handles, Accept(a, h) PROVE
     FALSE
    BY <2>15 DEF Accept, Goto, Dispatches
  <2>16. ASSUME NEW a \in Acceptors, registerSocket(a) PROVE FALSE
    BY <2>16 DEF registerSocket, Goto, Return, Dispatches
  <2>17. ASSUME NEW t \in Threads, Insert(t) PROVE FALSE
    BY <2>17 DEF Insert, Goto, Dispatches
  <2>18. ASSUME NEW c \in Connectors, NEW h \in Handles, connectSocket(c, h)
     PROVE FALSE
    BY <2>18 DEF connectSocket, Goto, localVars, Dispatches
  <2>19. ASSUME NEW c \in Connectors, ConnectEx(c) PROVE FALSE
    BY <2>19 DEF ConnectEx, Goto, Return, Posted, Refused, Unlock, Dispatches
  <2>20. ASSUME NEW c \in Clients, NEW s \in Sockets, postingSend(c, s) PROVE
     FALSE
    BY <2>20 DEF postingSend, Goto, Dispatches
  <2>21. ASSUME NEW c \in Clients, WSASend(c) PROVE FALSE
    BY <2>21 DEF WSASend, Goto, Return, Posted, Refused, Unlock, Dispatches
  <2>22. ASSUME NEW c \in Clients, NEW s \in Sockets, disconnectSocket(c, s)
     PROVE FALSE
    BY <2>22 DEF disconnectSocket, Goto, Dispatches
  <2>23. ASSUME NEW f \in Frames, Completes(f) PROVE FALSE
    BY <2>23 DEF Completes, localVars, Dispatches
  <2>24. CASE UNCHANGED vars
    BY <2>24 DEF vars, localVars, Dispatches
  <2> QED
    BY <2>1, <2>2, <2>3, <2>4, <2>5, <2>6, <2>7, <2>8, <2>9, <2>10, <2>11,
       <2>12, <2>13, <2>14, <2>15, <2>16, <2>17, <2>18, <2>19, <2>20, <2>21,
       <2>22, <2>23, <2>24 DEF Next, WorkerStep, DispatchStep, SocketStep,
       SharedStep, StaleCall
<1> QED
  BY <1>1, SocketInvariant, PTL DEF Spec, NeverDisappeared
=============================================================================
