----------------------- MODULE AsynchIOServiceProofs ------------------------
(* Theorems about the completion port service, for any number of threads,     *)
(* sockets, frames and handles.                                               *)
EXTENDS AsynchIOService, FiniteSetTheorems, TLAPS

(* Lists without repetition, like the pool of frames and the list of uids to  *)
(* reuse: taking the first element, appending a new one.                      *)
LEMMA HeadTail ==
  ASSUME NEW S, NEW q \in Seq(S), q # <<>>, IsInjective(q)
  PROVE  /\ Head(q) \in S /\ Tail(q) \in Seq(S)
         /\ Head(q) \in Range(q)
         /\ IsInjective(Tail(q))
         /\ Range(Tail(q)) = Range(q) \ {Head(q)}
<1>1. /\ Head(q) \in S /\ Tail(q) \in Seq(S) /\ Len(q) \in Nat \ {0}
      /\ Head(q) = q[1] /\ DOMAIN q = 1 .. Len(q)
      /\ Len(Tail(q)) = Len(q) - 1 /\ DOMAIN Tail(q) = 1 .. Len(q) - 1
      /\ \A i \in 1 .. Len(q) - 1 : Tail(q)[i] = q[i + 1]
  OBVIOUS
<1>2. IsInjective(Tail(q)) /\ Head(q) \in Range(q)
  BY <1>1 DEF IsInjective, Range
<1>3. Range(Tail(q)) \subseteq Range(q) \ {Head(q)}
  BY <1>1 DEF IsInjective, Range
<1>4. ASSUME NEW x \in Range(q) \ {Head(q)} PROVE x \in Range(Tail(q))
  <2>1. PICK i \in 1 .. Len(q) : q[i] = x
    BY <1>1 DEF Range
  <2>2. i # 1 /\ i - 1 \in 1 .. Len(q) - 1 /\ Tail(q)[i - 1] = x
    BY <1>1, <1>4, <2>1
  <2> QED
    BY <1>1, <2>2 DEF Range
<1> QED
  BY <1>1, <1>2, <1>3, <1>4

LEMMA AppendNew ==
  ASSUME NEW S, NEW q \in Seq(S), NEW n \in S, IsInjective(q), n \notin Range(q)
  PROVE  /\ Append(q, n) \in Seq(S)
         /\ IsInjective(Append(q, n))
         /\ Range(Append(q, n)) = Range(q) \cup {n}
<1>1. /\ Append(q, n) \in Seq(S) /\ Len(q) \in Nat /\ DOMAIN q = 1 .. Len(q)
      /\ DOMAIN Append(q, n) = 1 .. Len(q) + 1
      /\ \A i \in 1 .. Len(q) : Append(q, n)[i] = q[i]
      /\ Append(q, n)[Len(q) + 1] = n
  OBVIOUS
<1>2. IsInjective(Append(q, n))
  BY <1>1 DEF IsInjective, Range
<1>3. Range(Append(q, n)) = Range(q) \cup {n}
  BY <1>1 DEF Range
<1> QED
  BY <1>1, <1>2, <1>3
-----------------------------------------------------------------------------

(* The locals a thread has at each place: a frame, a socket, a handle.        *)
WithFrame  == {"dispatchCompletion", "dispatchError", "connected", "message",
               "postingRead", "WSARecv", "ConnectEx", "WSASend", "releaseIOFrame"}
WithSocket == {"connected", "message", "disconnect", "closesocket", "setClosed",
               "postingRead", "WSARecv", "releaseSocket", "erasing", "inserting",
               "ConnectEx", "WSASend"}
WithHandle == {"closesocket", "registerSocket"}

(* The types, by part of the state; Local says which locals are set where.    *)
ObjectTypes ==
  /\ uid \in [Sockets -> Nat]
  /\ sockID \in [Sockets -> Handles \cup {None}]
  /\ referCount \in [Sockets -> Int]
  /\ closed \in [Sockets -> BOOLEAN]
  /\ life \in [Sockets -> {"unborn", "live", "leaked", "deleted"}]
  /\ theASSocks \in SUBSET Sockets
  /\ told \in [Sockets -> {"nothing", "asked", "registered", "connected",
                           "refused", "released"}]
UidTypes == currentNumber \in Nat /\ reuseList \in Seq(Nat)
SystemTypes == open \in SUBSET Handles /\ assoc \in [Handles -> Nat]
FrameTypes == /\ fresh \in SUBSET Frames /\ ioFramePools \in Seq(Frames)
              /\ io \in [Frames -> FrameFields]
LockTypes == entireSynch \in Threads \cup {None}
Local(t) == /\ pc[t] \in WithFrame  => op[t] \in Frames
            /\ pc[t] \in WithSocket => socket[t] \in Sockets
            /\ pc[t] \in WithHandle => handle[t] \in Handles
LocalTypes == 
  /\ pc \in [Threads -> Labels]
  /\ op \in [Threads -> Frames \cup {None}]
  /\ socket \in [Threads -> Sockets \cup {None}]
  /\ handle \in [Threads -> Handles \cup {None}]
  /\ \A t \in Threads : Local(t)
TInv == ObjectTypes /\ UidTypes /\ SystemTypes /\ FrameTypes /\ LockTypes /\ LocalTypes

LEMMA Roles == /\ Workers \subseteq Threads /\ Acceptors \subseteq Threads
               /\ Connectors \subseteq Threads /\ Clients \subseteq Threads
BY DEF Threads

LEMMA InitTInv == Init => TInv
<1> SUFFICES ASSUME Init PROVE TInv
  OBVIOUS
<1>1. Blank \in FrameFields
  BY DEF Blank, FrameFields
<1> QED
  BY <1>1 DEF Init, TInv, ObjectTypes, UidTypes, SystemTypes, FrameTypes, LockTypes,
     LocalTypes, Local, WithFrame, WithSocket, WithHandle, Labels, PrototypeUid

(* What the pool, the requests and the thread locals become is typed.         *)
LEMMA CompletionTyped ==
  ASSUME FrameTypes, SystemTypes, NEW f \in Frames, io[f].on \in Handles,
         NEW r \in {"data", "eof", "error"}
  PROVE  Completion(f, r) \in FrameFields
BY DEF FrameTypes, SystemTypes, FrameFields, Completion

LEMMA FrameReleased ==
  ASSUME FrameTypes, NEW f \in Frames, releaseIOFrame(f)
  PROVE  FrameTypes'
<1>1. Blank \in FrameFields
  BY DEF Blank, FrameFields
<1> QED
  BY <1>1 DEF FrameTypes, releaseIOFrame

LEMMA UidRetrieved ==
  ASSUME UidTypes, NEW n, Uids!retrieve(n)
  PROVE  UidTypes' /\ n \in Nat
BY DEF UidTypes, Uids!retrieve

LEMMA CloneTyped ==
  ASSUME ObjectTypes, UidTypes, NEW s \in Sockets, clone(s)
  PROVE  UidTypes' /\ uid' \in [Sockets -> Nat]
<1>1. PICK n \in 0 .. currentNumber + 1 :
        Uids!retrieve(n) /\ uid' = [uid EXCEPT ![s] = n]
  BY DEF clone
<1>2. UidTypes' /\ n \in Nat
  BY <1>1, UidRetrieved
<1> QED
  BY <1>1, <1>2 DEF ObjectTypes

LEMMA FrameRetrieved ==
  ASSUME FrameTypes, NEW f \in Frames, retrieveIOFrame(f)
  PROVE  FrameTypes'
BY DEF FrameTypes, retrieveIOFrame, popFrame

LEMMA FramePosted ==
  ASSUME FrameTypes, LocalTypes, NEW t \in Threads, op[t] \in Frames,
         NEW type \in {"read", "write", "connect"}, Posted(t, type)
  PROVE  FrameTypes'
<1>1. Request(type, socket[t], handle[t]) \in FrameFields
  BY DEF Request, FrameFields, LocalTypes
<1> QED
  BY <1>1 DEF FrameTypes, Posted

LEMMA StepTInv == TInv /\ [Next]_vars => TInv'
<1> SUFFICES ASSUME TInv, [Next]_vars PROVE TInv'
  OBVIOUS
<1> USE DEF TInv
<1>1. ASSUME NEW w \in Workers, NEW f \in Frames, GetQueuedCompletionStatus(w,
     f) PROVE TInv'
  <2>1. ObjectTypes' /\ UidTypes' /\ SystemTypes' /\ LockTypes'
    BY <1>1, Roles DEF GetQueuedCompletionStatus, ObjectTypes, UidTypes,
       SystemTypes, LockTypes, socketVars, uidVars, osVars
  <2>2. FrameTypes'
    BY <1>1, Roles DEF GetQueuedCompletionStatus, FrameTypes, FrameFields,
       LocalTypes, Local, WithFrame, WithSocket, WithHandle, Labels
  <2>3. LocalTypes'
    BY <1>1, Roles DEF GetQueuedCompletionStatus, Goto, Return, LocalTypes,
       Local, WithFrame, WithSocket, WithHandle, Labels
  <2> QED BY <2>1, <2>2, <2>3
<1>2. ASSUME NEW w \in Workers, dispatchCompletion(w) PROVE TInv'
  <2>1. ObjectTypes' /\ UidTypes' /\ SystemTypes' /\ LockTypes' /\ FrameTypes'
    BY <1>2, Roles DEF dispatchCompletion, ObjectTypes, UidTypes, SystemTypes,
       LockTypes, socketVars, uidVars, osVars, FrameTypes, frameVars
  <2>3. LocalTypes'
    BY <1>2, Roles DEF dispatchCompletion, FoundLabel, Lookup, ObjectTypes,
       Goto, Return, LocalTypes, Local, WithFrame, WithSocket, WithHandle,
       Labels
  <2> QED BY <2>1, <2>3
<1>3. ASSUME NEW w \in Workers, Disappeared(w) PROVE TInv'
  <2>1. ObjectTypes' /\ UidTypes' /\ SystemTypes' /\ LockTypes'
    BY <1>3, Roles DEF Disappeared, ObjectTypes, UidTypes, SystemTypes,
       LockTypes, socketVars, uidVars, osVars
  <2>2. FrameTypes'
    BY <1>3, Roles, FrameReleased DEF Disappeared, FrameTypes, frameVars,
       LocalTypes, Local, WithFrame, WithSocket, WithHandle, Labels
  <2>3. LocalTypes'
    BY <1>3, Roles DEF Disappeared, Goto, Return, LocalTypes, Local, WithFrame,
       WithSocket, WithHandle, Labels
  <2> QED BY <2>1, <2>2, <2>3
<1>4. ASSUME NEW w \in Workers, dispatchError(w) PROVE TInv'
  <2>1. ObjectTypes' /\ UidTypes' /\ SystemTypes' /\ LockTypes' /\ FrameTypes'
    BY <1>4, Roles DEF dispatchError, Lookup, notifyConnectingResult,
       ObjectTypes, UidTypes, SystemTypes, LockTypes, socketVars, uidVars,
       osVars, FrameTypes, frameVars
  <2>3. LocalTypes'
    BY <1>4, Roles DEF dispatchError, Lookup, ObjectTypes, Goto, Return,
       LocalTypes, Local, WithFrame, WithSocket, WithHandle, Labels
  <2> QED BY <2>1, <2>3
<1>5. ASSUME NEW w \in Workers, Connected(w) PROVE TInv'
  <2>1. ObjectTypes' /\ UidTypes' /\ SystemTypes' /\ LockTypes'
    BY <1>5, Roles DEF Connected, notifyConnectingResult, ObjectTypes,
       UidTypes, SystemTypes, LockTypes, socketVars, uidVars, osVars
  <2>2. FrameTypes'
    BY <1>5, Roles, FrameReleased DEF Connected, FrameTypes, frameVars,
       LocalTypes, Local, WithFrame, WithSocket, WithHandle, Labels
  <2>3. LocalTypes'
    BY <1>5, Roles DEF Connected, Goto, Return, LocalTypes, Local, WithFrame,
       WithSocket, WithHandle, Labels
  <2> QED BY <2>1, <2>2, <2>3
<1>6. ASSUME NEW w \in Workers, Message(w) PROVE TInv'
  <2>1. ObjectTypes' /\ UidTypes' /\ SystemTypes' /\ LockTypes' /\ FrameTypes'
    BY <1>6, Roles DEF Message, ObjectTypes, UidTypes, SystemTypes, LockTypes,
       socketVars, uidVars, osVars, FrameTypes, frameVars
  <2>3. LocalTypes'
    BY <1>6, Roles DEF Message, Goto, Return, LocalTypes, Local, WithFrame,
       WithSocket, WithHandle, Labels
  <2> QED BY <2>1, <2>3
<1>7. ASSUME NEW t \in Threads, disconnect(t) PROVE TInv'
  <2>1. ObjectTypes' /\ UidTypes' /\ SystemTypes' /\ LockTypes' /\ FrameTypes'
    BY <1>7, Roles DEF disconnect, AfterDisconnect, ObjectTypes, UidTypes,
       SystemTypes, LockTypes, socketVars, uidVars, osVars, FrameTypes,
       frameVars
  <2>3. LocalTypes'
    BY <1>7, Roles DEF disconnect, AfterDisconnect, ObjectTypes, Goto, Return,
       LocalTypes, Local, WithFrame, WithSocket, WithHandle, Labels
  <2> QED BY <2>1, <2>3
<1>8. ASSUME NEW t \in Threads, closesocket(t) PROVE TInv'
  <2>1. ObjectTypes' /\ UidTypes' /\ SystemTypes' /\ LockTypes'
    BY <1>8, Roles DEF closesocket, ObjectTypes, UidTypes, SystemTypes,
       LockTypes, socketVars, uidVars, osVars, LocalTypes, Local, WithFrame,
       WithSocket, WithHandle, Labels
  <2>2. FrameTypes'
    <3>1. handle[t] \in Handles
      BY <1>8 DEF closesocket, LocalTypes, Local, WithHandle
    <3>2. ASSUME NEW f \in Frames
          PROVE  [io[f] EXCEPT !.on = None] \in FrameFields
      BY DEF FrameTypes, FrameFields
    <3>3. ASSUME NEW f \in Frames, Cancelled(f, handle[t])
          PROVE  Completion(f, "error") \in FrameFields
      BY <3>1, <3>3, CompletionTyped DEF Cancelled
    <3> QED
      BY <1>8, <3>2, <3>3 DEF closesocket, FrameTypes
  <2>3. LocalTypes'
    BY <1>8, Roles DEF closesocket, Cancelled, Goto, Return, LocalTypes, Local,
       WithFrame, WithSocket, WithHandle, Labels
  <2> QED BY <2>1, <2>2, <2>3
<1>9. ASSUME NEW t \in Threads, setClosed(t) PROVE TInv'
  <2>1. ObjectTypes' /\ UidTypes' /\ SystemTypes' /\ LockTypes' /\ FrameTypes'
    BY <1>9, Roles DEF setClosed, AfterDisconnect, forgetSOCKET, ObjectTypes,
       UidTypes, SystemTypes, LockTypes, socketVars, uidVars, osVars,
       FrameTypes, frameVars
  <2>3. LocalTypes'
    BY <1>9, Roles DEF setClosed, AfterDisconnect, Goto, Return, LocalTypes,
       Local, WithFrame, WithSocket, WithHandle, Labels
  <2> QED BY <2>1, <2>3
<1>10. ASSUME NEW w \in Workers, postingRead(w) PROVE TInv'
  <2>1. ObjectTypes' /\ UidTypes' /\ SystemTypes' /\ LockTypes' /\ FrameTypes'
    BY <1>10, Roles DEF postingRead, ObjectTypes, UidTypes, SystemTypes,
       LockTypes, socketVars, uidVars, osVars, FrameTypes, frameVars
  <2>3. LocalTypes'
    BY <1>10, Roles DEF postingRead, ObjectTypes, Goto, Return, LocalTypes,
       Local, WithFrame, WithSocket, WithHandle, Labels
  <2> QED BY <2>1, <2>3
<1>11. ASSUME NEW t \in Threads, WSARecv(t) PROVE TInv'
  <2>1. ObjectTypes' /\ UidTypes' /\ SystemTypes' /\ LockTypes'
    BY <1>11, Roles DEF WSARecv, Posted, Refused, Unlock, ObjectTypes,
       UidTypes, SystemTypes, LockTypes, socketVars, uidVars, osVars
  <2>2. FrameTypes'
    BY <1>11, Roles, FrameReleased, FramePosted DEF WSARecv, FrameTypes,
       frameVars, LocalTypes, Local, WithFrame, WithSocket, WithHandle, Labels,
       Refused
  <2>3. LocalTypes'
    BY <1>11, Roles DEF WSARecv, Posted, Refused, Goto, Return, LocalTypes,
       Local, WithFrame, WithSocket, WithHandle, Labels
  <2> QED BY <2>1, <2>2, <2>3
<1>12. ASSUME NEW t \in Threads, releaseSocket(t) PROVE TInv'
  <2>1. ObjectTypes' /\ UidTypes' /\ SystemTypes' /\ LockTypes' /\ FrameTypes'
    BY <1>12, Roles DEF releaseSocket, LeaveReleaseSocket, ObjectTypes,
       UidTypes, SystemTypes, LockTypes, socketVars, uidVars, osVars,
       LocalTypes, Local, WithFrame, WithSocket, WithHandle, Labels,
       FrameTypes, frameVars
  <2>3. LocalTypes'
    BY <1>12, Roles DEF releaseSocket, LeaveReleaseSocket, Goto, Return,
       LocalTypes, Local, WithFrame, WithSocket, WithHandle, Labels
  <2> QED BY <2>1, <2>3
<1>13. ASSUME NEW t \in Threads, Erase(t) PROVE TInv'
  <2>1. ObjectTypes' /\ UidTypes' /\ SystemTypes' /\ LockTypes' /\ FrameTypes'
    BY <1>13, Roles DEF Erase, LeaveReleaseSocket, notifyReleaseSocket,
       Uids!release, ObjectTypes, UidTypes, SystemTypes, LockTypes, socketVars,
       uidVars, osVars, LocalTypes, Local, WithFrame, WithSocket, WithHandle,
       Labels, FrameTypes, frameVars
  <2>3. LocalTypes'
    BY <1>13, Roles DEF Erase, LeaveReleaseSocket, Goto, Return, LocalTypes,
       Local, WithFrame, WithSocket, WithHandle, Labels
  <2> QED BY <2>1, <2>3
<1>14. ASSUME NEW w \in Workers, ReleaseFrame(w) PROVE TInv'
  <2>1. ObjectTypes' /\ UidTypes' /\ SystemTypes' /\ LockTypes'
    BY <1>14, Roles DEF ReleaseFrame, ObjectTypes, UidTypes, SystemTypes,
       LockTypes, socketVars, uidVars, osVars
  <2>2. FrameTypes'
    BY <1>14, Roles, FrameReleased DEF ReleaseFrame, FrameTypes, frameVars,
       LocalTypes, Local, WithFrame, WithSocket, WithHandle, Labels
  <2>3. LocalTypes'
    BY <1>14, Roles DEF ReleaseFrame, Goto, Return, LocalTypes, Local,
       WithFrame, WithSocket, WithHandle, Labels
  <2> QED BY <2>1, <2>2, <2>3
<1>15. ASSUME NEW a \in Acceptors, NEW h \in Handles, Accept(a, h) PROVE TInv'
  <2>1. ObjectTypes' /\ UidTypes' /\ SystemTypes' /\ LockTypes' /\ FrameTypes'
    BY <1>15, Roles DEF Accept, NewHandle, ObjectTypes, UidTypes, SystemTypes,
       LockTypes, socketVars, uidVars, osVars, FrameTypes, frameVars
  <2>3. LocalTypes'
    BY <1>15, Roles DEF Accept, NewHandle, Goto, Return, LocalTypes, Local,
       WithFrame, WithSocket, WithHandle, Labels
  <2> QED BY <2>1, <2>3
<1>16. ASSUME NEW a \in Acceptors, registerSocket(a) PROVE TInv'
  <2>1. UidTypes' /\ uid' \in [Sockets -> Nat]
    BY <1>16, CloneTyped DEF registerSocket
  <2>2. handle[a] \in Handles
    BY <1>16, Roles DEF registerSocket, LocalTypes, Local, WithHandle
  <2>3. life' \in [Sockets -> {"unborn", "live", "leaked", "deleted"}]
    BY <1>16 DEF registerSocket, ObjectTypes
  <2>4. sockID' \in [Sockets -> Handles \cup {None}]
    BY <1>16, <2>2 DEF registerSocket, ObjectTypes
  <2>5. SystemTypes' /\ LockTypes'
    BY <1>16, <2>1, <2>2, Roles DEF registerSocket, SystemTypes, LockTypes
  <2>6. ObjectTypes' /\ FrameTypes'
    BY <1>16, <2>1, <2>3, <2>4 DEF registerSocket, ObjectTypes, FrameTypes, frameVars
  <2>7. LocalTypes'
    BY <1>16, Roles DEF registerSocket, Goto, Return, LocalTypes, Local,
       WithFrame, WithSocket, WithHandle, Labels
  <2> QED BY <2>1, <2>5, <2>6, <2>7
<1>17. ASSUME NEW t \in Threads, Insert(t) PROVE TInv'
  <2>1. ObjectTypes' /\ UidTypes' /\ SystemTypes' /\ LockTypes'
    BY <1>17, Roles DEF Insert, enterIO, notifyRegisterSocket, Goto,
       ObjectTypes, UidTypes, SystemTypes, LockTypes, socketVars, uidVars,
       osVars, LocalTypes, Local, WithFrame, WithSocket, WithHandle, Labels
  <2>2. FrameTypes'
    BY <1>17, Roles, FrameRetrieved DEF Insert, FrameTypes, frameVars,
       LocalTypes, Local, WithFrame, WithSocket, WithHandle, Labels
  <2>3. LocalTypes'
    BY <1>17, Roles DEF Insert, Goto, Return, LocalTypes, Local, WithFrame,
       WithSocket, WithHandle, Labels
  <2> QED BY <2>1, <2>2, <2>3
<1>18. ASSUME NEW c \in Connectors, NEW h \in Handles, connectSocket(c, h)
       PROVE TInv'
  <2>1. UidTypes' /\ uid' \in [Sockets -> Nat]
    BY <1>18, CloneTyped DEF connectSocket, uidVars, UidTypes, ObjectTypes
  <2>2. life' \in [Sockets -> {"unborn", "live", "leaked", "deleted"}]
    BY <1>18 DEF connectSocket, ObjectTypes
  <2>3. sockID' \in [Sockets -> Handles \cup {None}]
    BY <1>18 DEF connectSocket, ObjectTypes
  <2>4. SystemTypes' /\ LockTypes'
    BY <1>18, <2>1, Roles DEF connectSocket, NewHandle, SystemTypes, LockTypes
  <2>5. ObjectTypes' /\ FrameTypes'
    BY <1>18, <2>1, <2>2, <2>3 DEF connectSocket, ObjectTypes, FrameTypes, frameVars
  <2>6. LocalTypes'
    BY <1>18, Roles DEF connectSocket, Goto, Return, LocalTypes, Local, localVars,
       WithFrame, WithSocket, WithHandle, Labels
  <2> QED BY <2>1, <2>4, <2>5, <2>6
<1>19. ASSUME NEW c \in Connectors, ConnectEx(c) PROVE TInv'
  <2>1. ObjectTypes' /\ UidTypes' /\ SystemTypes' /\ LockTypes'
    BY <1>19, Roles DEF ConnectEx, Posted, Refused, Unlock, ObjectTypes,
       UidTypes, SystemTypes, LockTypes, socketVars, uidVars, osVars
  <2>2. FrameTypes'
    BY <1>19, Roles, FrameReleased, FramePosted DEF ConnectEx, FrameTypes,
       frameVars, LocalTypes, Local, WithFrame, WithSocket, WithHandle, Labels,
       Refused
  <2>3. LocalTypes'
    BY <1>19, Roles DEF ConnectEx, Posted, Refused, Goto, Return, LocalTypes,
       Local, WithFrame, WithSocket, WithHandle, Labels
  <2> QED BY <2>1, <2>2, <2>3
<1>20. ASSUME NEW c \in Clients, NEW s \in Sockets, postingSend(c, s) PROVE
     TInv'
  <2>1. ObjectTypes' /\ UidTypes' /\ SystemTypes' /\ LockTypes'
    BY <1>20, Roles DEF postingSend, enterIO, ObjectTypes, UidTypes,
       SystemTypes, LockTypes, socketVars, uidVars, osVars
  <2>2. FrameTypes'
    BY <1>20, Roles, FrameRetrieved DEF postingSend, FrameTypes, frameVars,
       LocalTypes, Local, WithFrame, WithSocket, WithHandle, Labels
  <2>3. LocalTypes'
    BY <1>20, Roles DEF postingSend, ObjectTypes, Goto, Return, LocalTypes,
       Local, WithFrame, WithSocket, WithHandle, Labels
  <2> QED BY <2>1, <2>2, <2>3
<1>21. ASSUME NEW c \in Clients, WSASend(c) PROVE TInv'
  <2>1. ObjectTypes' /\ UidTypes' /\ SystemTypes' /\ LockTypes'
    BY <1>21, Roles DEF WSASend, Posted, Refused, Unlock, ObjectTypes,
       UidTypes, SystemTypes, LockTypes, socketVars, uidVars, osVars
  <2>2. FrameTypes'
    BY <1>21, Roles, FrameReleased, FramePosted DEF WSASend, FrameTypes,
       frameVars, LocalTypes, Local, WithFrame, WithSocket, WithHandle, Labels,
       Refused
  <2>3. LocalTypes'
    BY <1>21, Roles DEF WSASend, Posted, Refused, Goto, Return, LocalTypes,
       Local, WithFrame, WithSocket, WithHandle, Labels
  <2> QED BY <2>1, <2>2, <2>3
<1>22. ASSUME NEW c \in Clients, NEW s \in Sockets, disconnectSocket(c, s)
     PROVE TInv'
  <2>1. ObjectTypes' /\ UidTypes' /\ SystemTypes' /\ LockTypes' /\ FrameTypes'
    BY <1>22, Roles DEF disconnectSocket, ObjectTypes, UidTypes, SystemTypes,
       LockTypes, socketVars, uidVars, osVars, FrameTypes, frameVars
  <2>3. LocalTypes'
    BY <1>22, Roles DEF disconnectSocket, Goto, Return, LocalTypes, Local,
       WithFrame, WithSocket, WithHandle, Labels
  <2> QED BY <2>1, <2>3
<1>23. ASSUME NEW f \in Frames, Completes(f) PROVE TInv'
  <2>1. ObjectTypes' /\ UidTypes' /\ SystemTypes' /\ LockTypes'
    BY <1>23, Roles DEF Completes, ObjectTypes, UidTypes, SystemTypes,
       LockTypes, socketVars, uidVars, osVars
  <2>2. FrameTypes'
    BY <1>23, CompletionTyped DEF Completes, Outcomes, FrameTypes, SystemTypes
  <2>3. LocalTypes'
    BY <1>23, Roles DEF Completes, LocalTypes, Local, localVars
  <2> QED BY <2>1, <2>2, <2>3
<1>24. CASE UNCHANGED vars
  BY <1>24 DEF vars, socketVars, uidVars, osVars, frameVars, localVars, ObjectTypes,
     UidTypes, SystemTypes, FrameTypes, LockTypes, LocalTypes, Local
<1> QED
  BY <1>1, <1>2, <1>3, <1>4, <1>5, <1>6, <1>7, <1>8, <1>9, <1>10, <1>11, <1>12,
     <1>13, <1>14, <1>15, <1>16, <1>17, <1>18, <1>19, <1>20, <1>21, <1>22,
     <1>23, <1>24
  DEF Next, WorkerStep, DispatchStep, SocketStep, SharedStep, StaleCall

(* Every thread has the frame, the socket and the handle its code is about to *)
(* use, and every object, request and queue keeps its type.                   *)
THEOREM TypeCorrect == Spec => []TypeOK
<1>1. TInv => TypeOK
  BY DEF TInv, TypeOK, ObjectTypes, UidTypes, SystemTypes, FrameTypes, LockTypes,
     LocalTypes
<1> QED
  BY <1>1, InitTInv, StepTInv, PTL DEF Spec
-----------------------------------------------------------------------------
(* Which threads come to a place, what they have with them there, and who has *)
(* entireSynch: a worker while it erases a socket, any other thread as long   *)
(* as it has one.                                                             *)
WorkerOnly == {"dispatchCompletion", "dispatchError", "connected", "message",
               "postingRead", "releaseIOFrame"}
Closing == {"disconnect", "closesocket", "setClosed"}
HasHandle == {"closesocket", "setClosed", "registerSocket", "inserting",
              "WSARecv", "ConnectEx", "WSASend"}

Role(t) ==
  /\ pc[t] \in WorkerOnly => t \in Workers
  /\ pc[t] \in Closing => t \in Workers \cup Clients
  /\ pc[t] = "WSARecv" => t \in Workers \cup Acceptors
  /\ pc[t] = "registerSocket" => t \in Acceptors
  /\ pc[t] = "inserting" => t \in Acceptors \cup Connectors
  /\ pc[t] = "ConnectEx" => t \in Connectors
  /\ pc[t] = "WSASend" => t \in Clients

Carries(t) ==
  /\ pc[t] \in {"idle", "registerSocket", "inserting"} => op[t] = None
  /\ t \notin Workers /\ pc[t] \in Closing \cup {"releaseSocket", "erasing"}
       => op[t] = None
  /\ pc[t] \notin WithSocket => socket[t] = None
  /\ pc[t] \notin HasHandle => handle[t] = None
  /\ pc[t] = "setClosed" => handle[t] # None

Locked(t) == (pc[t] = "erasing" \/ t \notin Workers) /\ pc[t] \in WithSocket
               => entireSynch = t

Places == \A t \in Threads : Role(t) /\ Carries(t) /\ Locked(t)

LEMMA InitPlaces == Init => Places
BY DEF Init, Places, Role, Carries, Locked, WorkerOnly, Closing, HasHandle, WithSocket

LEMMA StepPlaces == TInv /\ Places /\ [Next]_vars => Places'
<1> SUFFICES ASSUME TInv, Places, [Next]_vars PROVE Places'
  OBVIOUS
<1> USE DEF TInv, LocalTypes, LockTypes, Local, Places, Role, Carries, Locked, WorkerOnly,
            Closing, HasHandle, WithFrame, WithSocket, WithHandle, Labels
<1>1. ASSUME NEW w \in Workers, NEW f \in Frames, GetQueuedCompletionStatus(w,
   f) PROVE Places'
  BY <1>1, Roles, ServiceAssumption DEF GetQueuedCompletionStatus, Goto
<1>2. ASSUME NEW w \in Workers, dispatchCompletion(w) PROVE Places'
  BY <1>2, Roles, ServiceAssumption DEF dispatchCompletion, Goto, FoundLabel
<1>3. ASSUME NEW w \in Workers, Disappeared(w) PROVE Places'
  BY <1>3, Roles, ServiceAssumption DEF Disappeared, Goto, Return
<1>4. ASSUME NEW w \in Workers, dispatchError(w) PROVE Places'
  BY <1>4, Roles, ServiceAssumption DEF dispatchError, Goto
<1>5. ASSUME NEW w \in Workers, Connected(w) PROVE Places'
  BY <1>5, Roles, ServiceAssumption DEF Connected, Goto
<1>6. ASSUME NEW w \in Workers, Message(w) PROVE Places'
  BY <1>6, Roles, ServiceAssumption DEF Message, Goto
<1>7. ASSUME NEW t \in Threads, disconnect(t) PROVE Places'
  BY <1>7, Roles, ServiceAssumption DEF disconnect, Goto, Return,
     AfterDisconnect
<1>8. ASSUME NEW t \in Threads, closesocket(t) PROVE Places'
  BY <1>8, Roles, ServiceAssumption DEF closesocket, Goto
<1>9. ASSUME NEW t \in Threads, setClosed(t) PROVE Places'
  BY <1>9, Roles, ServiceAssumption DEF setClosed, Goto, Return,
     AfterDisconnect
<1>10. ASSUME NEW w \in Workers, postingRead(w) PROVE Places'
  BY <1>10, Roles, ServiceAssumption DEF postingRead, Goto
<1>11. ASSUME NEW t \in Threads, WSARecv(t) PROVE Places'
  BY <1>11, Roles, ServiceAssumption DEF WSARecv, Goto, Return, Posted,
     Refused, Unlock
<1>12. ASSUME NEW t \in Threads, releaseSocket(t) PROVE Places'
  BY <1>12, Roles, ServiceAssumption DEF releaseSocket, Goto, Return,
     LeaveReleaseSocket
<1>13. ASSUME NEW t \in Threads, Erase(t) PROVE Places'
  BY <1>13, Roles, ServiceAssumption DEF Erase, Goto, Return,
     LeaveReleaseSocket
<1>14. ASSUME NEW w \in Workers, ReleaseFrame(w) PROVE Places'
  BY <1>14, Roles, ServiceAssumption DEF ReleaseFrame, Goto, Return
<1>15. ASSUME NEW a \in Acceptors, NEW h \in Handles, Accept(a, h) PROVE
   Places'
  BY <1>15, Roles, ServiceAssumption DEF Accept, Goto
<1>16. ASSUME NEW a \in Acceptors, registerSocket(a) PROVE Places'
  BY <1>16, Roles, ServiceAssumption DEF registerSocket, Goto, Return
<1>17. ASSUME NEW t \in Threads, Insert(t) PROVE Places'
  BY <1>17, Roles, ServiceAssumption DEF Insert, Goto
<1>18. ASSUME NEW c \in Connectors, NEW h \in Handles, connectSocket(c, h)
   PROVE Places'
  BY <1>18, Roles, ServiceAssumption DEF connectSocket, Goto, localVars
<1>19. ASSUME NEW c \in Connectors, ConnectEx(c) PROVE Places'
  BY <1>19, Roles, ServiceAssumption DEF ConnectEx, Goto, Return, Posted,
     Refused, Unlock
<1>20. ASSUME NEW c \in Clients, NEW s \in Sockets, postingSend(c, s) PROVE
   Places'
  BY <1>20, Roles, ServiceAssumption DEF postingSend, Goto
<1>21. ASSUME NEW c \in Clients, WSASend(c) PROVE Places'
  BY <1>21, Roles, ServiceAssumption DEF WSASend, Goto, Return, Posted,
     Refused, Unlock
<1>22. ASSUME NEW c \in Clients, NEW s \in Sockets, disconnectSocket(c, s)
   PROVE Places'
  BY <1>22, Roles, ServiceAssumption DEF disconnectSocket, Goto
<1>23. ASSUME NEW f \in Frames, Completes(f) PROVE Places'
  BY <1>23, Roles, ServiceAssumption DEF Completes, localVars
<1>24. CASE UNCHANGED vars
  BY <1>24 DEF vars, localVars
<1> QED
  BY <1>1, <1>2, <1>3, <1>4, <1>5, <1>6, <1>7, <1>8, <1>9, <1>10, <1>11, <1>12,
     <1>13, <1>14, <1>15, <1>16, <1>17, <1>18, <1>19, <1>20, <1>21, <1>22,
     <1>23, <1>24 DEF Next, WorkerStep, DispatchStep, SocketStep, SharedStep,
     StaleCall
-----------------------------------------------------------------------------
(* Besides having one owner, every frame is somewhere, and those the          *)
(* application could take out are blank.                                      *)
FrameInv == /\ FrameOwnership
            /\ \A f \in fresh \cup Range(ioFramePools) : io[f] = Blank
            /\ Frames = fresh \cup Range(ioFramePools) \cup InUse \cup InHand

LEMMA InitFrames == Init => FrameInv
BY DEF Init, FrameInv, FrameOwnership, IsInjective, Range, InUse, InHand, Blank

(* The four ways a frame changes hands.                                       *)
LEMMA FrameGoesBack ==
  ASSUME TInv, FrameInv, NEW t \in Threads, op[t] \in Frames,
         releaseIOFrame(op[t]), op' = [op EXCEPT ![t] = None]
  PROVE  FrameInv'
<1> DEFINE f == op[t]
<1>1. f \in InHand /\ f \notin Range(ioFramePools) /\ ioFramePools \in Seq(Frames)
  BY ServiceAssumption DEF InHand, FrameInv, FrameOwnership, TInv, FrameTypes
<1>2. /\ IsInjective(ioFramePools')
      /\ Range(ioFramePools') = Range(ioFramePools) \cup {f}
  BY <1>1, AppendNew DEF releaseIOFrame, FrameInv, FrameOwnership
<1>3. op[t] # None /\ InHand' = InHand \ {f}
  BY ServiceAssumption DEF InHand, FrameInv, FrameOwnership, TInv, LocalTypes
<1>4. /\ InUse' = InUse /\ fresh' = fresh
      /\ io'[f] = Blank /\ \A g \in Frames \ {f} : io'[g] = io[g]
  BY <1>1 DEF InUse, releaseIOFrame, Blank, TInv, FrameTypes, FrameInv, FrameOwnership
<1>5. \A u, v \in Threads : op'[u] = op'[v] /\ op'[u] # None => u = v
  BY DEF FrameInv, FrameOwnership, TInv, LocalTypes
<1> QED
  BY <1>1, <1>2, <1>3, <1>4, <1>5 DEF FrameInv, FrameOwnership, TInv, FrameTypes

LEMMA FrameComesOut ==
  ASSUME TInv, FrameInv, NEW t \in Threads, NEW f \in Frames, op[t] = None,
         retrieveIOFrame(f), op' = [op EXCEPT ![t] = f]
  PROVE  FrameInv'
<1>1. ioFramePools \in Seq(Frames) /\ f # None
  BY ServiceAssumption DEF TInv, FrameTypes
<1>2. /\ IsInjective(ioFramePools')
      /\ \/ /\ f \in Range(ioFramePools) /\ fresh' = fresh
            /\ Range(ioFramePools') = Range(ioFramePools) \ {f}
         \/ /\ f \in fresh /\ fresh' = fresh \ {f}
            /\ Range(ioFramePools') = Range(ioFramePools)
  <2>1. CASE ioFramePools # <<>>
    <3>1. /\ f = Head(ioFramePools) /\ ioFramePools' = Tail(ioFramePools)
          /\ fresh' = fresh /\ IsInjective(ioFramePools)
      BY <2>1 DEF retrieveIOFrame, popFrame, FrameInv, FrameOwnership
    <3> QED
      BY <1>1, <2>1, <3>1, HeadTail
  <2>2. CASE ioFramePools = <<>>
    BY <2>2 DEF retrieveIOFrame, FrameInv, FrameOwnership
  <2> QED
    BY <2>1, <2>2
<1>3. InHand' = InHand \cup {f} /\ UNCHANGED io /\ InUse' = InUse
  BY <1>1 DEF InHand, InUse, retrieveIOFrame, TInv, LocalTypes
<1>4. \A u, v \in Threads : op'[u] = op'[v] /\ op'[u] # None => u = v
  BY <1>2 DEF FrameInv, FrameOwnership, InHand, TInv, LocalTypes
<1>5. f \notin fresh' /\ f \notin Range(ioFramePools') /\ f \notin InUse /\ f \notin InHand
  BY <1>2 DEF FrameInv, FrameOwnership
<1> QED
  BY <1>1, <1>2, <1>3, <1>4, <1>5 DEF FrameInv, FrameOwnership

LEMMA FrameIsPosted ==
  ASSUME TInv, FrameInv, NEW t \in Threads, op[t] \in Frames, NEW type,
         Posted(t, type), op' = [op EXCEPT ![t] = None]
  PROVE  FrameInv'
<1> DEFINE f == op[t]
<1>1. op[t] # None /\ InHand' = InHand \ {f} /\ f \in InHand
  BY ServiceAssumption DEF InHand, FrameInv, FrameOwnership, TInv, LocalTypes
<1>2. /\ UNCHANGED <<fresh, ioFramePools>>
      /\ io'[f].state = "posted" /\ \A g \in Frames \ {f} : io'[g] = io[g]
  BY DEF Posted, Request, TInv, FrameTypes
<1>3. InUse' = InUse \cup {f}
  BY <1>2 DEF InUse
<1>4. \A u, v \in Threads : op'[u] = op'[v] /\ op'[u] # None => u = v
  BY DEF FrameInv, FrameOwnership, TInv, LocalTypes
<1> QED
  BY <1>1, <1>2, <1>3, <1>4 DEF FrameInv, FrameOwnership, TInv, FrameTypes

LEMMA FrameIsTaken ==
  ASSUME TInv, FrameInv, NEW t \in Threads, NEW f \in Frames, op[t] = None,
         io[f].state = "queued", io' = [io EXCEPT ![f].state = "user"],
         op' = [op EXCEPT ![t] = f], UNCHANGED <<fresh, ioFramePools>>
  PROVE  FrameInv'
<1>1. f # None /\ f \in InUse
  BY ServiceAssumption DEF InUse
<1>2. InHand' = InHand \cup {f}
  BY <1>1 DEF InHand, TInv, LocalTypes
<1>3. InUse' = InUse \ {f} /\ \A g \in Frames \ {f} : io'[g] = io[g]
  BY DEF InUse, TInv, FrameTypes, FrameFields
<1>4. \A u, v \in Threads : op'[u] = op'[v] /\ op'[u] # None => u = v
  BY <1>1 DEF FrameInv, FrameOwnership, InHand, TInv, LocalTypes
<1> QED
  BY <1>1, <1>2, <1>3, <1>4 DEF FrameInv, FrameOwnership

(* The operating system changes its own frames only.                          *)
LEMMA FramesStay ==
  ASSUME TInv, FrameInv, UNCHANGED <<fresh, ioFramePools, op>>,
         \A f \in Frames : /\ io[f].state = "user" => io'[f] = io[f]
                           /\ io[f].state # "user" => io'[f].state # "user"
  PROVE  FrameInv'
<1>1. InUse' = InUse /\ InHand' = InHand
  BY DEF InUse, InHand
<1>2. \A f \in fresh \cup Range(ioFramePools) : io'[f] = Blank
  BY DEF FrameInv, Blank
<1> QED
  BY <1>1, <1>2 DEF FrameInv, FrameOwnership

LEMMA StepFrames == TInv /\ Places /\ FrameInv /\ [Next]_vars => FrameInv'
<1> SUFFICES ASSUME TInv, Places, FrameInv, [Next]_vars PROVE FrameInv'
  OBVIOUS
<1> USE DEF TInv
<1>1. ASSUME NEW w \in Workers, NEW f \in Frames, GetQueuedCompletionStatus(w,
   f) PROVE FrameInv'
  BY <1>1, Roles, FrameIsTaken DEF GetQueuedCompletionStatus, Places, Carries
<1>2. ASSUME NEW w \in Workers, dispatchCompletion(w) PROVE FrameInv'
  <2>1. UNCHANGED <<frameVars, op>>
    BY <1>2, Roles DEF dispatchCompletion, frameVars
  <2> QED BY <2>1, FramesStay DEF frameVars
<1>3. ASSUME NEW w \in Workers, Disappeared(w) PROVE FrameInv'
  BY <1>3, Roles, FrameGoesBack DEF Disappeared, Return, LocalTypes, Local,
     WithFrame
<1>4. ASSUME NEW w \in Workers, dispatchError(w) PROVE FrameInv'
  <2>1. UNCHANGED <<frameVars, op>>
    BY <1>4, Roles DEF dispatchError, frameVars
  <2> QED BY <2>1, FramesStay DEF frameVars
<1>5. ASSUME NEW w \in Workers, Connected(w) PROVE FrameInv'
  <2>1. op[w] \in Frames
    BY <1>5, Roles DEF Connected, LocalTypes, Local, WithFrame
  <2>2. CASE UNCHANGED <<frameVars, op>>
    BY <2>2, FramesStay DEF frameVars
  <2>3. CASE releaseIOFrame(op[w]) /\ op' = [op EXCEPT ![w] = None]
    BY <2>1, <2>3, Roles, FrameGoesBack
  <2> QED
    BY <1>5, <2>2, <2>3 DEF Connected
<1>6. ASSUME NEW w \in Workers, Message(w) PROVE FrameInv'
  <2>1. UNCHANGED <<frameVars, op>>
    BY <1>6, Roles DEF Message, frameVars
  <2> QED BY <2>1, FramesStay DEF frameVars
<1>7. ASSUME NEW t \in Threads, disconnect(t) PROVE FrameInv'
  <2>1. UNCHANGED <<frameVars, op>>
    BY <1>7, Roles DEF disconnect, frameVars, AfterDisconnect, Return, Places,
       Carries, Closing, LocalTypes
  <2> QED BY <2>1, FramesStay DEF frameVars
<1>8. ASSUME NEW t \in Threads, closesocket(t) PROVE FrameInv'
  <2>1. UNCHANGED <<fresh, ioFramePools, op>>
    BY <1>8 DEF closesocket
  <2>2. ASSUME NEW f \in Frames
        PROVE  /\ io[f].state = "user" => io'[f] = io[f]
               /\ io[f].state # "user" => io'[f].state # "user"
    <3>1. io[f] \in FrameFields
      BY DEF FrameTypes
    <3> QED
      BY <1>8, <3>1 DEF closesocket, Cancelled, Completion, FrameFields
  <2> QED BY <2>1, <2>2, FramesStay
<1>9. ASSUME NEW t \in Threads, setClosed(t) PROVE FrameInv'
  <2>1. UNCHANGED <<frameVars, op>>
    BY <1>9, Roles DEF setClosed, frameVars, AfterDisconnect, Return, Places,
       Carries, Closing, LocalTypes
  <2> QED BY <2>1, FramesStay DEF frameVars
<1>10. ASSUME NEW w \in Workers, postingRead(w) PROVE FrameInv'
  <2>1. UNCHANGED <<frameVars, op>>
    BY <1>10, Roles DEF postingRead, frameVars
  <2> QED BY <2>1, FramesStay DEF frameVars
<1>11. ASSUME NEW t \in Threads, WSARecv(t) PROVE FrameInv'
  BY <1>11, Roles, FrameGoesBack, FrameIsPosted DEF WSARecv, Posted, Refused,
     Return, LocalTypes, Local, WithFrame
<1>12. ASSUME NEW t \in Threads, releaseSocket(t) PROVE FrameInv'
  <2>1. UNCHANGED <<frameVars, op>>
    BY <1>12, Roles DEF releaseSocket, frameVars, LeaveReleaseSocket, Return,
       LocalTypes
  <2> QED BY <2>1, FramesStay DEF frameVars
<1>13. ASSUME NEW t \in Threads, Erase(t) PROVE FrameInv'
  <2>1. UNCHANGED <<frameVars, op>>
    BY <1>13, Roles DEF Erase, frameVars, LeaveReleaseSocket, Return,
       LocalTypes
  <2> QED BY <2>1, FramesStay DEF frameVars
<1>14. ASSUME NEW w \in Workers, ReleaseFrame(w) PROVE FrameInv'
  BY <1>14, Roles, FrameGoesBack DEF ReleaseFrame, Return, LocalTypes, Local,
     WithFrame
<1>15. ASSUME NEW a \in Acceptors, NEW h \in Handles, Accept(a, h) PROVE
   FrameInv'
  <2>1. UNCHANGED <<frameVars, op>>
    BY <1>15, Roles DEF Accept, frameVars
  <2> QED BY <2>1, FramesStay DEF frameVars
<1>16. ASSUME NEW a \in Acceptors, registerSocket(a) PROVE FrameInv'
  <2>1. UNCHANGED <<frameVars, op>>
    BY <1>16, Roles DEF registerSocket, frameVars, Return, Places, Carries,
       LocalTypes
  <2> QED BY <2>1, FramesStay DEF frameVars
<1>17. ASSUME NEW t \in Threads, Insert(t) PROVE FrameInv'
  BY <1>17, FrameComesOut DEF Insert, Places, Carries
<1>18. ASSUME NEW c \in Connectors, NEW h \in Handles, connectSocket(c, h)
   PROVE FrameInv'
  <2>1. UNCHANGED <<frameVars, op>>
    BY <1>18, Roles DEF connectSocket, frameVars, localVars
  <2> QED BY <2>1, FramesStay DEF frameVars
<1>19. ASSUME NEW c \in Connectors, ConnectEx(c) PROVE FrameInv'
  BY <1>19, Roles, FrameGoesBack, FrameIsPosted DEF ConnectEx, Posted, Refused,
     Return, LocalTypes, Local, WithFrame
<1>20. ASSUME NEW c \in Clients, NEW s \in Sockets, postingSend(c, s) PROVE
   FrameInv'
  BY <1>20, Roles, FrameComesOut DEF postingSend, Places, Carries
<1>21. ASSUME NEW c \in Clients, WSASend(c) PROVE FrameInv'
  BY <1>21, Roles, FrameGoesBack, FrameIsPosted DEF WSASend, Posted, Refused,
     Return, LocalTypes, Local, WithFrame
<1>22. ASSUME NEW c \in Clients, NEW s \in Sockets, disconnectSocket(c, s)
   PROVE FrameInv'
  <2>1. UNCHANGED <<frameVars, op>>
    BY <1>22, Roles DEF disconnectSocket, frameVars
  <2> QED BY <2>1, FramesStay DEF frameVars
<1>23. ASSUME NEW f \in Frames, Completes(f) PROVE FrameInv'
  <2>1. UNCHANGED <<fresh, ioFramePools, op>>
    BY <1>23 DEF Completes, localVars
  <2>2. ASSUME NEW g \in Frames
        PROVE  /\ io[g].state = "user" => io'[g] = io[g]
               /\ io[g].state # "user" => io'[g].state # "user"
    BY <1>23 DEF Completes, Completion, FrameTypes, FrameFields
  <2> QED BY <2>1, <2>2, FramesStay
<1>24. CASE UNCHANGED vars
  BY <1>24, FramesStay DEF vars, frameVars, localVars
<1> QED
  BY <1>1, <1>2, <1>3, <1>4, <1>5, <1>6, <1>7, <1>8, <1>9, <1>10, <1>11, <1>12,
     <1>13, <1>14, <1>15, <1>16, <1>17, <1>18, <1>19, <1>20, <1>21, <1>22,
     <1>23, <1>24 DEF Next, WorkerStep, DispatchStep, SocketStep, SharedStep,
     StaleCall

(* No OVERLAPPED is ever in two places, and none is lost: whatever the order  *)
(* in which threads take frames, post them, get them back from the port and   *)
(* return them to the pool.                                                   *)
THEOREM FramesAreOwned == Spec => []FrameOwnership
<1>1. FrameInv => FrameOwnership
  BY DEF FrameInv
<1> QED
  BY <1>1, InitTInv, StepTInv, InitPlaces, StepPlaces, InitFrames, StepFrames,
     PTL DEF Spec
-----------------------------------------------------------------------------
(* Why a uid names one socket.  The numbers in use and the numbers to reuse   *)
(* are apart and without repetition, none is beyond the counter, and a socket *)
(* is given up only while it is alive.                                        *)
Holds(s) == life[s] \in {"live", "leaked"}
Numbers == PrototypeUid + 1 .. currentNumber
Constructed == {s \in Sockets : life[s] # "unborn"}

Distinct ==
  /\ \A s, r \in Sockets : Holds(s) /\ Holds(r) /\ uid[s] = uid[r] => s = r
  /\ \A s \in Sockets : Holds(s) => uid[s] \notin Range(reuseList)
  /\ IsInjective(reuseList)
InRange ==
  /\ \A s \in Constructed : uid[s] \in Numbers
  /\ Range(reuseList) \subseteq Numbers
  /\ PrototypeUid <= currentNumber
  /\ currentNumber <= PrototypeUid + Cardinality(Constructed)
Alive == /\ \A s \in theASSocks : life[s] = "live"
         /\ \A t \in Threads : pc[t] \in {"erasing", "inserting"} => life[socket[t]] = "live"
UidInv == Distinct /\ InRange /\ Alive

LEMMA InitUids == Init => UidInv
<1> SUFFICES ASSUME Init PROVE UidInv
  OBVIOUS
<1>1. Constructed = {} /\ Range(reuseList) = {} /\ \A s \in Sockets : ~ Holds(s)
  BY DEF Init, Constructed, Range, Holds
<1>2. Cardinality(Constructed) = 0
  BY <1>1, FS_EmptySet
<1> QED
  BY <1>1, <1>2 DEF Init, UidInv, Distinct, InRange, Alive, IsInjective, PrototypeUid

LEMMA ConstructedFinite ==
  /\ IsFiniteSet(Constructed) /\ Cardinality(Constructed) \in Nat
  /\ Cardinality(Constructed) <= Cardinality(Sockets) /\ Cardinality(Sockets) \in Nat
BY ServiceAssumption, FS_Subset, FS_CardinalityType DEF Constructed

(* The number a new socket object gets is held by none.                       *)
LEMMA NumberIsNew ==
  ASSUME TInv, UidInv, NEW n, Uids!retrieve(n)
  PROVE  /\ n \in Nat /\ n > PrototypeUid /\ n <= currentNumber'
         /\ currentNumber' \in {currentNumber, currentNumber + 1}
         /\ \A s \in Sockets : Holds(s) => uid[s] # n
         /\ IsInjective(reuseList') /\ n \notin Range(reuseList')
         /\ Range(reuseList') \subseteq Range(reuseList)
<1>1. reuseList \in Seq(Nat) /\ currentNumber \in Nat
  BY DEF TInv, UidTypes
<1>2. CASE reuseList = <<>>
  <2>1. /\ n = currentNumber + 1 /\ currentNumber' = n /\ reuseList' = reuseList
        /\ Range(reuseList) = {}
    BY <1>2 DEF Uids!retrieve, Range
  <2> QED
    BY <1>1, <2>1 DEF UidInv, Distinct, InRange, Numbers,
       Holds, Constructed, PrototypeUid
<1>3. CASE reuseList # <<>>
  <2>1. /\ n = Head(reuseList) /\ reuseList' = Tail(reuseList)
        /\ currentNumber' = currentNumber
    BY <1>3 DEF Uids!retrieve
  <2>2. IsInjective(reuseList) /\ Range(reuseList) \subseteq Numbers
    BY DEF UidInv, Distinct, InRange
  <2>3. /\ n \in Range(reuseList) /\ IsInjective(reuseList')
        /\ Range(reuseList') = Range(reuseList) \ {n}
    BY <1>1, <1>3, <2>1, <2>2, HeadTail
  <2> QED
    BY <1>1, <2>1, <2>2, <2>3 DEF UidInv, Distinct, Numbers, PrototypeUid
<1> QED
  BY <1>2, <1>3

(* What the three kinds of steps do: a socket is constructed, it is given up, *)
(* or uids are not touched.                                                   *)
LEMMA SocketConstructed ==
  ASSUME TInv, UidInv, NEW s \in Sockets, clone(s), NEW to \in {"live", "leaked"},
         life' = [life EXCEPT ![s] = to], UNCHANGED theASSocks,
         \A t \in Threads : pc'[t] \in {"erasing", "inserting"} => life'[socket'[t]] = "live"
  PROVE  UidInv'
<1>1. life[s] = "unborn" /\ life'[s] = to /\ s \notin theASSocks
  BY DEF clone, UidInv, Alive, TInv, ObjectTypes
<1>2. PICK n : Uids!retrieve(n) /\ uid' = [uid EXCEPT ![s] = n]
  BY DEF clone
<1>3. /\ n \in Nat /\ n > PrototypeUid /\ n <= currentNumber'
      /\ currentNumber' \in {currentNumber, currentNumber + 1}
      /\ \A r \in Sockets : Holds(r) => uid[r] # n
      /\ IsInjective(reuseList') /\ n \notin Range(reuseList')
      /\ Range(reuseList') \subseteq Range(reuseList)
  BY <1>2, NumberIsNew
<1>4. /\ uid'[s] = n /\ \A r \in Sockets \ {s} : uid'[r] = uid[r] /\ life'[r] = life[r]
      /\ \A r \in Sockets \ {s} : Holds(r)' = Holds(r)
  BY <1>2 DEF Holds, TInv, ObjectTypes
<1>5. Distinct'
  BY <1>3, <1>4 DEF UidInv, Distinct
<1>6. Constructed' = Constructed \cup {s} /\ s \notin Constructed
  BY <1>1, <1>4 DEF Constructed
<1>7. Cardinality(Constructed') = Cardinality(Constructed) + 1
  BY <1>6, ConstructedFinite, FS_AddElement
<1>8. InRange'
  <2>1. currentNumber \in Nat /\ currentNumber' \in Nat /\ currentNumber <= currentNumber'
    BY <1>3 DEF TInv, UidTypes
  <2>2. \A r \in Constructed' : uid'[r] \in Numbers'
    BY <1>3, <1>4, <1>6, <2>1 DEF UidInv, InRange, Numbers, PrototypeUid, Constructed
  <2>3. Range(reuseList') \subseteq Numbers'
    BY <1>3, <2>1 DEF UidInv, InRange, Numbers, PrototypeUid
  <2>4. PrototypeUid <= currentNumber' /\ currentNumber' <= PrototypeUid + Cardinality(Constructed')
    BY <1>3, <1>7, <2>1, ConstructedFinite DEF UidInv, InRange, PrototypeUid
  <2> QED
    BY <2>2, <2>3, <2>4 DEF InRange
<1>9. Alive'
  BY <1>1, <1>4 DEF UidInv, Alive, TInv, ObjectTypes
<1> QED
  BY <1>5, <1>8, <1>9 DEF UidInv

LEMMA SocketGivenUp ==
  ASSUME TInv, Places, UidInv, NEW t \in Threads, Erase(t)
  PROVE  UidInv' /\ theASSocks' = theASSocks \ {socket[t]}
<1>1. PICK s \in Sockets : s = socket[t] /\ life[s] = "live" /\ uid[s] \in Nat
  BY DEF Erase, UidInv, Alive, TInv, LocalTypes, Local, WithSocket, ObjectTypes
<1>2. theASSocks' = theASSocks \ {s}
  BY <1>1 DEF Erase, Lookup, UidInv, Distinct, Alive, Holds, TInv, ObjectTypes
<1>3. /\ UNCHANGED <<uid, currentNumber>> /\ reuseList' = Append(reuseList, uid[s])
      /\ life' = [life EXCEPT ![s] = "deleted"]
  BY <1>1 DEF Erase, notifyReleaseSocket, Uids!release
<1>4. /\ IsInjective(reuseList')
      /\ Range(reuseList') = Range(reuseList) \cup {uid[s]}
  <2>1. IsInjective(reuseList) /\ uid[s] \notin Range(reuseList) /\ reuseList \in Seq(Nat)
    BY <1>1 DEF UidInv, Distinct, Holds, TInv, UidTypes
  <2> QED
    BY <1>1, <1>3, <2>1, AppendNew
<1>5. ~ Holds(s)' /\ \A r \in Sockets \ {s} : Holds(r)' = Holds(r)
  BY <1>1, <1>3 DEF Holds, TInv, ObjectTypes
<1>6. Distinct'
  BY <1>1, <1>3, <1>4, <1>5 DEF UidInv, Distinct, Holds
<1>7. Constructed' = Constructed
  BY <1>1, <1>3 DEF Constructed, TInv, ObjectTypes
<1>8. InRange'
  BY <1>1, <1>3, <1>4, <1>7 DEF UidInv, InRange, Numbers, Constructed
<1>9. Alive'
  <2>1. \A r \in theASSocks' : life'[r] = "live"
    BY <1>2, <1>3 DEF UidInv, Alive, TInv, ObjectTypes
  <2>2. \A u \in Threads : pc'[u] \notin {"erasing", "inserting"}
    BY Roles, ServiceAssumption
    DEF Erase, LeaveReleaseSocket, Return, Goto, Places, Role, Locked, WithSocket, TInv, LocalTypes
  <2> QED
    BY <2>1, <2>2 DEF Alive
<1> QED
  BY <1>1, <1>2, <1>6, <1>8, <1>9 DEF UidInv

LEMMA UidsUntouched ==
  ASSUME TInv, UidInv, UNCHANGED <<uid, life, theASSocks, uidVars>>,
         \A t \in Threads : pc'[t] \in {"erasing", "inserting"} => life[socket'[t]] = "live"
  PROVE  UidInv'
<1>1. Constructed' = Constructed /\ Numbers' = Numbers /\ \A s \in Sockets : Holds(s)' = Holds(s)
  BY DEF Constructed, Numbers, Holds, uidVars
<1> QED
  BY <1>1 DEF uidVars, UidInv, Distinct, InRange, Alive

LEMMA StepUids == TInv /\ Places /\ UidInv /\ [Next]_vars => UidInv'
<1> SUFFICES ASSUME TInv, Places, UidInv, [Next]_vars PROVE UidInv'
  OBVIOUS
<1> USE DEF TInv, LocalTypes
<1> DEFINE Untouched == UNCHANGED <<uid, life, theASSocks, uidVars>>
           InPlace == \A t \in Threads : pc'[t] \in {"erasing", "inserting"}
                                            => life'[socket'[t]] = "live"
<1>0. Untouched /\ InPlace => UidInv'
  BY UidsUntouched
<1>1. ASSUME NEW w \in Workers, NEW f \in Frames, GetQueuedCompletionStatus(w,
   f) PROVE UidInv'
  <2>1. Untouched /\ InPlace
    BY <1>1, Roles DEF GetQueuedCompletionStatus, Goto, socketVars, UidInv,
       Alive
  <2> QED BY <1>0, <2>1
<1>2. ASSUME NEW w \in Workers, dispatchCompletion(w) PROVE UidInv'
  <2>1. Untouched /\ InPlace
    BY <1>2, Roles DEF dispatchCompletion, Goto, FoundLabel, socketVars,
       UidInv, Alive
  <2> QED BY <1>0, <2>1
<1>3. ASSUME NEW w \in Workers, Disappeared(w) PROVE UidInv'
  <2>1. Untouched /\ InPlace
    BY <1>3, Roles DEF Disappeared, Goto, Return, socketVars, UidInv, Alive
  <2> QED BY <1>0, <2>1
<1>4. ASSUME NEW w \in Workers, dispatchError(w) PROVE UidInv'
  <2>1. Untouched /\ InPlace
    BY <1>4, Roles DEF dispatchError, Goto, socketVars, UidInv, Alive
  <2> QED BY <1>0, <2>1
<1>5. ASSUME NEW w \in Workers, Connected(w) PROVE UidInv'
  <2>1. Untouched /\ InPlace
    BY <1>5, Roles DEF Connected, Goto, socketVars, UidInv, Alive
  <2> QED BY <1>0, <2>1
<1>6. ASSUME NEW w \in Workers, Message(w) PROVE UidInv'
  <2>1. Untouched /\ InPlace
    BY <1>6, Roles DEF Message, Goto, socketVars, UidInv, Alive
  <2> QED BY <1>0, <2>1
<1>7. ASSUME NEW t \in Threads, disconnect(t) PROVE UidInv'
  <2>1. Untouched /\ InPlace
    BY <1>7, Roles DEF disconnect, Goto, Return, AfterDisconnect, socketVars,
       UidInv, Alive
  <2> QED BY <1>0, <2>1
<1>8. ASSUME NEW t \in Threads, closesocket(t) PROVE UidInv'
  <2>1. Untouched /\ InPlace
    BY <1>8, Roles DEF closesocket, Goto, socketVars, UidInv, Alive
  <2> QED BY <1>0, <2>1
<1>9. ASSUME NEW t \in Threads, setClosed(t) PROVE UidInv'
  <2>1. Untouched /\ InPlace
    BY <1>9, Roles DEF setClosed, Goto, Return, AfterDisconnect, socketVars,
       UidInv, Alive
  <2> QED BY <1>0, <2>1
<1>10. ASSUME NEW w \in Workers, postingRead(w) PROVE UidInv'
  <2>1. Untouched /\ InPlace
    BY <1>10, Roles DEF postingRead, Goto, socketVars, UidInv, Alive
  <2> QED BY <1>0, <2>1
<1>11. ASSUME NEW t \in Threads, WSARecv(t) PROVE UidInv'
  <2>1. Untouched /\ InPlace
    BY <1>11, Roles DEF WSARecv, Goto, Return, Posted, Refused, Unlock,
       socketVars, UidInv, Alive
  <2> QED BY <1>0, <2>1
<1>12. ASSUME NEW t \in Threads, releaseSocket(t) PROVE UidInv'
  <2>1. Untouched /\ InPlace
    BY <1>12, Roles DEF releaseSocket, Goto, Return, LeaveReleaseSocket,
       socketVars, UidInv, Alive
  <2> QED BY <1>0, <2>1
<1>13. ASSUME NEW t \in Threads, Erase(t) PROVE UidInv'
  BY <1>13, SocketGivenUp
<1>14. ASSUME NEW w \in Workers, ReleaseFrame(w) PROVE UidInv'
  <2>1. Untouched /\ InPlace
    BY <1>14, Roles DEF ReleaseFrame, Goto, Return, socketVars, UidInv, Alive
  <2> QED BY <1>0, <2>1
<1>15. ASSUME NEW a \in Acceptors, NEW h \in Handles, Accept(a, h) PROVE
   UidInv'
  <2>1. Untouched /\ InPlace
    BY <1>15, Roles DEF Accept, Goto, socketVars, UidInv, Alive
  <2> QED BY <1>0, <2>1
<1>16. ASSUME NEW a \in Acceptors, registerSocket(a) PROVE UidInv'
  <2>1. PICK s \in Sockets : /\ clone(s)
                             /\ life'[s] \in {"live", "leaked"}
                             /\ life' = [life EXCEPT ![s] = life'[s]]
                             /\ pc'[a] = "inserting" => socket'[a] = s /\ life'[s] = "live"
    BY <1>16, Roles DEF registerSocket, Return, Goto, ObjectTypes
  <2>2. UNCHANGED theASSocks /\ pc'[a] \in {"idle", "inserting"}
    BY <1>16, Roles DEF registerSocket, Return, Goto
  <2>3. \A t \in Threads \ {a} : pc'[t] = pc[t] /\ socket'[t] = socket[t]
    BY <1>16 DEF registerSocket, Return, Goto
  <2>4. \A t \in Threads \ {a} : pc[t] \notin {"erasing", "inserting"}
    BY <1>16, ServiceAssumption, Roles DEF registerSocket, Places, Locked, Role,
       WithSocket
  <2>5. InPlace
    BY <2>1, <2>2, <2>3, <2>4
  <2> QED BY <2>1, <2>2, <2>5, SocketConstructed
<1>17. ASSUME NEW t \in Threads, Insert(t) PROVE UidInv'
  <2>1. socket[t] \in Sockets /\ life[socket[t]] = "live"
    BY <1>17 DEF Insert, UidInv, Alive, Local, WithSocket
  <2>2. /\ UNCHANGED <<uid, life, uidVars, socket>> /\ theASSocks' = theASSocks \cup {socket[t]}
        /\ \A u \in Threads : pc'[u] = pc[u] \/ pc'[u] \in {"WSARecv", "ConnectEx"}
    BY <1>17 DEF Insert, Goto
  <2>3. Distinct' /\ InRange'
    BY <2>2 DEF UidInv, Distinct, InRange, Numbers, Constructed, Holds, uidVars
  <2>4. Alive'
    BY <2>1, <2>2 DEF UidInv, Alive
  <2> QED BY <2>3, <2>4 DEF UidInv
<1>18. ASSUME NEW c \in Connectors, NEW h \in Handles, connectSocket(c, h)
   PROVE UidInv'
  <2>1. CASE UNCHANGED <<uid, life, uidVars, localVars>>
    <3>1. Untouched /\ InPlace
      BY <1>18, <2>1 DEF connectSocket, localVars, Alive, UidInv
    <3> QED BY <1>0, <3>1
  <2>2. CASE ~ UNCHANGED <<uid, life, uidVars, localVars>>
    <3>1. PICK s \in Sockets : /\ clone(s)
                               /\ life'[s] \in {"live", "leaked"}
                               /\ life' = [life EXCEPT ![s] = life'[s]]
                               /\ \/ UNCHANGED <<pc, socket>>
                                  \/ /\ socket'[c] = s /\ life'[s] = "live"
                                     /\ pc' = [pc EXCEPT ![c] = "inserting"]
      BY <1>18, <2>2, Roles DEF connectSocket, localVars, Goto, ObjectTypes
    <3>2. UNCHANGED theASSocks /\ \A t \in Threads \ {c} : pc'[t] = pc[t] /\ socket'[t] = socket[t]
      BY <1>18 DEF connectSocket, Goto, localVars
    <3>3. \A t \in Threads : pc[t] \notin {"erasing", "inserting"}
      BY <1>18, ServiceAssumption, Roles DEF connectSocket, Places, Locked, Role,
         WithSocket
    <3>4. InPlace
      BY <3>1, <3>2, <3>3
    <3> QED BY <3>1, <3>2, <3>4, SocketConstructed
  <2> QED BY <2>1, <2>2
<1>19. ASSUME NEW c \in Connectors, ConnectEx(c) PROVE UidInv'
  <2>1. Untouched /\ InPlace
    BY <1>19, Roles DEF ConnectEx, Goto, Return, Posted, Refused, Unlock,
       socketVars, UidInv, Alive
  <2> QED BY <1>0, <2>1
<1>20. ASSUME NEW c \in Clients, NEW s \in Sockets, postingSend(c, s) PROVE
   UidInv'
  <2>1. Untouched /\ InPlace
    BY <1>20, Roles DEF postingSend, Goto, socketVars, UidInv, Alive
  <2> QED BY <1>0, <2>1
<1>21. ASSUME NEW c \in Clients, WSASend(c) PROVE UidInv'
  <2>1. Untouched /\ InPlace
    BY <1>21, Roles DEF WSASend, Goto, Return, Posted, Refused, Unlock,
       socketVars, UidInv, Alive
  <2> QED BY <1>0, <2>1
<1>22. ASSUME NEW c \in Clients, NEW s \in Sockets, disconnectSocket(c, s)
   PROVE UidInv'
  <2>1. Untouched /\ InPlace
    BY <1>22, Roles DEF disconnectSocket, Goto, socketVars, UidInv, Alive
  <2> QED BY <1>0, <2>1
<1>23. ASSUME NEW f \in Frames, Completes(f) PROVE UidInv'
  <2>1. Untouched /\ InPlace
    BY <1>23, Roles DEF Completes, localVars, socketVars, UidInv, Alive
  <2> QED BY <1>0, <2>1
<1>24. CASE UNCHANGED vars
  <2>1. Untouched /\ InPlace
    BY <1>24 DEF vars, socketVars, localVars, UidInv, Alive
  <2> QED BY <1>0, <2>1
<1> QED
  BY <1>1, <1>2, <1>3, <1>4, <1>5, <1>6, <1>7, <1>8, <1>9, <1>10, <1>11, <1>12,
     <1>13, <1>14, <1>15, <1>16, <1>17, <1>18, <1>19, <1>20, <1>21, <1>22,
     <1>23, <1>24 DEF Next, WorkerStep, DispatchStep, SocketStep, SharedStep,
     StaleCall

(* A uid in the map names one socket, and is not up for reuse.                *)
THEOREM UidsAreUnique == Spec => []UidUnique
<1>1. TInv /\ UidInv => UidUnique
  <2> SUFFICES ASSUME TInv, UidInv PROVE UidUnique
    OBVIOUS
  <2>1. theASSocks \subseteq {s \in Sockets : life[s] = "live"}
    BY DEF UidInv, Alive, TInv, ObjectTypes
  <2> QED
    BY <2>1 DEF UidUnique, UidInv, Distinct, Holds
<1> QED
  BY <1>1, InitTInv, StepTInv, InitPlaces, StepPlaces, InitUids, StepUids, PTL DEF Spec

LEMMA HeldBySockets ==
  Held = {uid[s] : s \in {x \in Sockets : Holds(x)}}
BY DEF Held, Holds

(* Fewer numbers are held than there are sockets, as long as one is unborn.   *)
LEMMA RoomForUid ==
  ASSUME NEW s \in Sockets, life[s] = "unborn"
  PROVE  Cardinality(Held) < Cardinality(Sockets)
<1> DEFINE H == {x \in Sockets : Holds(x)}
           f == [x \in H |-> uid[x]]
<1>1. /\ IsFiniteSet(Sockets \ {s}) /\ Cardinality(Sockets) \in Nat
      /\ Cardinality(Sockets \ {s}) = Cardinality(Sockets) - 1
  BY ServiceAssumption, FS_RemoveElement, FS_CardinalityType
<1>2. H \in SUBSET (Sockets \ {s})
  BY DEF Holds
<1>3. IsFiniteSet(H) /\ Cardinality(H) <= Cardinality(Sockets \ {s})
  BY <1>1, <1>2, FS_Subset
<1>4. f \in Surjection(H, Held)
  BY HeldBySockets DEF Surjection
<1>5. IsFiniteSet(Held) /\ Cardinality(Held) <= Cardinality(H)
  BY <1>3, <1>4, FS_Surjection
<1> QED
  BY <1>1, <1>3, <1>5, FS_CardinalityType

LEMMA ConstructionRetrieves ==
  ASSUME TInv, NEW s \in Sockets, clone(s), NEW to \in {"live", "leaked"},
         life' = [life EXCEPT ![s] = to]
  PROVE  Uids!Retrieve
<1>1. Cardinality(Held) < Cardinality(Sockets)
  BY RoomForUid DEF clone
<1>2. PICK n \in 0 .. currentNumber + 1 :
        Uids!retrieve(n) /\ uid' = [uid EXCEPT ![s] = n]
  BY DEF clone
<1>3. /\ ~ Holds(s) /\ Holds(s)' /\ uid'[s] = n
      /\ \A r \in Sockets \ {s} : uid'[r] = uid[r] /\ Holds(r)' = Holds(r)
  BY <1>2 DEF clone, Holds, TInv, ObjectTypes
<1>4. Held' = Held \cup {n}
  BY <1>3, HeldBySockets DEF Held, Holds
<1>5. Uids!Cardinality(Held) = Cardinality(Held)
  BY DEF Uids!Cardinality, Cardinality
<1> QED
  BY <1>1, <1>2, <1>4, <1>5 DEF Uids!Retrieve

LEMMA ErasureReleases ==
  ASSUME TInv, UidInv, NEW t \in Threads, Erase(t)
  PROVE  Uids!Release
<1>1. PICK s \in Sockets : s = socket[t] /\ life[s] = "live"
  BY DEF Erase, UidInv, Alive, TInv, LocalTypes, Local, WithSocket
<1>2. /\ Uids!release(uid[s]) /\ UNCHANGED uid
      /\ life' = [life EXCEPT ![s] = "deleted"]
  BY <1>1 DEF Erase, notifyReleaseSocket
<1>3. /\ Holds(s) /\ ~ Holds(s)'
      /\ \A r \in Sockets \ {s} : Holds(r)' = Holds(r) /\ (Holds(r) => uid[r] # uid[s])
  BY <1>1, <1>2 DEF Holds, TInv, ObjectTypes, UidInv, Distinct
<1>4. uid[s] \in Held /\ Held' = Held \ {uid[s]}
  BY <1>2, <1>3 DEF Held, Holds
<1> QED
  BY <1>2, <1>4 DEF Uids!Release

LEMMA HeldUntouched ==
  ASSUME UNCHANGED <<uid, life, uidVars>>
  PROVE  UNCHANGED Uids!vars
BY DEF Held, uidVars, Uids!vars

LEMMA StepUsesUids == TInv /\ UidInv /\ [Next]_vars => [Uids!Next]_(Uids!vars)
<1> SUFFICES ASSUME TInv, UidInv, [Next]_vars PROVE [Uids!Next]_(Uids!vars)
  OBVIOUS
<1>1. CASE UNCHANGED <<uid, life, uidVars>>
  BY <1>1, HeldUntouched
<1>2. CASE ~ UNCHANGED <<uid, life, uidVars>>
  <2>1. \/ \E t \in Threads : Erase(t)
        \/ \E a \in Acceptors : registerSocket(a)
        \/ \E c \in Connectors, h \in Handles : connectSocket(c, h)
    BY <1>2 DEF Next, WorkerStep, DispatchStep, SocketStep, SharedStep, StaleCall, vars,
       socketVars, GetQueuedCompletionStatus, dispatchCompletion, dispatchError,
       Disappeared, Connected, Message, disconnect, closesocket, setClosed,
       postingRead, WSARecv, releaseSocket, ReleaseFrame, Accept, Insert,
       ConnectEx, postingSend, WSASend, disconnectSocket, Completes
  <2>2. ASSUME NEW a \in Acceptors, registerSocket(a) PROVE Uids!Next
    <3>1. \E s \in Sockets : \E to \in {"live", "leaked"} :
             clone(s) /\ life' = [life EXCEPT ![s] = to]
      BY <2>2 DEF registerSocket
    <3> QED
      BY <3>1, ConstructionRetrieves DEF Uids!Next
  <2>3. ASSUME NEW c \in Connectors, NEW h \in Handles, connectSocket(c, h) PROVE Uids!Next
    <3>1. \E s \in Sockets : \E to \in {"live", "leaked"} :
             clone(s) /\ life' = [life EXCEPT ![s] = to]
      BY <1>2, <2>3 DEF connectSocket
    <3> QED
      BY <3>1, ConstructionRetrieves DEF Uids!Next
  <2> QED
    BY <2>1, <2>2, <2>3, ErasureReleases DEF Uids!Next
<1> QED
  BY <1>1, <1>2

(* The service takes and gives back uids as the generator asks of its users,  *)
(* so what is proved of the generator holds for the uids of sockets.          *)
THEOREM ServiceUsesUidGenerator == Spec => UsesUidGenerator
<1>1. Init => Uids!Init
  BY DEF Init, Held, Uids!Init
<1> QED
  BY <1>1, StepUsesUids, InitTInv, StepTInv, InitPlaces, StepPlaces, InitUids,
     StepUids, PTL
  DEF Spec, UsesUidGenerator, Uids!Spec

(* What holds of the threads, the frames and the uids whatever the operating  *)
(* system does with SOCKET values.                                            *)
BasicInv == TInv /\ Places /\ FrameInv /\ UidInv

LEMMA BasicInvariant == Spec => []BasicInv
BY InitTInv, StepTInv, InitPlaces, StepPlaces, InitFrames, StepFrames, InitUids,
   StepUids, PTL
DEF Spec, BasicInv

(* While one thread has the lock no other erases, and none that needs it for  *)
(* as long as it works on a socket has one.                                   *)
LEMMA AloneInside ==
  ASSUME BasicInv, NEW t \in Threads, entireSynch \in {None, t}, NEW u \in Threads \ {t}
  PROVE  pc[u] # "erasing" /\ (u \notin Workers => pc[u] \notin WithSocket)
BY ServiceAssumption DEF BasicInv, Places, Locked, WithSocket
=============================================================================
