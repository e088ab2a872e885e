---------------------- MODULE AsynchIOServiceSessions -----------------------
(* Theorems about what the application is told: a message comes within the    *)
(* session of its connection, and the notifications implement SessionTable.   *)
EXTENDS AsynchIOServiceReferences

Session == {"registered", "connected"}

(* A request that is not looked up yet, and one that notifyConnectingResult   *)
(* will answer.                                                               *)
Pending(f) == io[f].state # "user" \/ \E w \in Workers : Dispatches(w) /\ op[w] = f
Answers(f) == \/ Pending(f) /\ io[f].optype = "connect"
              \/ \E w \in Workers : pc[w] = "connected" /\ op[w] = f

(* What the application was told of a socket that someone works on: reads are *)
(* posted and handled within a session, a connect is answered once, nobody    *)
(* hears of a socket before it is in the map.                                 *)
Reading == \A t \in Threads : pc[t] \in {"message", "postingRead", "WSARecv"}
                                => told[socket[t]] \in Session
ReadPending == \A f \in Frames : Pending(f) => /\ io[f].optype # "none"
                                               /\ io[f].optype = "read"
                                                    => told[io[f].sock] \in Session
AnswerDue ==
  /\ \A f \in Frames : Answers(f) => told[io[f].sock] = "asked"
  /\ \A f, g \in Frames : Answers(f) /\ Answers(g) /\ io[f].sock = io[g].sock => f = g
ConnectedHere == \A w \in Workers : pc[w] = "connected" => io[op[w]].sock = socket[w]
NotYetTold ==
  /\ \A t \in Threads : pc[t] \in {"inserting", "ConnectEx"} => told[socket[t]] = "nothing"
  /\ \A s \in Sockets : life[s] = "unborn" => told[s] = "nothing"
InTable == \A s \in Sockets : /\ told[s] \in Session => s \in theASSocks
                              /\ told[s] = "released" => life[s] = "deleted"
SessionInv == Reading /\ ReadPending /\ AnswerDue /\ ConnectedHere /\ NotYetTold /\ InTable

LEMMA InitSessions == Init => SessionInv
BY Roles, ServiceAssumption
DEF Init, SessionInv, Reading, ReadPending, AnswerDue, ConnectedHere, NotYetTold, InTable,
    Session, Pending, Answers, Dispatches, Blank

(* Requests go on, or end; none is new.                                       *)
NoNewRequest ==
  \A f \in Frames : /\ Pending(f)' => /\ Pending(f) /\ io'[f].sock = io[f].sock
                                      /\ io'[f].optype = io[f].optype
                    /\ Answers(f)' => Answers(f) /\ io'[f].sock = io[f].sock

LEMMA FramesTold ==
  ASSUME SessionInv, NoNewRequest, UNCHANGED told
  PROVE  ReadPending' /\ AnswerDue'
<1>1. ReadPending'
  BY DEF SessionInv, NoNewRequest, ReadPending
<1>2. AnswerDue'
  BY DEF SessionInv, NoNewRequest, AnswerDue
<1> QED
  BY <1>1, <1>2

(* The frames the threads take, keep and give back.                           *)
LEMMA SameRequests ==
  ASSUME UNCHANGED io,
         \A u \in Workers : Dispatches(u)' => Dispatches(u) /\ op'[u] = op[u],
         \A u \in Workers : pc'[u] = "connected" =>
            /\ op'[u] = op[u]
            /\ pc[u] = "connected" \/ (Dispatches(u) /\ io[op[u]].optype = "connect")
  PROVE  NoNewRequest
BY DEF NoNewRequest, Pending, Answers

LEMMA OneRequestLess ==
  ASSUME BasicInv, NEW t \in Threads, op[t] \in Frames,
         io' = [io EXCEPT ![op[t]] = Blank],
         \A u \in Workers : Dispatches(u)' \/ pc'[u] = "connected" =>
            u # t /\ pc'[u] = pc[u] /\ op'[u] = op[u]
  PROVE  NoNewRequest
<1>1. io'[op[t]] = Blank /\ \A f \in Frames \ {op[t]} : io'[f] = io[f]
  BY DEF BasicInv, TInv, FrameTypes
<1>2. \A u \in Workers : Dispatches(u)' \/ pc'[u] = "connected" => op[u] \in Frames \ {op[t]}
  BY Roles, ServiceAssumption
  DEF BasicInv, FrameInv, FrameOwnership, TInv, LocalTypes, Local, WithFrame, Dispatches
<1>3. \A f \in Frames : Pending(f)' => f # op[t] /\ Pending(f)
  BY <1>1, <1>2 DEF Pending, Dispatches, Blank
<1>4. \A f \in Frames : Answers(f)' => f # op[t] /\ Answers(f)
  BY <1>1, <1>2, <1>3 DEF Answers
<1> QED
  BY <1>1, <1>3, <1>4 DEF NoNewRequest

(* The operating system ends requests, and makes none.                        *)
LEMMA RequestsGoOn ==
  ASSUME \A f \in Frames : /\ io'[f].state # "user" => io[f].state # "user"
                           /\ io'[f].sock = io[f].sock /\ io'[f].optype = io[f].optype,
         \A u \in Workers : /\ Dispatches(u)' => Dispatches(u) /\ op'[u] = op[u]
                            /\ pc'[u] = "connected" => pc[u] = "connected" /\ op'[u] = op[u]
  PROVE  NoNewRequest
BY DEF NoNewRequest, Pending, Answers

(* A request, or a thread that works on a socket, keeps it in the map.        *)
LEMMA PendingInMap ==
  ASSUME SocketInv, NEW f \in Frames, Pending(f)
  PROVE  io[f].sock \in theASSocks /\ referCount[io[f].sock] >= 1
<1>1. io[f].state \in {"user", "posted", "queued"} /\ \A w \in Workers : w \in Threads
  BY Roles DEF SocketInv, BasicInv, TInv, FrameTypes, FrameFields
<1>2. io[f].sock \in Sockets
  BY <1>1 DEF SocketInv, RequestInv, PostedOnOwn, KeyedByUid, DispatchedKeyed, Pending
<1>3. CASE io[f].state # "user"
  <2>1. f \in Outstanding(io[f].sock)
    BY <1>3 DEF Outstanding
  <2> QED
    BY <1>2, <2>1, ReferredIsInMap DEF SocketInv
<1>4. ASSUME NEW w \in Workers, Dispatches(w), op[w] = f
      PROVE io[f].sock \in theASSocks /\ referCount[io[f].sock] >= 1
  <2>1. w \in Dispatching(io[f].sock)
    BY <1>4 DEF Dispatching, Dispatches
  <2> QED
    BY <1>2, <2>1, ReferredIsInMap DEF SocketInv
<1> QED
  BY <1>3, <1>4 DEF Pending

LEMMA UserInMap ==
  ASSUME SocketInv, NEW t \in Threads, pc[t] \in WithSocket \ {"inserting", "erasing"},
         t \notin Clients
  PROVE  socket[t] \in theASSocks /\ referCount[socket[t]] >= 1
<1>1. socket[t] \in Sockets /\ t \in Using(socket[t])
  BY DEF SocketInv, BasicInv, TInv, LocalTypes, Local, Using
<1> QED
  BY <1>1, ReferredIsInMap DEF SocketInv

LEMMA AnswerInMap ==
  ASSUME SocketInv, ConnectedHere, NEW f \in Frames, Answers(f)
  PROVE  io[f].sock \in theASSocks /\ referCount[io[f].sock] >= 1
<1>1. ASSUME NEW w \in Workers, pc[w] = "connected", op[w] = f
      PROVE  io[f].sock \in theASSocks /\ referCount[io[f].sock] >= 1
  <2>1. w \in Threads /\ w \notin Clients /\ io[f].sock = socket[w]
    BY <1>1, Roles, ServiceAssumption DEF ConnectedHere
  <2> QED
    BY <1>1, <2>1, UserInMap DEF WithSocket
<1> QED
  BY <1>1, PendingInMap DEF Answers

(* A socket of which something new is told.                                   *)
LEMMA FramesToldMore ==
  ASSUME SocketInv, SessionInv, NoNewRequest, NEW s \in Sockets, NEW what,
         told' = [told EXCEPT ![s] = what],
         \A f \in Frames : Answers(f)' => io[f].sock # s,
         \/ what \in Session
         \/ \A f \in Frames : Pending(f)' /\ io[f].optype = "read" => io[f].sock # s
  PROVE  ReadPending' /\ AnswerDue'
<1>1. \A f \in Frames : Pending(f) \/ Answers(f) => io[f].sock \in Sockets
  BY PendingInMap, AnswerInMap DEF SessionInv, SocketInv, BasicInv, TInv, ObjectTypes
<1>2. told'[s] = what /\ \A r \in Sockets \ {s} : told'[r] = told[r]
  BY DEF SocketInv, BasicInv, TInv, ObjectTypes
<1>3. ReadPending'
  BY <1>1, <1>2 DEF SessionInv, NoNewRequest, ReadPending
<1>4. AnswerDue'
  BY <1>1, <1>2 DEF SessionInv, NoNewRequest, AnswerDue
<1> QED
  BY <1>3, <1>4

LEMMA ConnectedKept ==
  ASSUME SocketInv', SessionInv, NoNewRequest,
         \A u \in Workers : pc'[u] = "connected" =>
            pc[u] = "connected" /\ op'[u] = op[u] /\ socket'[u] = socket[u]
  PROVE  ConnectedHere'
<1>1. ASSUME NEW u \in Workers, pc'[u] = "connected" PROVE op'[u] \in Frames
  BY <1>1, Roles DEF SocketInv, BasicInv, TInv, LocalTypes, Local, WithFrame
<1>2. ASSUME NEW u \in Workers, pc'[u] = "connected" PROVE io'[op'[u]].sock = io[op'[u]].sock
  BY <1>1, <1>2 DEF NoNewRequest, Answers
<1> QED
  BY <1>2 DEF SessionInv, ConnectedHere

(* A thread posts the request of its frame.                                   *)
LEMMA RequestAdded ==
  ASSUME SocketInv, NEW t \in Threads, pc[t] \in Posting, NEW type, Posted(t, type),
         NEW f \in Frames, f = op[t]
  PROVE  /\ socket[t] \in Sockets
         /\ io'[f].sock = socket[t] /\ io'[f].optype = type
         /\ Answers(f)' => type = "connect"
         /\ \A g \in Frames \ {f} :
              /\ Pending(g)' => /\ Pending(g) /\ io'[g].sock = io[g].sock
                                /\ io'[g].optype = io[g].optype
              /\ Answers(g)' => Answers(g) /\ io'[g].sock = io[g].sock
<1> USE Roles, ServiceAssumption DEF SocketInv, BasicInv, TInv, LocalTypes
<1>1. socket[t] \in Sockets /\ f # None
  BY DEF Posting, Local, WithSocket
<1>2. /\ io'[f] = Request(type, socket[t], handle[t])
      /\ \A g \in Frames \ {f} : io'[g] = io[g]
  BY <1>1 DEF Posted, FrameTypes
<1>3. \A u \in Workers : /\ Dispatches(u)' => Dispatches(u) /\ op'[u] = op[u] /\ u # t
                         /\ pc'[u] = "connected" => pc[u] = "connected" /\ op'[u] = op[u] /\ u # t
  BY DEF Posted, Return, Goto, Dispatches
<1>4. \A u \in Workers : pc'[u] = "connected" => op[u] # f
  BY <1>1, <1>3 DEF FrameInv, FrameOwnership
<1>5. Answers(f)' => type = "connect"
  BY <1>2, <1>3, <1>4 DEF Answers, Request
<1> QED
  BY <1>1, <1>2, <1>3, <1>5 DEF Request, Pending, Answers

LEMMA PostsFrame ==
  ASSUME SocketInv, NEW t \in Threads, pc[t] \in Posting
  PROVE  op[t] \in Frames /\ op[t] # None /\ socket[t] \in Sockets
BY ServiceAssumption
DEF SocketInv, BasicInv, TInv, LocalTypes, Posting, Local, WithFrame, WithSocket

LEMMA PostedTold ==
  ASSUME SocketInv, SessionInv, NEW t \in Threads, pc[t] \in Posting,
         NEW type \in {"read", "write"}, Posted(t, type), UNCHANGED told,
         type = "read" => told[socket[t]] \in Session
  PROVE  ReadPending' /\ AnswerDue'
<1>1. PICK f \in Frames : f = op[t]
  BY PostsFrame
<1>2. /\ io'[f].sock = socket[t] /\ io'[f].optype = type /\ ~ Answers(f)'
      /\ \A g \in Frames \ {f} :
           /\ Pending(g)' => /\ Pending(g) /\ io'[g].sock = io[g].sock
                             /\ io'[g].optype = io[g].optype
           /\ Answers(g)' => Answers(g) /\ io'[g].sock = io[g].sock
  BY <1>1, RequestAdded
<1>3. ReadPending'
  BY <1>2 DEF SessionInv, ReadPending
<1>4. AnswerDue'
  BY <1>2 DEF SessionInv, AnswerDue
<1> QED
  BY <1>3, <1>4

LEMMA RefusedTold ==
  ASSUME SocketInv, NEW t \in Threads, pc[t] \in Posting, Refused(t)
  PROVE  NoNewRequest
<1> USE Roles, ServiceAssumption DEF SocketInv, BasicInv, TInv, LocalTypes
<1>1. op[t] \in Frames /\ io' = [io EXCEPT ![op[t]] = Blank]
  BY DEF Refused, releaseIOFrame, Posting, Local, WithFrame
<1>2. \A u \in Workers : Dispatches(u)' \/ pc'[u] = "connected" =>
         u # t /\ pc'[u] = pc[u] /\ op'[u] = op[u]
  BY DEF Refused, Goto, Dispatches
<1> QED
  BY <1>1, <1>2, OneRequestLess

LEMMA StepSessions ==
  ASSUME SocketInv, SocketInv', SessionInv, [Next]_vars
  PROVE  SessionInv'
<1> USE ServiceAssumption, Roles DEF SocketInv, BasicInv, TInv, LocalTypes
<1>1. ASSUME NEW w \in Workers, NEW f \in Frames, GetQueuedCompletionStatus(w, f)
      PROVE  SessionInv'
  <2>1. NoNewRequest
    <3>1. /\ io[f].state = "queued"
          /\ \A g \in Frames : /\ io'[g].sock = io[g].sock /\ io'[g].optype = io[g].optype
                               /\ io'[g].state # "user" => io[g].state # "user"
      BY <1>1 DEF GetQueuedCompletionStatus, FrameTypes, FrameFields
    <3>2. \A u \in Workers :
             /\ Dispatches(u)' => (u = w /\ op'[u] = f) \/ (Dispatches(u) /\ op'[u] = op[u])
             /\ pc'[u] = "connected" => pc[u] = "connected" /\ op'[u] = op[u]
      BY <1>1 DEF GetQueuedCompletionStatus, Goto, Dispatches
    <3> QED BY <3>1, <3>2 DEF NoNewRequest, Pending, Answers
  <2>2. ReadPending' /\ AnswerDue'
    <3>1. UNCHANGED told
      BY <1>1 DEF GetQueuedCompletionStatus, notifyReleaseSocket
    <3> QED BY <2>1, <3>1, FramesTold
  <2>3. Reading'
    BY <1>1 DEF GetQueuedCompletionStatus, Goto, SessionInv, Reading, Places,
       Role, Carries, Locked, WorkerOnly, Closing, Local, WithSocket, WithFrame
  <2>4. ConnectedHere'
    <3>1. \A g \in Frames : io'[g].sock = io[g].sock
      BY <1>1 DEF GetQueuedCompletionStatus, FrameTypes, FrameFields
    <3> QED BY <1>1, <3>1 DEF GetQueuedCompletionStatus, Goto, SessionInv,
               ConnectedHere, Local, WithFrame
  <2>5. NotYetTold'
    BY <1>1 DEF GetQueuedCompletionStatus, Goto, socketVars, SessionInv,
       NotYetTold, ObjectTypes, Places, Role, Carries, Locked, WorkerOnly,
       Closing, Local, WithSocket, WithFrame
  <2>6. InTable'
    BY <1>1 DEF GetQueuedCompletionStatus, Goto, socketVars, SessionInv,
       InTable, NotYetTold, ObjectTypes
  <2> QED BY <2>2, <2>3, <2>4, <2>5, <2>6 DEF SessionInv
<1>2. ASSUME NEW w \in Workers, dispatchCompletion(w) PROVE SessionInv'
  <2>1. NoNewRequest
    <3>1. UNCHANGED io
      BY <1>2 DEF dispatchCompletion, frameVars, retrieveIOFrame
    <3>2. \A u \in Workers : Dispatches(u)' => Dispatches(u) /\ op'[u] = op[u]
      BY <1>2 DEF dispatchCompletion, Goto, FoundLabel, Dispatches, Places,
         Role
    <3>3. \A u \in Workers : pc'[u] = "connected" =>
             /\ op'[u] = op[u]
             /\ pc[u] = "connected" \/ (Dispatches(u) /\ io[op[u]].optype = "connect")
      BY <1>2 DEF dispatchCompletion, Goto, FoundLabel, Dispatches, Places,
         Role
    <3> QED BY <3>1, <3>2, <3>3, SameRequests
  <2>2. /\ Dispatches(w) /\ Pending(op[w])
        /\ socket' = [socket EXCEPT ![w] = io[op[w]].sock] /\ op[w] \in Frames
        /\ pc' = [pc EXCEPT ![w] = FoundLabel(op[w])]
    <3>1. Dispatches(w) /\ Pending(op[w])
      BY <1>2 DEF dispatchCompletion, Dispatches, Pending
    <3>2. Lookup(io[op[w]].key) = {io[op[w]].sock} /\ op[w] \in Frames
      BY <3>1, LookupFinds
    <3> QED BY <1>2, <3>1, <3>2 DEF dispatchCompletion, Goto
  <2>3. ReadPending' /\ AnswerDue'
    <3>1. UNCHANGED told
      BY <1>2 DEF dispatchCompletion, notifyReleaseSocket
    <3> QED BY <2>1, <3>1, FramesTold
  <2>4. Reading'
    <3>1. FoundLabel(op[w]) \in {"message", "postingRead", "WSARecv"}
            => told[io[op[w]].sock] \in Session
      <4>1. io[op[w]].optype \in {"none", "read", "write", "connect"}
        BY <2>2 DEF FrameTypes, FrameFields
      <4> QED BY <2>2, <4>1 DEF FoundLabel, SessionInv, ReadPending
    <3>2. UNCHANGED told
      BY <1>2 DEF dispatchCompletion
    <3> QED BY <2>2, <3>1, <3>2 DEF SessionInv, Reading
  <2>5. ConnectedHere'
    <3>1. UNCHANGED <<io, op>>
      BY <1>2 DEF dispatchCompletion, frameVars
    <3> QED BY <2>2, <3>1 DEF SessionInv, ConnectedHere
  <2>6. NotYetTold'
    BY <1>2 DEF dispatchCompletion, Goto, FoundLabel, Lookup, socketVars,
       SessionInv, NotYetTold, ObjectTypes, Places, Role, Carries, Locked,
       WorkerOnly, Closing, Local, WithSocket, WithFrame
  <2>7. InTable'
    BY <1>2 DEF dispatchCompletion, Goto, FoundLabel, Lookup, socketVars,
       SessionInv, InTable, NotYetTold, ObjectTypes
  <2> QED BY <2>3, <2>4, <2>5, <2>6, <2>7 DEF SessionInv
<1>3. ASSUME NEW w \in Workers, Disappeared(w) PROVE SessionInv'
  <2>1. NoNewRequest
    <3>1. op[w] \in Frames /\ io' = [io EXCEPT ![op[w]] = Blank]
      BY <1>3 DEF Disappeared, releaseIOFrame, Local, WithFrame
    <3>2. \A u \in Workers : Dispatches(u)' \/ pc'[u] = "connected" =>
             u # w /\ pc'[u] = pc[u] /\ op'[u] = op[u]
      BY <1>3 DEF Disappeared, Goto, Return, Dispatches
    <3> QED BY <3>1, <3>2, OneRequestLess
  <2>2. ReadPending' /\ AnswerDue'
    <3>1. UNCHANGED told
      BY <1>3 DEF Disappeared, notifyReleaseSocket
    <3> QED BY <2>1, <3>1, FramesTold
  <2>3. Reading'
    BY <1>3 DEF Disappeared, Goto, Return, SessionInv, Reading, Places, Role,
       Carries, Locked, WorkerOnly, Closing, Local, WithSocket, WithFrame
  <2>4. ConnectedHere'
    <3>1. \A u \in Workers : pc'[u] = "connected" =>
             pc[u] = "connected" /\ op'[u] = op[u] /\ socket'[u] = socket[u]
      BY <1>3 DEF Disappeared, Goto, Return
    <3> QED BY <2>1, <3>1, ConnectedKept
  <2>5. NotYetTold'
    BY <1>3 DEF Disappeared, Goto, Return, socketVars, SessionInv, NotYetTold,
       ObjectTypes, Places, Role, Carries, Locked, WorkerOnly, Closing, Local,
       WithSocket, WithFrame
  <2>6. InTable'
    BY <1>3 DEF Disappeared, Goto, Return, socketVars, SessionInv, InTable,
       NotYetTold, ObjectTypes
  <2> QED BY <2>2, <2>3, <2>4, <2>5, <2>6 DEF SessionInv
<1>4. ASSUME NEW w \in Workers, dispatchError(w) PROVE SessionInv'
  <2>1. NoNewRequest
    <3>1. UNCHANGED io
      BY <1>4 DEF dispatchError, frameVars, retrieveIOFrame
    <3>2. \A u \in Workers : Dispatches(u)' => Dispatches(u) /\ op'[u] = op[u]
      BY <1>4 DEF dispatchError, Goto, Dispatches, Places, Role
    <3>3. \A u \in Workers : pc'[u] = "connected" =>
             /\ op'[u] = op[u]
             /\ pc[u] = "connected" \/ (Dispatches(u) /\ io[op[u]].optype = "connect")
      BY <1>4 DEF dispatchError, Goto, Dispatches, Places, Role
    <3> QED BY <3>1, <3>2, <3>3, SameRequests
  <2>2. ConnectedHere'
    BY <1>4 DEF dispatchError, Goto, frameVars, SessionInv, ConnectedHere,
       Places, Role, Carries, Locked, WorkerOnly, Closing, Local, WithSocket,
       WithFrame
  <2>3. /\ Dispatches(w) /\ Pending(op[w]) /\ op[w] \in Frames /\ socket[w] = None
        /\ io[op[w]].sock \in theASSocks /\ Lookup(io[op[w]].key) = {io[op[w]].sock}
    <3>1. Dispatches(w) /\ Pending(op[w]) /\ pc[w] = "dispatchError"
      BY <1>4 DEF dispatchError, Dispatches, Pending
    <3> QED BY <3>1, LookupFinds DEF Places, Carries, WithSocket
  <2>4. PICK s \in Sockets :
          /\ s = io[op[w]].sock /\ socket' = [socket EXCEPT ![w] = s] /\ s \in theASSocks
          /\ \/ io[op[w]].optype # "connect" /\ UNCHANGED told
             \/ io[op[w]].optype = "connect" /\ told' = [told EXCEPT ![s] = "refused"]
    BY <1>4, <2>3 DEF dispatchError, notifyConnectingResult, ObjectTypes
  <2>5. io[op[w]].optype = "connect" =>
          told[s] = "asked" /\ \A f \in Frames \ {op[w]} : Answers(f) => io[f].sock # s
    BY <2>3, <2>4 DEF SessionInv, AnswerDue, Answers
  <2>6. \A u \in Threads \ {w} : pc'[u] = pc[u] /\ op'[u] = op[u] /\ socket'[u] = socket[u]
    BY <1>4 DEF dispatchError, Goto
  <2>7. pc'[w] = "releaseSocket" /\ UNCHANGED <<io, life, theASSocks>>
    BY <1>4 DEF dispatchError, Goto, frameVars, socketVars
  <2>8. CASE UNCHANGED told
    <3>1. ReadPending' /\ AnswerDue'
      BY <2>1, <2>8, FramesTold
    <3> QED BY <2>2, <2>6, <2>7, <2>8, <3>1 DEF SessionInv, Reading, NotYetTold, InTable
  <2>9. CASE io[op[w]].optype = "connect" /\ told[s] = "asked" /\ told' = [told EXCEPT ![s] = "refused"]
    <3>1. ReadPending' /\ AnswerDue'
      <4>1. \A f \in Frames : Answers(f)' => io[f].sock # s
        <5>0. PICK g \in Frames : g = op[w]
          BY <2>3
        <5>1. \A u \in Workers \ {w} : pc[u] = "connected" \/ Dispatches(u) => op[u] # g
          BY <5>0, <2>3 DEF FrameInv, FrameOwnership
        <5>2. io[g].state = "user"
          BY <5>0, <2>3 DEF FrameInv, FrameOwnership, InUse, InHand
        <5>3. ~ Answers(g)'
          BY <2>6, <2>7, <5>0, <5>1, <5>2 DEF Answers, Pending, Dispatches
        <5> QED BY <2>1, <2>4, <2>5, <2>9, <5>0, <5>3
                   DEF NoNewRequest, SessionInv, AnswerDue
      <4>2. \A f \in Frames : Pending(f)' /\ io[f].optype = "read" => io[f].sock # s
        BY <2>1, <2>9 DEF NoNewRequest, SessionInv, ReadPending, Session
      <4> QED BY <2>1, <2>9, <4>1, <4>2, FramesToldMore
    <3>2. told'[s] = "refused" /\ \A r \in Sockets \ {s} : told'[r] = told[r]
      BY <2>9 DEF ObjectTypes
    <3>3. \A u \in Threads : pc[u] \in WithSocket => socket[u] \in Sockets
      BY DEF Local
    <3>4. Reading'
      BY <2>6, <2>7, <2>9, <3>2, <3>3 DEF SessionInv, Reading, Session, WithSocket
    <3>5. NotYetTold'
      BY <2>6, <2>7, <2>9, <3>2, <3>3 DEF SessionInv, NotYetTold, WithSocket
    <3>6. InTable'
      BY <2>7, <3>2 DEF SessionInv, InTable, Session
    <3> QED BY <2>2, <3>1, <3>4, <3>5, <3>6 DEF SessionInv
  <2> QED BY <2>4, <2>5, <2>8, <2>9
<1>5. ASSUME NEW w \in Workers, Connected(w) PROVE SessionInv'
  <2>1. PICK s \in Sockets : s = socket[w] /\ s \in theASSocks
    BY <1>5, UserInMap DEF Connected, WithSocket, ObjectTypes
  <2>2. /\ pc[w] = "connected" /\ op[w] \in Frames /\ io[op[w]].sock = s
        /\ Answers(op[w]) /\ told[s] = "asked"
    <3>1. pc[w] = "connected"
      BY <1>5 DEF Connected
    <3>2. /\ op[w] \in Frames /\ Answers(op[w]) /\ io[op[w]].sock = s
      BY <2>1, <3>1 DEF Local, WithFrame, Answers, SessionInv, ConnectedHere
    <3> QED BY <3>1, <3>2 DEF SessionInv, AnswerDue
  <2>3. /\ socket' = socket /\ UNCHANGED <<life, theASSocks>>
        /\ \A u \in Threads \ {w} : pc'[u] = pc[u] /\ op'[u] = op[u]
    BY <1>5 DEF Connected, Goto, socketVars
  <2>4. \/ /\ told' = [told EXCEPT ![s] = "connected"] /\ pc'[w] = "postingRead"
           /\ UNCHANGED io /\ op' = op
        \/ /\ told' = [told EXCEPT ![s] = "refused"] /\ pc'[w] = "releaseSocket"
           /\ io' = [io EXCEPT ![op[w]] = Blank] /\ op'[w] = None
    BY <1>5, <2>1 DEF Connected, Goto, notifyConnectingResult, frameVars, releaseIOFrame
  <2>5. NoNewRequest
    <3>1. \A u \in Workers : Dispatches(u)' \/ pc'[u] = "connected" =>
             u # w /\ pc'[u] = pc[u] /\ op'[u] = op[u]
      BY <2>3, <2>4 DEF Dispatches
    <3>2. CASE UNCHANGED io
      BY <3>1, <3>2, SameRequests DEF Dispatches
    <3>3. CASE io' = [io EXCEPT ![op[w]] = Blank]
      BY <2>2, <3>1, <3>3, OneRequestLess
    <3> QED BY <2>4, <3>2, <3>3
  <2>6. \A f \in Frames : Answers(f)' => io[f].sock # s
    <3>0. PICK g \in Frames : g = op[w]
      BY <2>2
    <3>1. io[g].state = "user" /\ io'[g].state = "user"
      BY <3>0, <2>2, <2>4 DEF FrameInv, FrameOwnership, InUse, InHand, Blank, FrameTypes
    <3>2. \A u \in Workers \ {w} : pc[u] = "connected" \/ Dispatches(u) => op[u] # g
      BY <3>0, <2>2 DEF FrameInv, FrameOwnership
    <3>3. ~ Answers(g)'
      BY <2>3, <2>4, <3>0, <3>1, <3>2 DEF Answers, Pending, Dispatches
    <3> QED BY <2>2, <2>5, <3>0, <3>3 DEF NoNewRequest, SessionInv, AnswerDue
  <2>7. \A f \in Frames : Pending(f)' /\ io[f].optype = "read" => io[f].sock # s
    BY <2>2, <2>5 DEF NoNewRequest, SessionInv, ReadPending, Session
  <2>8. ReadPending' /\ AnswerDue'
    BY <2>4, <2>5, <2>6, <2>7, FramesToldMore
  <2>9. /\ told'[s] \in {"connected", "refused"} /\ \A r \in Sockets \ {s} : told'[r] = told[r]
        /\ pc'[w] = "postingRead" => told'[s] = "connected"
    BY <2>4 DEF ObjectTypes
  <2>10. \A u \in Threads : pc[u] \in WithSocket => socket[u] \in Sockets
    BY DEF Local
  <2>11. Reading'
    BY <2>1, <2>2, <2>3, <2>4, <2>9, <2>10 DEF SessionInv, Reading, Session, WithSocket
  <2>12. ConnectedHere'
    BY <2>3, <2>4, <2>5, ConnectedKept
  <2>13. NotYetTold'
    BY <2>2, <2>3, <2>4, <2>9, <2>10 DEF SessionInv, NotYetTold, WithSocket
  <2>14. InTable'
    BY <2>1, <2>3, <2>9 DEF SessionInv, InTable
  <2> QED BY <2>8, <2>11, <2>12, <2>13, <2>14 DEF SessionInv
<1>6. ASSUME NEW w \in Workers, Message(w) PROVE SessionInv'
  <2>1. NoNewRequest
    <3>1. UNCHANGED io
      BY <1>6 DEF Message, frameVars, retrieveIOFrame
    <3>2. \A u \in Workers : Dispatches(u)' => Dispatches(u) /\ op'[u] = op[u]
      BY <1>6 DEF Message, Goto, Dispatches, Places, Role
    <3>3. \A u \in Workers : pc'[u] = "connected" =>
             /\ op'[u] = op[u]
             /\ pc[u] = "connected" \/ (Dispatches(u) /\ io[op[u]].optype = "connect")
      BY <1>6 DEF Message, Goto, Dispatches, Places, Role
    <3> QED BY <3>1, <3>2, <3>3, SameRequests
  <2>2. ReadPending' /\ AnswerDue'
    <3>1. UNCHANGED told
      BY <1>6 DEF Message, notifyReleaseSocket
    <3> QED BY <2>1, <3>1, FramesTold
  <2>3. Reading'
    BY <1>6 DEF Message, Goto, SessionInv, Reading, Places, Role, Carries,
       Locked, WorkerOnly, Closing, Local, WithSocket, WithFrame
  <2>4. ConnectedHere'
    BY <1>6 DEF Message, Goto, frameVars, SessionInv, ConnectedHere, Places,
       Role, Carries, Locked, WorkerOnly, Closing, Local, WithSocket, WithFrame
  <2>5. NotYetTold'
    BY <1>6 DEF Message, Goto, socketVars, SessionInv, NotYetTold, ObjectTypes,
       Places, Role, Carries, Locked, WorkerOnly, Closing, Local, WithSocket,
       WithFrame
  <2>6. InTable'
    BY <1>6 DEF Message, Goto, socketVars, SessionInv, InTable, NotYetTold,
       ObjectTypes
  <2> QED BY <2>2, <2>3, <2>4, <2>5, <2>6 DEF SessionInv
<1>7. ASSUME NEW t \in Threads, disconnect(t) PROVE SessionInv'
  <2>1. NoNewRequest
    <3>1. UNCHANGED io
      BY <1>7 DEF disconnect, frameVars, retrieveIOFrame
    <3>2. \A u \in Workers : Dispatches(u)' => Dispatches(u) /\ op'[u] = op[u]
      BY <1>7 DEF disconnect, Goto, Return, AfterDisconnect, Dispatches,
         Places, Role
    <3>3. \A u \in Workers : pc'[u] = "connected" =>
             /\ op'[u] = op[u]
             /\ pc[u] = "connected" \/ (Dispatches(u) /\ io[op[u]].optype = "connect")
      BY <1>7 DEF disconnect, Goto, Return, AfterDisconnect, Dispatches,
         Places, Role
    <3> QED BY <3>1, <3>2, <3>3, SameRequests
  <2>2. ReadPending' /\ AnswerDue'
    <3>1. UNCHANGED told
      BY <1>7 DEF disconnect, notifyReleaseSocket
    <3> QED BY <2>1, <3>1, FramesTold
  <2>3. Reading'
    BY <1>7 DEF disconnect, Goto, Return, AfterDisconnect, SessionInv, Reading,
       Places, Role, Carries, Locked, WorkerOnly, Closing, Local, WithSocket,
       WithFrame
  <2>4. ConnectedHere'
    BY <1>7 DEF disconnect, Goto, Return, AfterDisconnect, frameVars,
       SessionInv, ConnectedHere, Places, Role, Carries, Locked, WorkerOnly,
       Closing, Local, WithSocket, WithFrame
  <2>5. NotYetTold'
    BY <1>7 DEF disconnect, Goto, Return, AfterDisconnect, socketVars,
       SessionInv, NotYetTold, ObjectTypes, Places, Role, Carries, Locked,
       WorkerOnly, Closing, Local, WithSocket, WithFrame
  <2>6. InTable'
    BY <1>7 DEF disconnect, Goto, Return, AfterDisconnect, socketVars,
       SessionInv, InTable, NotYetTold, ObjectTypes
  <2> QED BY <2>2, <2>3, <2>4, <2>5, <2>6 DEF SessionInv
<1>8. ASSUME NEW t \in Threads, closesocket(t) PROVE SessionInv'
  <2>1. NoNewRequest
    <3>1. ASSUME NEW g \in Frames
          PROVE  /\ io'[g].state # "user" => io[g].state # "user"
                 /\ io'[g].sock = io[g].sock /\ io'[g].optype = io[g].optype
      BY <1>8, EndedBySystem
    <3>2. \A u \in Workers :
             /\ Dispatches(u)' => Dispatches(u) /\ op'[u] = op[u]
             /\ pc'[u] = "connected" => pc[u] = "connected" /\ op'[u] = op[u]
      BY <1>8 DEF closesocket, Goto, Dispatches
    <3> QED BY <3>1, <3>2, RequestsGoOn
  <2>2. ReadPending' /\ AnswerDue'
    <3>1. UNCHANGED told
      BY <1>8 DEF closesocket, notifyReleaseSocket
    <3> QED BY <2>1, <3>1, FramesTold
  <2>3. Reading'
    BY <1>8 DEF closesocket, Goto, SessionInv, Reading, Places, Role, Carries,
       Locked, WorkerOnly, Closing, Local, WithSocket, WithFrame
  <2>4. ConnectedHere'
    <3>1. \A u \in Workers : pc'[u] = "connected" =>
             pc[u] = "connected" /\ op'[u] = op[u] /\ socket'[u] = socket[u]
      BY <1>8 DEF closesocket, Goto
    <3> QED BY <2>1, <3>1, ConnectedKept
  <2>5. NotYetTold'
    BY <1>8 DEF closesocket, Goto, socketVars, SessionInv, NotYetTold,
       ObjectTypes, Places, Role, Carries, Locked, WorkerOnly, Closing, Local,
       WithSocket, WithFrame
  <2>6. InTable'
    BY <1>8 DEF closesocket, Goto, socketVars, SessionInv, InTable, NotYetTold,
       ObjectTypes
  <2> QED BY <2>2, <2>3, <2>4, <2>5, <2>6 DEF SessionInv
<1>9. ASSUME NEW t \in Threads, setClosed(t) PROVE SessionInv'
  <2>1. NoNewRequest
    <3>1. UNCHANGED io
      BY <1>9 DEF setClosed, frameVars, retrieveIOFrame
    <3>2. \A u \in Workers : Dispatches(u)' => Dispatches(u) /\ op'[u] = op[u]
      BY <1>9 DEF setClosed, Goto, Return, AfterDisconnect, Dispatches, Places,
         Role
    <3>3. \A u \in Workers : pc'[u] = "connected" =>
             /\ op'[u] = op[u]
             /\ pc[u] = "connected" \/ (Dispatches(u) /\ io[op[u]].optype = "connect")
      BY <1>9 DEF setClosed, Goto, Return, AfterDisconnect, Dispatches, Places,
         Role
    <3> QED BY <3>1, <3>2, <3>3, SameRequests
  <2>2. ReadPending' /\ AnswerDue'
    <3>1. UNCHANGED told
      BY <1>9 DEF setClosed, notifyReleaseSocket
    <3> QED BY <2>1, <3>1, FramesTold
  <2>3. Reading'
    BY <1>9 DEF setClosed, Goto, Return, AfterDisconnect, SessionInv, Reading,
       Places, Role, Carries, Locked, WorkerOnly, Closing, Local, WithSocket,
       WithFrame
  <2>4. ConnectedHere'
    BY <1>9 DEF setClosed, Goto, Return, AfterDisconnect, frameVars,
       SessionInv, ConnectedHere, Places, Role, Carries, Locked, WorkerOnly,
       Closing, Local, WithSocket, WithFrame
  <2>5. NotYetTold'
    BY <1>9 DEF setClosed, Goto, Return, AfterDisconnect, socketVars,
       SessionInv, NotYetTold, ObjectTypes, Places, Role, Carries, Locked,
       WorkerOnly, Closing, Local, WithSocket, WithFrame
  <2>6. InTable'
    BY <1>9 DEF setClosed, Goto, Return, AfterDisconnect, socketVars,
       SessionInv, InTable, NotYetTold, ObjectTypes
  <2> QED BY <2>2, <2>3, <2>4, <2>5, <2>6 DEF SessionInv
<1>10. ASSUME NEW w \in Workers, postingRead(w) PROVE SessionInv'
  <2>1. NoNewRequest
    <3>1. UNCHANGED io
      BY <1>10 DEF postingRead, frameVars, retrieveIOFrame
    <3>2. \A u \in Workers : Dispatches(u)' => Dispatches(u) /\ op'[u] = op[u]
      BY <1>10 DEF postingRead, Goto, Dispatches, Places, Role
    <3>3. \A u \in Workers : pc'[u] = "connected" =>
             /\ op'[u] = op[u]
             /\ pc[u] = "connected" \/ (Dispatches(u) /\ io[op[u]].optype = "connect")
      BY <1>10 DEF postingRead, Goto, Dispatches, Places, Role
    <3> QED BY <3>1, <3>2, <3>3, SameRequests
  <2>2. ReadPending' /\ AnswerDue'
    <3>1. UNCHANGED told
      BY <1>10 DEF postingRead, notifyReleaseSocket
    <3> QED BY <2>1, <3>1, FramesTold
  <2>3. Reading'
    BY <1>10 DEF postingRead, Goto, SessionInv, Reading, Places, Role, Carries,
       Locked, WorkerOnly, Closing, Local, WithSocket, WithFrame
  <2>4. ConnectedHere'
    BY <1>10 DEF postingRead, Goto, frameVars, SessionInv, ConnectedHere,
       Places, Role, Carries, Locked, WorkerOnly, Closing, Local, WithSocket,
       WithFrame
  <2>5. NotYetTold'
    BY <1>10 DEF postingRead, Goto, socketVars, SessionInv, NotYetTold,
       ObjectTypes, Places, Role, Carries, Locked, WorkerOnly, Closing, Local,
       WithSocket, WithFrame
  <2>6. InTable'
    BY <1>10 DEF postingRead, Goto, socketVars, SessionInv, InTable,
       NotYetTold, ObjectTypes
  <2> QED BY <2>2, <2>3, <2>4, <2>5, <2>6 DEF SessionInv
<1>11. ASSUME NEW t \in Threads, WSARecv(t) PROVE SessionInv'
  <2>1. pc[t] \in Posting /\ UNCHANGED told
    BY <1>11 DEF WSARecv, Posting
  <2>2. ReadPending' /\ AnswerDue'
    <3>1. CASE Posted(t, "read")
      BY <1>11, <2>1, <3>1, PostedTold DEF WSARecv, SessionInv, Reading
    <3>2. CASE Refused(t)
      BY <2>1, <3>2, RefusedTold, FramesTold
    <3> QED BY <1>11, <3>1, <3>2 DEF WSARecv
  <2>3. Reading'
    BY <1>11 DEF WSARecv, Goto, Return, Posted, Refused, Unlock, SessionInv,
       Reading, Places, Role, Carries, Locked, WorkerOnly, Closing, Local,
       WithSocket, WithFrame
  <2>4. ConnectedHere'
    <3>1. CASE Posted(t, "read")
      <4>1. \A u \in Workers : pc'[u] = "connected" =>
               /\ u # t /\ pc[u] = "connected" /\ socket'[u] = socket[u]
               /\ op'[u] = op[u] /\ op[u] \in Frames \ {op[t]}
        BY <2>1, <3>1 DEF Posted, Return, Goto, Posting, Local, WithFrame, FrameInv,
           FrameOwnership
      <4>2. PICK f \in Frames : f = op[t]
        BY <2>1, PostsFrame
      <4>3. \A g \in Frames \ {f} : Answers(g)' => io'[g].sock = io[g].sock
        BY <2>1, <3>1, <4>2, RequestAdded
      <4>4. \A u \in Workers : pc'[u] = "connected" => io'[op[u]].sock = io[op[u]].sock
        BY <4>1, <4>2, <4>3 DEF Answers
      <4> QED BY <4>1, <4>4 DEF SessionInv, ConnectedHere
    <3>2. CASE Refused(t)
      <4>1. \A u \in Workers : pc'[u] = "connected" =>
               pc[u] = "connected" /\ op'[u] = op[u] /\ socket'[u] = socket[u]
        BY <3>2 DEF Refused, Goto
      <4> QED BY <2>1, <3>2, <4>1, RefusedTold, ConnectedKept
    <3> QED BY <1>11, <3>1, <3>2 DEF WSARecv
  <2>5. NotYetTold'
    BY <1>11 DEF WSARecv, Goto, Return, Posted, Refused, Unlock, socketVars,
       SessionInv, NotYetTold, ObjectTypes, Places, Role, Carries, Locked,
       WorkerOnly, Closing, Local, WithSocket, WithFrame
  <2>6. InTable'
    BY <1>11 DEF WSARecv, Goto, Return, Posted, Refused, Unlock, socketVars,
       SessionInv, InTable, NotYetTold, ObjectTypes
  <2> QED BY <2>2, <2>3, <2>4, <2>5, <2>6 DEF SessionInv
<1>12. ASSUME NEW t \in Threads, releaseSocket(t) PROVE SessionInv'
  <2>1. NoNewRequest
    <3>1. UNCHANGED io
      BY <1>12 DEF releaseSocket, frameVars, retrieveIOFrame
    <3>2. \A u \in Workers : Dispatches(u)' => Dispatches(u) /\ op'[u] = op[u]
      BY <1>12 DEF releaseSocket, Goto, Return, LeaveReleaseSocket, Dispatches,
         Places, Role
    <3>3. \A u \in Workers : pc'[u] = "connected" =>
             /\ op'[u] = op[u]
             /\ pc[u] = "connected" \/ (Dispatches(u) /\ io[op[u]].optype = "connect")
      BY <1>12 DEF releaseSocket, Goto, Return, LeaveReleaseSocket, Dispatches,
         Places, Role
    <3> QED BY <3>1, <3>2, <3>3, SameRequests
  <2>2. ReadPending' /\ AnswerDue'
    <3>1. UNCHANGED told
      BY <1>12 DEF releaseSocket, notifyReleaseSocket
    <3> QED BY <2>1, <3>1, FramesTold
  <2>3. Reading'
    BY <1>12 DEF releaseSocket, Goto, Return, LeaveReleaseSocket, SessionInv,
       Reading, Places, Role, Carries, Locked, WorkerOnly, Closing, Local,
       WithSocket, WithFrame
  <2>4. ConnectedHere'
    BY <1>12 DEF releaseSocket, Goto, Return, LeaveReleaseSocket, frameVars,
       SessionInv, ConnectedHere, Places, Role, Carries, Locked, WorkerOnly,
       Closing, Local, WithSocket, WithFrame
  <2>5. NotYetTold'
    BY <1>12 DEF releaseSocket, Goto, Return, LeaveReleaseSocket, socketVars,
       SessionInv, NotYetTold, ObjectTypes, Places, Role, Carries, Locked,
       WorkerOnly, Closing, Local, WithSocket, WithFrame
  <2>6. InTable'
    BY <1>12 DEF releaseSocket, Goto, Return, LeaveReleaseSocket, socketVars,
       SessionInv, InTable, NotYetTold, ObjectTypes
  <2> QED BY <2>2, <2>3, <2>4, <2>5, <2>6 DEF SessionInv
<1>13. ASSUME NEW t \in Threads, Erase(t) PROVE SessionInv'
  <2>1. NoNewRequest
    <3>1. UNCHANGED io
      BY <1>13 DEF Erase, frameVars, retrieveIOFrame
    <3>2. \A u \in Workers : Dispatches(u)' => Dispatches(u) /\ op'[u] = op[u]
      BY <1>13 DEF Erase, Goto, Return, LeaveReleaseSocket, Dispatches, Places,
         Role
    <3>3. \A u \in Workers : pc'[u] = "connected" =>
             /\ op'[u] = op[u]
             /\ pc[u] = "connected" \/ (Dispatches(u) /\ io[op[u]].optype = "connect")
      BY <1>13 DEF Erase, Goto, Return, LeaveReleaseSocket, Dispatches, Places,
         Role
    <3> QED BY <3>1, <3>2, <3>3, SameRequests
  <2>2. PICK s \in Sockets : s = socket[t] /\ s \in theASSocks /\ referCount[s] = 0
    BY <1>13 DEF Erase, RefInv, InMap, NoneLeft, Local, WithSocket, ObjectTypes
  <2>3. /\ told' = [told EXCEPT ![s] = "released"] /\ life' = [life EXCEPT ![s] = "deleted"]
        /\ theASSocks' = theASSocks \ {s}
        /\ pc'[t] \in {"idle", "releaseIOFrame"}
        /\ \A u \in Threads \ {t} : pc'[u] = pc[u] /\ socket'[u] = socket[u]
    <3>1. theASSocks' = theASSocks \ {s}
      BY <1>13, <2>2, SocketGivenUp
    <3> QED BY <1>13, <2>2, <3>1 DEF Erase, notifyReleaseSocket, LeaveReleaseSocket,
               Return, Goto
  <2>4. /\ told'[s] = "released" /\ \A r \in Sockets \ {s} : told'[r] = told[r]
        /\ life'[s] = "deleted" /\ \A r \in Sockets \ {s} : life'[r] = life[r]
    BY <2>3 DEF ObjectTypes
  <2>5. ASSUME NEW u \in Threads,
               pc[u] \in {"message", "postingRead", "WSARecv", "inserting", "ConnectEx"}
        PROVE  socket[u] \in Sockets \ {s}
    <3>1. socket[u] \in Sockets /\ socket[u] # None /\ pc[u] \in WithSocket
      BY <2>5 DEF Local, WithSocket
    <3>2. CASE pc[u] = "inserting"
      BY <2>2, <3>1, <3>2 DEF RefInv, InMap
    <3>3. CASE pc[u] # "inserting"
      <4>1. u \notin Clients
        BY <2>5, <3>3 DEF Places, Role, WorkerOnly
      <4> QED BY <2>2, <2>5, <3>1, <3>3, <4>1, UserInMap
    <3> QED BY <3>2, <3>3
  <2>6. ReadPending' /\ AnswerDue'
    <3>1. \A f \in Frames : Pending(f) \/ Answers(f) => io[f].sock # s
      BY <2>2, PendingInMap, AnswerInMap DEF SessionInv
    <3>2. \A f \in Frames : Pending(f)' \/ Answers(f)' => io[f].sock # s
      BY <2>1, <3>1 DEF NoNewRequest
    <3> QED BY <2>1, <2>3, <3>2, FramesToldMore
  <2>7. Reading'
    BY <2>3, <2>4, <2>5 DEF SessionInv, Reading
  <2>8. ConnectedHere'
    BY <1>13 DEF Erase, Goto, Return, LeaveReleaseSocket, frameVars,
       SessionInv, ConnectedHere, Places, Role, Carries, Locked, WorkerOnly,
       Closing, Local, WithSocket, WithFrame
  <2>9. NotYetTold'
    BY <2>3, <2>4, <2>5 DEF SessionInv, NotYetTold
  <2>10. InTable'
    BY <2>3, <2>4 DEF SessionInv, InTable, Session
  <2> QED BY <2>6, <2>7, <2>8, <2>9, <2>10 DEF SessionInv
<1>14. ASSUME NEW w \in Workers, ReleaseFrame(w) PROVE SessionInv'
  <2>1. NoNewRequest
    <3>1. op[w] \in Frames /\ io' = [io EXCEPT ![op[w]] = Blank]
      BY <1>14 DEF ReleaseFrame, releaseIOFrame, Local, WithFrame
    <3>2. \A u \in Workers : Dispatches(u)' \/ pc'[u] = "connected" =>
             u # w /\ pc'[u] = pc[u] /\ op'[u] = op[u]
      BY <1>14 DEF ReleaseFrame, Goto, Return, Dispatches
    <3> QED BY <3>1, <3>2, OneRequestLess
  <2>2. ReadPending' /\ AnswerDue'
    <3>1. UNCHANGED told
      BY <1>14 DEF ReleaseFrame, notifyReleaseSocket
    <3> QED BY <2>1, <3>1, FramesTold
  <2>3. Reading'
    BY <1>14 DEF ReleaseFrame, Goto, Return, SessionInv, Reading, Places, Role,
       Carries, Locked, WorkerOnly, Closing, Local, WithSocket, WithFrame
  <2>4. ConnectedHere'
    <3>1. \A u \in Workers : pc'[u] = "connected" =>
             pc[u] = "connected" /\ op'[u] = op[u] /\ socket'[u] = socket[u]
      BY <1>14 DEF ReleaseFrame, Goto, Return
    <3> QED BY <2>1, <3>1, ConnectedKept
  <2>5. NotYetTold'
    BY <1>14 DEF ReleaseFrame, Goto, Return, socketVars, SessionInv,
       NotYetTold, ObjectTypes, Places, Role, Carries, Locked, WorkerOnly,
       Closing, Local, WithSocket, WithFrame
  <2>6. InTable'
    BY <1>14 DEF ReleaseFrame, Goto, Return, socketVars, SessionInv, InTable,
       NotYetTold, ObjectTypes
  <2> QED BY <2>2, <2>3, <2>4, <2>5, <2>6 DEF SessionInv
<1>15. ASSUME NEW a \in Acceptors, NEW h \in Handles, Accept(a, h)
       PROVE  SessionInv'
  <2>1. NoNewRequest
    <3>1. UNCHANGED io
      BY <1>15 DEF Accept, frameVars, retrieveIOFrame
    <3>2. \A u \in Workers : Dispatches(u)' => Dispatches(u) /\ op'[u] = op[u]
      BY <1>15 DEF Accept, Goto, Dispatches, Places, Role
    <3>3. \A u \in Workers : pc'[u] = "connected" =>
             /\ op'[u] = op[u]
             /\ pc[u] = "connected" \/ (Dispatches(u) /\ io[op[u]].optype = "connect")
      BY <1>15 DEF Accept, Goto, Dispatches, Places, Role
    <3> QED BY <3>1, <3>2, <3>3, SameRequests
  <2>2. ReadPending' /\ AnswerDue'
    <3>1. UNCHANGED told
      BY <1>15 DEF Accept, notifyReleaseSocket
    <3> QED BY <2>1, <3>1, FramesTold
  <2>3. Reading'
    BY <1>15 DEF Accept, Goto, SessionInv, Reading, Places, Role, Carries,
       Locked, WorkerOnly, Closing, Local, WithSocket, WithFrame
  <2>4. ConnectedHere'
    BY <1>15 DEF Accept, Goto, frameVars, SessionInv, ConnectedHere, Places,
       Role, Carries, Locked, WorkerOnly, Closing, Local, WithSocket, WithFrame
  <2>5. NotYetTold'
    BY <1>15 DEF Accept, Goto, socketVars, SessionInv, NotYetTold, ObjectTypes,
       Places, Role, Carries, Locked, WorkerOnly, Closing, Local, WithSocket,
       WithFrame
  <2>6. InTable'
    BY <1>15 DEF Accept, Goto, socketVars, SessionInv, InTable, NotYetTold,
       ObjectTypes
  <2> QED BY <2>2, <2>3, <2>4, <2>5, <2>6 DEF SessionInv
<1>16. ASSUME NEW a \in Acceptors, registerSocket(a) PROVE SessionInv'
  <2>1. NoNewRequest
    <3>1. UNCHANGED io
      BY <1>16 DEF registerSocket, frameVars, retrieveIOFrame
    <3>2. \A u \in Workers : Dispatches(u)' => Dispatches(u) /\ op'[u] = op[u]
      BY <1>16 DEF registerSocket, Goto, Return, Dispatches, Places, Role
    <3>3. \A u \in Workers : pc'[u] = "connected" =>
             /\ op'[u] = op[u]
             /\ pc[u] = "connected" \/ (Dispatches(u) /\ io[op[u]].optype = "connect")
      BY <1>16 DEF registerSocket, Goto, Return, Dispatches, Places, Role
    <3> QED BY <3>1, <3>2, <3>3, SameRequests
  <2>2. ReadPending' /\ AnswerDue'
    <3>1. UNCHANGED told
      BY <1>16 DEF registerSocket, notifyReleaseSocket
    <3> QED BY <2>1, <3>1, FramesTold
  <2>3. Reading'
    BY <1>16 DEF registerSocket, Goto, Return, clone, SessionInv, Reading,
       Places, Role, Carries, Locked, WorkerOnly, Closing, Local, WithSocket,
       WithFrame
  <2>4. ConnectedHere'
    BY <1>16 DEF registerSocket, Goto, Return, clone, frameVars, SessionInv,
       ConnectedHere, Places, Role, Carries, Locked, WorkerOnly, Closing,
       Local, WithSocket, WithFrame
  <2>5. NotYetTold'
    BY <1>16 DEF registerSocket, Goto, Return, clone, socketVars, SessionInv,
       NotYetTold, ObjectTypes, Places, Role, Carries, Locked, WorkerOnly,
       Closing, Local, WithSocket, WithFrame
  <2>6. InTable'
    BY <1>16 DEF registerSocket, Goto, Return, clone, socketVars, SessionInv,
       InTable, NotYetTold, ObjectTypes
  <2> QED BY <2>2, <2>3, <2>4, <2>5, <2>6 DEF SessionInv
<1>17. ASSUME NEW t \in Threads, Insert(t) PROVE SessionInv'
  <2>1. NoNewRequest
    <3>1. UNCHANGED io
      BY <1>17 DEF Insert, frameVars, retrieveIOFrame
    <3>2. \A u \in Workers : Dispatches(u)' => Dispatches(u) /\ op'[u] = op[u]
      BY <1>17 DEF Insert, Goto, Dispatches, Places, Role
    <3>3. \A u \in Workers : pc'[u] = "connected" =>
             /\ op'[u] = op[u]
             /\ pc[u] = "connected" \/ (Dispatches(u) /\ io[op[u]].optype = "connect")
      BY <1>17 DEF Insert, Goto, Dispatches, Places, Role
    <3> QED BY <3>1, <3>2, <3>3, SameRequests
  <2>2. PICK s \in Sockets : s = socket[t] /\ told[s] = "nothing"
    BY <1>17 DEF Insert, SessionInv, NotYetTold, Local, WithSocket
  <2>3. /\ entireSynch = t /\ t \notin Workers /\ UNCHANGED <<socket, life>>
        /\ theASSocks' = theASSocks \cup {s}
        /\ \A u \in Threads \ {t} : pc'[u] = pc[u]
        /\ \/ UNCHANGED told /\ pc'[t] = "ConnectEx"
           \/ told' = [told EXCEPT ![s] = "registered"] /\ pc'[t] = "WSARecv"
    BY <1>17, <2>2 DEF Insert, Goto, notifyRegisterSocket, Places, Role, Locked,
       WithSocket
  <2>4. /\ told'[s] \in {"nothing", "registered"} /\ \A r \in Sockets \ {s} : told'[r] = told[r]
        /\ pc'[t] = "ConnectEx" => told'[s] = "nothing"
        /\ pc'[t] = "WSARecv" => told'[s] = "registered"
    BY <2>2, <2>3 DEF ObjectTypes
  <2>5. ASSUME NEW u \in Threads \ {t}, pc[u] \in {"inserting", "ConnectEx"}
        PROVE  FALSE
    <3>1. u \notin Workers
      BY <2>5 DEF Places, Role
    <3> QED BY <2>3, <2>5, <3>1, AloneInside DEF WithSocket
  <2>6. \A u \in Threads : pc[u] \in WithSocket => socket[u] \in Sockets
    BY DEF Local
  <2>7. ReadPending' /\ AnswerDue'
    <3>1. CASE UNCHANGED told
      BY <2>1, <3>1, FramesTold
    <3>2. CASE told' = [told EXCEPT ![s] = "registered"]
      <4>1. \A f \in Frames : Answers(f)' => io[f].sock # s
        BY <2>1, <2>2 DEF NoNewRequest, SessionInv, AnswerDue
      <4>2. "registered" \in Session
        BY DEF Session
      <4> QED BY <2>1, <3>2, <4>1, <4>2, FramesToldMore
    <3> QED BY <2>3, <3>1, <3>2
  <2>8. Reading'
    BY <2>2, <2>3, <2>4, <2>6 DEF SessionInv, Reading, Session, WithSocket
  <2>9. ConnectedHere'
    BY <1>17 DEF Insert, Goto, retrieveIOFrame, frameVars, SessionInv,
       ConnectedHere, Places, Role, Carries, Locked, WorkerOnly, Closing,
       Local, WithSocket, WithFrame
  <2>10. NotYetTold'
    BY <2>2, <2>3, <2>4, <2>5, <2>6, <1>17
       DEF SessionInv, NotYetTold, WithSocket, UidInv, Alive, Insert
  <2>11. InTable'
    BY <2>2, <2>3, <2>4 DEF SessionInv, InTable
  <2> QED BY <2>7, <2>8, <2>9, <2>10, <2>11 DEF SessionInv
<1>18. ASSUME NEW c \in Connectors, NEW h \in Handles, connectSocket(c, h)
       PROVE  SessionInv'
  <2>1. NoNewRequest
    <3>1. UNCHANGED io
      BY <1>18 DEF connectSocket, frameVars, retrieveIOFrame
    <3>2. \A u \in Workers : Dispatches(u)' => Dispatches(u) /\ op'[u] = op[u]
      BY <1>18 DEF connectSocket, Goto, localVars, Dispatches, Places, Role
    <3>3. \A u \in Workers : pc'[u] = "connected" =>
             /\ op'[u] = op[u]
             /\ pc[u] = "connected" \/ (Dispatches(u) /\ io[op[u]].optype = "connect")
      BY <1>18 DEF connectSocket, Goto, localVars, Dispatches, Places, Role
    <3> QED BY <3>1, <3>2, <3>3, SameRequests
  <2>2. ReadPending' /\ AnswerDue'
    <3>1. UNCHANGED told
      BY <1>18 DEF connectSocket, notifyReleaseSocket
    <3> QED BY <2>1, <3>1, FramesTold
  <2>3. Reading'
    BY <1>18 DEF connectSocket, Goto, localVars, clone, SessionInv, Reading,
       Places, Role, Carries, Locked, WorkerOnly, Closing, Local, WithSocket,
       WithFrame
  <2>4. ConnectedHere'
    BY <1>18 DEF connectSocket, Goto, localVars, clone, frameVars, SessionInv,
       ConnectedHere, Places, Role, Carries, Locked, WorkerOnly, Closing,
       Local, WithSocket, WithFrame
  <2>5. NotYetTold'
    BY <1>18 DEF connectSocket, Goto, localVars, clone, socketVars, SessionInv,
       NotYetTold, ObjectTypes, Places, Role, Carries, Locked, WorkerOnly,
       Closing, Local, WithSocket, WithFrame
  <2>6. InTable'
    BY <1>18 DEF connectSocket, Goto, localVars, clone, socketVars, SessionInv,
       InTable, NotYetTold, ObjectTypes
  <2> QED BY <2>2, <2>3, <2>4, <2>5, <2>6 DEF SessionInv
<1>19. ASSUME NEW c \in Connectors, ConnectEx(c) PROVE SessionInv'
  <2>1. /\ pc[c] \in Posting /\ told[socket[c]] = "nothing" /\ socket[c] \in Sockets
        /\ c \notin Workers /\ entireSynch = c
    BY <1>19 DEF ConnectEx, Posting, SessionInv, NotYetTold, Local, WithSocket,
       Places, Locked
  <2>2. PICK s \in Sockets : s = socket[c] /\ told[s] = "nothing"
    BY <2>1
  <2>3. ASSUME NEW u \in Threads \ {c}, pc[u] \in {"inserting", "ConnectEx"}
        PROVE  FALSE
    <3>1. u \notin Workers
      BY <2>3 DEF Places, Role
    <3> QED BY <2>1, <2>3, <3>1, AloneInside DEF WithSocket
  <2>4. /\ told'[s] \in {"nothing", "asked"} /\ \A r \in Sockets \ {s} : told'[r] = told[r]
        /\ UNCHANGED <<life, theASSocks>>
    BY <1>19, <2>2 DEF ConnectEx, socketVars, ObjectTypes
  <2>5. /\ pc'[c] \in {"idle", "releaseSocket"}
        /\ \A u \in Threads \ {c} : pc'[u] = pc[u] /\ socket'[u] = socket[u]
    BY <1>19 DEF ConnectEx, Posted, Refused, Return, Goto
  <2>6. \A u \in Threads : pc[u] \in WithSocket => socket[u] \in Sockets
    BY DEF Local
  <2>7. s \in theASSocks /\ life[s] = "live"
    <3>1. pc[c] = "ConnectEx" /\ c \notin Clients
      BY <1>19 DEF ConnectEx
    <3> QED BY <2>2, <3>1, UserInMap DEF WithSocket, UidInv, Alive
  <2>8. ReadPending' /\ AnswerDue'
    <3>2. \A f \in Frames : Answers(f) => io[f].sock \in Sockets \ {s}
      BY <2>2, AnswerInMap DEF SessionInv, AnswerDue, ObjectTypes
    <3>3. \A f \in Frames : Pending(f) => io[f].sock \in Sockets
      BY PendingInMap DEF ObjectTypes
    <3>4. CASE Refused(c) /\ UNCHANGED told
      BY <2>1, <3>4, RefusedTold, FramesTold
    <3>5. ASSUME told' = [told EXCEPT ![s] = "asked"]
          PROVE  told'[s] = "asked" /\ \A r \in Sockets \ {s} : told'[r] = told[r]
      BY <3>5 DEF ObjectTypes
    <3>6. CASE Refused(c) /\ told' = [told EXCEPT ![s] = "asked"]
      <4>1. NoNewRequest
        BY <2>1, <3>6, RefusedTold
      <4>2. ReadPending'
        BY <2>2, <3>3, <3>5, <3>6, <4>1
        DEF SessionInv, NoNewRequest, ReadPending, Session
      <4>3. AnswerDue'
        BY <3>2, <3>5, <3>6, <4>1 DEF SessionInv, NoNewRequest, AnswerDue
      <4> QED BY <4>2, <4>3
    <3>7. CASE Posted(c, "connect") /\ told' = [told EXCEPT ![s] = "asked"]
      <4>1. PICK f \in Frames : f = op[c]
        BY <2>1, PostsFrame
      <4>2. /\ io'[f].sock = s /\ io'[f].optype = "connect"
            /\ \A g \in Frames \ {f} :
                 /\ Pending(g)' => /\ Pending(g) /\ io'[g].sock = io[g].sock
                                   /\ io'[g].optype = io[g].optype
                 /\ Answers(g)' => Answers(g) /\ io'[g].sock = io[g].sock
        BY <2>1, <2>2, <3>7, <4>1, RequestAdded
      <4>3. ReadPending'
        BY <2>2, <3>3, <3>5, <3>7, <4>2 DEF SessionInv, ReadPending, Session
      <4>4. AnswerDue'
        BY <3>2, <3>5, <3>7, <4>2 DEF SessionInv, AnswerDue
      <4> QED BY <4>3, <4>4
    <3> QED BY <1>19, <2>2, <3>4, <3>6, <3>7 DEF ConnectEx
  <2>9. Reading'
    BY <2>2, <2>4, <2>5, <2>6 DEF SessionInv, Reading, Session, WithSocket
  <2>10. ConnectedHere'
    <3>1. CASE Posted(c, "connect")
      <4>1. \A u \in Workers : pc'[u] = "connected" =>
               /\ u # c /\ pc[u] = "connected" /\ socket'[u] = socket[u]
               /\ op'[u] = op[u] /\ op[u] \in Frames \ {op[c]}
        BY <2>1, <3>1 DEF Posted, Return, Goto, Posting, Local, WithFrame, FrameInv,
           FrameOwnership
      <4>2. PICK f \in Frames : f = op[c]
        BY <2>1, PostsFrame
      <4>3. \A g \in Frames \ {f} : Answers(g)' => io'[g].sock = io[g].sock
        BY <2>1, <3>1, <4>2, RequestAdded
      <4>4. \A u \in Workers : pc'[u] = "connected" => io'[op[u]].sock = io[op[u]].sock
        BY <4>1, <4>2, <4>3 DEF Answers
      <4> QED BY <4>1, <4>4 DEF SessionInv, ConnectedHere
    <3>2. CASE Refused(c)
      <4>1. \A u \in Workers : pc'[u] = "connected" =>
               pc[u] = "connected" /\ op'[u] = op[u] /\ socket'[u] = socket[u]
        BY <3>2 DEF Refused, Goto
      <4> QED BY <2>1, <3>2, <4>1, RefusedTold, ConnectedKept
    <3> QED BY <1>19, <3>1, <3>2 DEF ConnectEx
  <2>11. NotYetTold'
    BY <2>3, <2>4, <2>5, <2>6, <2>7 DEF SessionInv, NotYetTold, WithSocket
  <2>12. InTable'
    BY <2>4, <2>7 DEF SessionInv, InTable, Session
  <2> QED BY <2>8, <2>9, <2>10, <2>11, <2>12 DEF SessionInv
<1>20. ASSUME NEW c \in Clients, NEW s \in Sockets, postingSend(c, s)
       PROVE  SessionInv'
  <2>1. NoNewRequest
    <3>1. UNCHANGED io
      BY <1>20 DEF postingSend, frameVars, retrieveIOFrame
    <3>2. \A u \in Workers : Dispatches(u)' => Dispatches(u) /\ op'[u] = op[u]
      BY <1>20 DEF postingSend, Goto, Dispatches, Places, Role
    <3>3. \A u \in Workers : pc'[u] = "connected" =>
             /\ op'[u] = op[u]
             /\ pc[u] = "connected" \/ (Dispatches(u) /\ io[op[u]].optype = "connect")
      BY <1>20 DEF postingSend, Goto, Dispatches, Places, Role
    <3> QED BY <3>1, <3>2, <3>3, SameRequests
  <2>2. ReadPending' /\ AnswerDue'
    <3>1. UNCHANGED told
      BY <1>20 DEF postingSend, notifyReleaseSocket
    <3> QED BY <2>1, <3>1, FramesTold
  <2>3. Reading'
    BY <1>20 DEF postingSend, Goto, retrieveIOFrame, SessionInv, Reading,
       Places, Role, Carries, Locked, WorkerOnly, Closing, Local, WithSocket,
       WithFrame
  <2>4. ConnectedHere'
    BY <1>20 DEF postingSend, Goto, retrieveIOFrame, frameVars, SessionInv,
       ConnectedHere, Places, Role, Carries, Locked, WorkerOnly, Closing,
       Local, WithSocket, WithFrame
  <2>5. NotYetTold'
    BY <1>20 DEF postingSend, Goto, retrieveIOFrame, socketVars, SessionInv,
       NotYetTold, ObjectTypes, Places, Role, Carries, Locked, WorkerOnly,
       Closing, Local, WithSocket, WithFrame
  <2>6. InTable'
    BY <1>20 DEF postingSend, Goto, retrieveIOFrame, socketVars, SessionInv,
       InTable, NotYetTold, ObjectTypes
  <2> QED BY <2>2, <2>3, <2>4, <2>5, <2>6 DEF SessionInv
<1>21. ASSUME NEW c \in Clients, WSASend(c) PROVE SessionInv'
  <2>1. pc[c] \in Posting /\ UNCHANGED told
    BY <1>21 DEF WSASend, Posting
  <2>2. ReadPending' /\ AnswerDue'
    <3>1. CASE Posted(c, "write")
      BY <1>21, <2>1, <3>1, PostedTold DEF WSASend, SessionInv, Reading
    <3>2. CASE Refused(c)
      BY <2>1, <3>2, RefusedTold, FramesTold
    <3> QED BY <1>21, <3>1, <3>2 DEF WSASend
  <2>3. Reading'
    BY <1>21 DEF WSASend, Goto, Return, Posted, Refused, Unlock, SessionInv,
       Reading, Places, Role, Carries, Locked, WorkerOnly, Closing, Local,
       WithSocket, WithFrame
  <2>4. ConnectedHere'
    <3>1. CASE Posted(c, "write")
      <4>1. \A u \in Workers : pc'[u] = "connected" =>
               /\ u # c /\ pc[u] = "connected" /\ socket'[u] = socket[u]
               /\ op'[u] = op[u] /\ op[u] \in Frames \ {op[c]}
        BY <2>1, <3>1 DEF Posted, Return, Goto, Posting, Local, WithFrame, FrameInv,
           FrameOwnership
      <4>2. PICK f \in Frames : f = op[c]
        BY <2>1, PostsFrame
      <4>3. \A g \in Frames \ {f} : Answers(g)' => io'[g].sock = io[g].sock
        BY <2>1, <3>1, <4>2, RequestAdded
      <4>4. \A u \in Workers : pc'[u] = "connected" => io'[op[u]].sock = io[op[u]].sock
        BY <4>1, <4>2, <4>3 DEF Answers
      <4> QED BY <4>1, <4>4 DEF SessionInv, ConnectedHere
    <3>2. CASE Refused(c)
      <4>1. \A u \in Workers : pc'[u] = "connected" =>
               pc[u] = "connected" /\ op'[u] = op[u] /\ socket'[u] = socket[u]
        BY <3>2 DEF Refused, Goto
      <4> QED BY <2>1, <3>2, <4>1, RefusedTold, ConnectedKept
    <3> QED BY <1>21, <3>1, <3>2 DEF WSASend
  <2>5. NotYetTold'
    BY <1>21 DEF WSASend, Goto, Return, Posted, Refused, Unlock, socketVars,
       SessionInv, NotYetTold, ObjectTypes, Places, Role, Carries, Locked,
       WorkerOnly, Closing, Local, WithSocket, WithFrame
  <2>6. InTable'
    BY <1>21 DEF WSASend, Goto, Return, Posted, Refused, Unlock, socketVars,
       SessionInv, InTable, NotYetTold, ObjectTypes
  <2> QED BY <2>2, <2>3, <2>4, <2>5, <2>6 DEF SessionInv
<1>22. ASSUME NEW c \in Clients, NEW s \in Sockets, disconnectSocket(c, s)
       PROVE  SessionInv'
  <2>1. NoNewRequest
    <3>1. UNCHANGED io
      BY <1>22 DEF disconnectSocket, frameVars, retrieveIOFrame
    <3>2. \A u \in Workers : Dispatches(u)' => Dispatches(u) /\ op'[u] = op[u]
      BY <1>22 DEF disconnectSocket, Goto, Dispatches, Places, Role
    <3>3. \A u \in Workers : pc'[u] = "connected" =>
             /\ op'[u] = op[u]
             /\ pc[u] = "connected" \/ (Dispatches(u) /\ io[op[u]].optype = "connect")
      BY <1>22 DEF disconnectSocket, Goto, Dispatches, Places, Role
    <3> QED BY <3>1, <3>2, <3>3, SameRequests
  <2>2. ReadPending' /\ AnswerDue'
    <3>1. UNCHANGED told
      BY <1>22 DEF disconnectSocket, notifyReleaseSocket
    <3> QED BY <2>1, <3>1, FramesTold
  <2>3. Reading'
    BY <1>22 DEF disconnectSocket, Goto, Current, Lookup, SessionInv, Reading,
       Places, Role, Carries, Locked, WorkerOnly, Closing, Local, WithSocket,
       WithFrame
  <2>4. ConnectedHere'
    BY <1>22 DEF disconnectSocket, Goto, Current, Lookup, frameVars,
       SessionInv, ConnectedHere, Places, Role, Carries, Locked, WorkerOnly,
       Closing, Local, WithSocket, WithFrame
  <2>5. NotYetTold'
    BY <1>22 DEF disconnectSocket, Goto, Current, Lookup, socketVars,
       SessionInv, NotYetTold, ObjectTypes, Places, Role, Carries, Locked,
       WorkerOnly, Closing, Local, WithSocket, WithFrame
  <2>6. InTable'
    BY <1>22 DEF disconnectSocket, Goto, Current, Lookup, socketVars,
       SessionInv, InTable, NotYetTold, ObjectTypes
  <2> QED BY <2>2, <2>3, <2>4, <2>5, <2>6 DEF SessionInv
<1>23. ASSUME NEW f \in Frames, Completes(f) PROVE SessionInv'
  <2>1. NoNewRequest
    <3>1. ASSUME NEW g \in Frames
          PROVE  /\ io'[g].state # "user" => io[g].state # "user"
                 /\ io'[g].sock = io[g].sock /\ io'[g].optype = io[g].optype
      BY <1>23, EndedBySystem
    <3>2. \A u \in Workers :
             /\ Dispatches(u)' => Dispatches(u) /\ op'[u] = op[u]
             /\ pc'[u] = "connected" => pc[u] = "connected" /\ op'[u] = op[u]
      BY <1>23 DEF Completes, localVars, Dispatches
    <3> QED BY <3>1, <3>2, RequestsGoOn
  <2>2. ReadPending' /\ AnswerDue'
    <3>1. UNCHANGED told
      BY <1>23 DEF Completes, notifyReleaseSocket
    <3> QED BY <2>1, <3>1, FramesTold
  <2>3. Reading'
    BY <1>23 DEF Completes, localVars, SessionInv, Reading, Places, Role,
       Carries, Locked, WorkerOnly, Closing, Local, WithSocket, WithFrame
  <2>4. ConnectedHere'
    <3>1. \A u \in Workers : pc'[u] = "connected" =>
             pc[u] = "connected" /\ op'[u] = op[u] /\ socket'[u] = socket[u]
      BY <1>23 DEF Completes, localVars
    <3> QED BY <2>1, <3>1, ConnectedKept
  <2>5. NotYetTold'
    BY <1>23 DEF Completes, localVars, socketVars, SessionInv, NotYetTold,
       ObjectTypes, Places, Role, Carries, Locked, WorkerOnly, Closing, Local,
       WithSocket, WithFrame
  <2>6. InTable'
    BY <1>23 DEF Completes, localVars, socketVars, SessionInv, InTable,
       NotYetTold, ObjectTypes
  <2> QED BY <2>2, <2>3, <2>4, <2>5, <2>6 DEF SessionInv
<1>24. CASE UNCHANGED vars
  <2>1. NoNewRequest
    BY <1>24 DEF vars, frameVars, localVars, NoNewRequest, Pending, Answers, Dispatches
  <2>2. ReadPending' /\ AnswerDue'
    BY <1>24, <2>1, FramesTold DEF vars
  <2> QED
    BY <1>24, <2>2 DEF vars, localVars, socketVars, frameVars, SessionInv, Reading,
       ConnectedHere, NotYetTold, InTable
<1> QED
  BY <1>1, <1>2, <1>3, <1>4, <1>5, <1>6, <1>7, <1>8, <1>9, <1>10, <1>11, <1>12,
     <1>13, <1>14, <1>15, <1>16, <1>17, <1>18, <1>19, <1>20, <1>21, <1>22,
     <1>23, <1>24 DEF Next, WorkerStep, DispatchStep, SocketStep, SharedStep,
     StaleCall
-----------------------------------------------------------------------------
LEMMA SessionInvariant ==
  ASSUME ~ ReuseStale
  PROVE  Spec => [](SocketInv /\ SessionInv)
<1>1. Spec => []SocketInv
  BY SocketInvariant
<1>2. SocketInv /\ SocketInv' /\ SessionInv /\ [Next]_vars => SessionInv'
  BY StepSessions
<1> QED
  BY <1>1, <1>2, InitSessions, PTL DEF Spec

(* notifyMessage comes only between the notification that opened the          *)
(* connection and notifyReleaseSocket.                                        *)
THEOREM MessagesComeInSession ==
  ASSUME ~ ReuseStale
  PROVE  Spec => []MessageInSession
<1>1. SocketInv /\ SessionInv => MessageInSession
  BY Roles DEF SessionInv, Reading, Session, MessageInSession
<1> QED
  BY <1>1, SessionInvariant, PTL

(* The table of connections that the notifications describe.  A step that     *)
(* tells nothing new, or nothing the table has, is a stutter.                 *)

LEMMA KeyInTable ==
  ASSUME SocketInv, NEW s \in theASSocks
  PROVE  uid[s] \in 0 .. PrototypeUid + Cardinality(Sockets)
<1>1. s \in Constructed /\ uid[s] \in Nat
  BY DEF SocketInv, BasicInv, UidInv, Alive, Constructed, TInv, ObjectTypes
<1> QED
  BY <1>1, ConstructedFinite
  DEF SocketInv, BasicInv, UidInv, InRange, Numbers, PrototypeUid, TInv, UidTypes

LEMMA SameTable ==
  ASSUME \A s \in Sockets : /\ told'[s] \in Session <=> told[s] \in Session
                            /\ told[s] \in Session => uid'[s] = uid[s]
                            /\ told'[s] = "released" <=> told[s] = "released"
  PROVE  UNCHANGED Table!vars
BY DEF Table!vars, Told, Session

LEMMA SocketOpens ==
  ASSUME SocketInv, SessionInv, NEW s \in Sockets, told[s] \in {"nothing", "asked"},
         life[s] = "live", uid[s] \in 0 .. PrototypeUid + Cardinality(Sockets),
         NEW what \in Session, told' = [told EXCEPT ![s] = what], UNCHANGED uid
  PROVE  Table!Next
<1>1. told'[s] = what /\ \A r \in Sockets \ {s} : told'[r] = told[r]
  BY DEF SocketInv, BasicInv, TInv, ObjectTypes
<1>2. \A r \in Sockets : told[r] \in Session => r # s /\ uid[r] # uid[s]
  BY DEF Session, SessionInv, InTable, SocketInv, BasicInv, UidInv, Alive, Distinct,
     Holds
<1>3. Table!Open(uid[s], s)
  BY <1>1, <1>2 DEF Table!Open, Told, Session
<1> QED
  BY <1>3 DEF Table!Next

LEMMA StepTable ==
  ASSUME SocketInv, SessionInv, [Next]_vars
  PROVE  [Table!Next]_(Table!vars)
<1> USE ServiceAssumption, Roles DEF SocketInv, BasicInv, TInv, LocalTypes
<1>1. ASSUME NEW w \in Workers, NEW f \in Frames, GetQueuedCompletionStatus(w,
   f) PROVE [Table!Next]_(Table!vars)
  <2>1. UNCHANGED <<told, uid>>
    BY <1>1 DEF GetQueuedCompletionStatus, socketVars
  <2> QED BY <2>1, SameTable
<1>2. ASSUME NEW w \in Workers, dispatchCompletion(w) PROVE
   [Table!Next]_(Table!vars)
  <2>1. UNCHANGED <<told, uid>>
    BY <1>2 DEF dispatchCompletion, socketVars
  <2> QED BY <2>1, SameTable
<1>3. ASSUME NEW w \in Workers, Disappeared(w) PROVE [Table!Next]_(Table!vars)
  <2>1. UNCHANGED <<told, uid>>
    BY <1>3 DEF Disappeared, socketVars
  <2> QED BY <2>1, SameTable
<1>4. ASSUME NEW w \in Workers, dispatchError(w) PROVE
   [Table!Next]_(Table!vars)
  <2>1. UNCHANGED uid
    BY <1>4 DEF dispatchError, socketVars
  <2>2. CASE UNCHANGED told
    BY <2>1, <2>2, SameTable
  <2>3. ASSUME NEW s \in Lookup(io[op[w]].key), io[op[w]].optype = "connect",
               told' = [told EXCEPT ![s] = "refused"]
        PROVE  UNCHANGED Table!vars
    <3>1. Dispatches(w) /\ Pending(op[w])
      BY <1>4 DEF dispatchError, Dispatches, Pending
    <3>2. s = io[op[w]].sock /\ s \in Sockets /\ op[w] \in Frames
      <4>1. Lookup(io[op[w]].key) = {io[op[w]].sock} /\ op[w] \in Frames
        BY <3>1, LookupFinds
      <4> QED BY <2>3, <4>1 DEF ObjectTypes, Lookup
    <3>3. told[s] = "asked"
      BY <2>3, <3>1, <3>2 DEF SessionInv, AnswerDue, Answers
    <3>4. told'[s] = "refused" /\ \A r \in Sockets \ {s} : told'[r] = told[r]
      BY <2>3, <3>2 DEF ObjectTypes
    <3> QED BY <2>1, <3>2, <3>3, <3>4, SameTable DEF Session
  <2> QED BY <1>4, <2>2, <2>3 DEF dispatchError, notifyConnectingResult
<1>5. ASSUME NEW w \in Workers, Connected(w) PROVE [Table!Next]_(Table!vars)
  <2>1. PICK s \in Sockets : s = socket[w] /\ s \in theASSocks
    BY <1>5, UserInMap DEF Connected, WithSocket, ObjectTypes
  <2>2. told[s] = "asked" /\ life[s] = "live" /\ UNCHANGED uid
    <3>1. op[w] \in Frames /\ Answers(op[w]) /\ io[op[w]].sock = s
      BY <1>5, <2>1 DEF Connected, Local, WithFrame, Answers, SessionInv, ConnectedHere
    <3> QED BY <1>5, <2>1, <3>1 DEF Connected, socketVars, SessionInv, AnswerDue,
               UidInv, Alive
  <2>3. CASE told' = [told EXCEPT ![s] = "connected"]
    BY <2>1, <2>2, <2>3, KeyInTable, SocketOpens DEF Session
  <2>4. CASE told' = [told EXCEPT ![s] = "refused"]
    <3>1. told'[s] = "refused" /\ \A r \in Sockets \ {s} : told'[r] = told[r]
      BY <2>4 DEF ObjectTypes
    <3> QED BY <2>2, <3>1, SameTable DEF Session
  <2> QED BY <1>5, <2>1, <2>3, <2>4 DEF Connected, notifyConnectingResult
<1>6. ASSUME NEW w \in Workers, Message(w) PROVE [Table!Next]_(Table!vars)
  <2>1. UNCHANGED <<told, uid>>
    BY <1>6 DEF Message, socketVars
  <2> QED BY <2>1, SameTable
<1>7. ASSUME NEW t \in Threads, disconnect(t) PROVE [Table!Next]_(Table!vars)
  <2>1. UNCHANGED <<told, uid>>
    BY <1>7 DEF disconnect, socketVars
  <2> QED BY <2>1, SameTable
<1>8. ASSUME NEW t \in Threads, closesocket(t) PROVE [Table!Next]_(Table!vars)
  <2>1. UNCHANGED <<told, uid>>
    BY <1>8 DEF closesocket, socketVars
  <2> QED BY <2>1, SameTable
<1>9. ASSUME NEW t \in Threads, setClosed(t) PROVE [Table!Next]_(Table!vars)
  <2>1. UNCHANGED <<told, uid>>
    BY <1>9 DEF setClosed, socketVars
  <2> QED BY <2>1, SameTable
<1>10. ASSUME NEW w \in Workers, postingRead(w) PROVE [Table!Next]_(Table!vars)
  <2>1. UNCHANGED <<told, uid>>
    BY <1>10 DEF postingRead, socketVars
  <2> QED BY <2>1, SameTable
<1>11. ASSUME NEW t \in Threads, WSARecv(t) PROVE [Table!Next]_(Table!vars)
  <2>1. UNCHANGED <<told, uid>>
    BY <1>11 DEF WSARecv, socketVars
  <2> QED BY <2>1, SameTable
<1>12. ASSUME NEW t \in Threads, releaseSocket(t) PROVE
   [Table!Next]_(Table!vars)
  <2>1. UNCHANGED <<told, uid>>
    BY <1>12 DEF releaseSocket, socketVars
  <2> QED BY <2>1, SameTable
<1>13. ASSUME NEW t \in Threads, Erase(t) PROVE [Table!Next]_(Table!vars)
  <2>1. PICK s \in Sockets : s = socket[t] /\ s \in theASSocks
    BY <1>13 DEF Erase, RefInv, InMap, Local, WithSocket, ObjectTypes
  <2>2. told' = [told EXCEPT ![s] = "released"] /\ UNCHANGED uid
    BY <1>13, <2>1 DEF Erase, notifyReleaseSocket
  <2>3. told'[s] = "released" /\ \A r \in Sockets \ {s} : told'[r] = told[r]
    BY <2>2 DEF ObjectTypes
  <2>4. CASE told[s] \in Session
    <3>1. uid[s] \in 0 .. PrototypeUid + Cardinality(Sockets)
      BY <2>1, KeyInTable
    <3>2. Table!Close(uid[s], s)
      BY <2>2, <2>3, <2>4 DEF Table!Close, Told, Session
    <3> QED BY <3>1, <3>2 DEF Table!Next
  <2>5. CASE told[s] \notin Session
    <3>1. Table!Abandon(s)
      BY <2>2, <2>3, <2>5 DEF Table!Abandon, Told, Session
    <3> QED BY <3>1 DEF Table!Next
  <2> QED BY <2>4, <2>5
<1>14. ASSUME NEW w \in Workers, ReleaseFrame(w) PROVE
   [Table!Next]_(Table!vars)
  <2>1. UNCHANGED <<told, uid>>
    BY <1>14 DEF ReleaseFrame, socketVars
  <2> QED BY <2>1, SameTable
<1>15. ASSUME NEW a \in Acceptors, NEW h \in Handles, Accept(a, h) PROVE
   [Table!Next]_(Table!vars)
  <2>1. UNCHANGED <<told, uid>>
    BY <1>15 DEF Accept, socketVars
  <2> QED BY <2>1, SameTable
<1>16. ASSUME NEW a \in Acceptors, registerSocket(a) PROVE
   [Table!Next]_(Table!vars)
  <2>1. PICK s \in Sockets : clone(s)
    BY <1>16 DEF registerSocket
  <2>2. told[s] = "nothing" /\ UNCHANGED told /\ \A r \in Sockets \ {s} : uid'[r] = uid[r]
    BY <1>16, <2>1 DEF registerSocket, clone, SessionInv, NotYetTold, ObjectTypes
  <2> QED BY <2>2, SameTable DEF Session
<1>17. ASSUME NEW t \in Threads, Insert(t) PROVE [Table!Next]_(Table!vars)
  <2>1. PICK s \in Sockets : s = socket[t]
    BY <1>17 DEF Insert, Local, WithSocket
  <2>2. /\ told[s] = "nothing" /\ life[s] = "live" /\ UNCHANGED uid
    BY <1>17, <2>1 DEF Insert, SessionInv, NotYetTold, UidInv, Alive
  <2>3. CASE UNCHANGED told
    BY <2>2, <2>3, SameTable
  <2>4. CASE told' = [told EXCEPT ![s] = "registered"]
    <3>1. uid[s] \in 0 .. PrototypeUid + Cardinality(Sockets)
      <4>1. s \in Constructed /\ uid[s] \in Nat
        BY <2>2 DEF Constructed, ObjectTypes
      <4> QED BY <4>1, ConstructedFinite DEF UidInv, InRange, Numbers, PrototypeUid,
                 UidTypes
    <3> QED BY <2>2, <2>4, <3>1, SocketOpens DEF Session
  <2> QED BY <1>17, <2>1, <2>3, <2>4 DEF Insert, notifyRegisterSocket
<1>18. ASSUME NEW c \in Connectors, NEW h \in Handles, connectSocket(c, h)
   PROVE [Table!Next]_(Table!vars)
  <2>1. UNCHANGED told
    BY <1>18 DEF connectSocket
  <2>2. \A r \in Sockets : told[r] \in Session => uid'[r] = uid[r]
    <3>1. CASE UNCHANGED uid
      BY <3>1
    <3>2. ASSUME NEW s \in Sockets, clone(s)
          PROVE  \A r \in Sockets : told[r] \in Session => uid'[r] = uid[r]
      BY <3>2 DEF clone, SessionInv, NotYetTold, ObjectTypes, Session
    <3> QED BY <1>18, <3>1, <3>2 DEF connectSocket
  <2> QED BY <2>1, <2>2, SameTable
<1>19. ASSUME NEW c \in Connectors, ConnectEx(c) PROVE
   [Table!Next]_(Table!vars)
  <2>1. PICK s \in Sockets : s = socket[c] /\ told[s] = "nothing"
    BY <1>19 DEF ConnectEx, SessionInv, NotYetTold, Local, WithSocket
  <2>2. UNCHANGED uid
    BY <1>19 DEF ConnectEx, socketVars
  <2>3. CASE UNCHANGED told
    BY <2>2, <2>3, SameTable
  <2>4. CASE told' = [told EXCEPT ![s] = "asked"]
    <3>1. told'[s] = "asked" /\ \A r \in Sockets \ {s} : told'[r] = told[r]
      BY <2>4 DEF ObjectTypes
    <3> QED BY <2>1, <2>2, <3>1, SameTable DEF Session
  <2> QED BY <1>19, <2>1, <2>3, <2>4 DEF ConnectEx
<1>20. ASSUME NEW c \in Clients, NEW s \in Sockets, postingSend(c, s) PROVE
   [Table!Next]_(Table!vars)
  <2>1. UNCHANGED <<told, uid>>
    BY <1>20 DEF postingSend, socketVars
  <2> QED BY <2>1, SameTable
<1>21. ASSUME NEW c \in Clients, WSASend(c) PROVE [Table!Next]_(Table!vars)
  <2>1. UNCHANGED <<told, uid>>
    BY <1>21 DEF WSASend, socketVars
  <2> QED BY <2>1, SameTable
<1>22. ASSUME NEW c \in Clients, NEW s \in Sockets, disconnectSocket(c, s)
   PROVE [Table!Next]_(Table!vars)
  <2>1. UNCHANGED <<told, uid>>
    BY <1>22 DEF disconnectSocket, socketVars
  <2> QED BY <2>1, SameTable
<1>23. ASSUME NEW f \in Frames, Completes(f) PROVE [Table!Next]_(Table!vars)
  <2>1. UNCHANGED <<told, uid>>
    BY <1>23 DEF Completes, socketVars
  <2> QED BY <2>1, SameTable
<1>24. CASE UNCHANGED vars
  BY <1>24, SameTable DEF vars, socketVars
<1> QED
  BY <1>1, <1>2, <1>3, <1>4, <1>5, <1>6, <1>7, <1>8, <1>9, <1>10, <1>11, <1>12,
     <1>13, <1>14, <1>15, <1>16, <1>17, <1>18, <1>19, <1>20, <1>21, <1>22,
     <1>23, <1>24 DEF Next, WorkerStep, DispatchStep, SocketStep, SharedStep,
     StaleCall

(* The service keeps the promise of SessionTable: a connection is opened at   *)
(* most once, under a uid no open connection has, closed under that uid, and  *)
(* heard of no more once it ended.                                            *)
THEOREM ServiceImplementsSessionTable ==
  ASSUME ~ ReuseStale
  PROVE  Spec => ImplementsSessionTable
<1>1. Init => Table!Init
  BY DEF Init, Table!Init, Told
<1>2. SocketInv /\ SessionInv /\ [Next]_vars => [Table!Next]_(Table!vars)
  BY StepTable
<1> QED
  BY <1>1, <1>2, SessionInvariant, PTL DEF Spec, Table!Spec, ImplementsSessionTable
=============================================================================
