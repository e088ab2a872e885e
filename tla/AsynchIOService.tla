--------------------------- MODULE AsynchIOService --------------------------
(* The I/O completion port service of MGServerLib: AsynchIOService.cpp with   *)
(* the socket objects of Asios.h and AsynchSocket.cpp, one action per stretch *)
(* of code between two accesses that other threads can see.                   *)
(*                                                                            *)
(* Worker threads take completions from the port, an acceptor registers       *)
(* accepted sockets, a connector opens outgoing ones, clients send on and     *)
(* disconnect sockets whose descriptor (uid and tick) they were given.  A     *)
(* socket object is constructed once and is its own tick.  Operating system:  *)
(* handles, their association with the port, and the outcome of each request. *)
EXTENDS Naturals, Sequences, FiniteSets, Functions

CONSTANTS Workers, Acceptors, Connectors, Clients,  \* threads, by role
          Sockets,    \* bound: AsynchSocket objects constructed in a behaviour
          Frames,     \* bound: OverlappedOperation objects that `new` may return
          Handles,    \* bound: SOCKET values the operating system hands out
          MaxSends,   \* bound: sends that have not returned their frame yet
          None,
          TornFind,   \* TRUE: an unlocked find may miss while the map changes
          ReuseStale  \* TRUE: a SOCKET value may be reused while a thread that
                      \* read it from sockID before it was closed still has it

Threads == Workers \cup Acceptors \cup Connectors \cup Clients

ASSUME ServiceAssumption ==
  /\ Workers \cap (Acceptors \cup Connectors \cup Clients) = {}
  /\ Acceptors \cap (Connectors \cup Clients) = {}
  /\ Connectors \cap Clients = {}
  /\ None \notin Threads \cup Sockets \cup Frames \cup Handles
  /\ IsFiniteSet(Sockets)
  /\ TornFind \in BOOLEAN /\ ReuseStale \in BOOLEAN

VARIABLES
  uid, sockID, referCount, closed, life,  \* AsynchSocket objects
  theASSocks,                             \* the objects in the map, keyed by uid
  currentNumber, reuseList,               \* the uid generator
  open, assoc,                            \* open handles, completion key of each
  fresh, ioFramePools, io,                \* frames: not yet new'd, pool, fields
  told,                                   \* last notification about each socket
  entireSynch,                            \* owner of the lock
  pc, op, socket, handle                  \* per thread: place and locals

socketVars == <<uid, sockID, referCount, closed, life, theASSocks>>
uidVars    == <<currentNumber, reuseList>>
osVars     == <<open, assoc>>
frameVars  == <<fresh, ioFramePools, io>>
localVars  == <<pc, op, socket, handle>>
vars == <<socketVars, uidVars, osVars, frameVars, told, entireSynch, localVars>>

PrototypeUid == 1   \* GetASPrototype() constructs the prototype first

Held == {uid[s] : s \in {x \in Sockets : life[x] \in {"live", "leaked"}}}

Uids == INSTANCE UidGenerator WITH start <- PrototypeUid, multiple <- 1,
                                   MaxHeld <- Cardinality(Sockets), held <- Held

Labels == {"idle", "dispatchCompletion", "dispatchError", "connected", "message",
           "disconnect", "closesocket", "setClosed", "postingRead", "WSARecv",
           "releaseSocket", "erasing", "releaseIOFrame",
           "registerSocket", "inserting", "ConnectEx", "WSASend"}

(* A frame the application owns: in the pool, not yet new'd, or with a thread. *)
Blank == [state |-> "user", optype |-> "none", sock |-> None, on |-> None,
          key |-> 0, result |-> "none"]

Request(type, s, h) == [state |-> "posted", optype |-> type, sock |-> s, on |-> h,
                        key |-> 0, result |-> "none"]

(* What the port holds for a request that ended: the key of its handle.       *)
Completion(f, r) == [io[f] EXCEPT !.state = "queued", !.result = r,
                                  !.key = assoc[io[f].on], !.on = None]

Init ==
  /\ uid = [s \in Sockets |-> 0]
  /\ sockID = [s \in Sockets |-> None]
  /\ referCount = [s \in Sockets |-> 0]
  /\ closed = [s \in Sockets |-> FALSE]
  /\ life = [s \in Sockets |-> "unborn"]
  /\ theASSocks = {}
  /\ currentNumber = PrototypeUid /\ reuseList = <<>>
  /\ open = {} /\ assoc = [h \in Handles |-> 0]
  /\ fresh = Frames /\ ioFramePools = <<>>
  /\ io = [f \in Frames |-> Blank]
  /\ told = [s \in Sockets |-> "nothing"]
  /\ entireSynch = None
  /\ pc = [t \in Threads |-> "idle"]
  /\ op = [t \in Threads |-> None]
  /\ socket = [t \in Threads |-> None]
  /\ handle = [t \in Threads |-> None]
-----------------------------------------------------------------------------
(* Helpers.                                                                   *)
Goto(t, label) == pc' = [pc EXCEPT ![t] = label]

(* The thread returns to its loop, or to its caller.                          *)
Return(t) == /\ Goto(t, "idle")
             /\ op' = [op EXCEPT ![t] = None]
             /\ socket' = [socket EXCEPT ![t] = None]
             /\ handle' = [handle EXCEPT ![t] = None]

Lookup(key) == {s \in theASSocks : uid[s] = key}

(* The reference count of a socket object.                                    *)
enterIO_missing(s) == UNCHANGED referCount
enterIO_readAndWrite(s) == referCount' = [referCount EXCEPT ![s] = @ + 2]
enterIO(s) == referCount' = [referCount EXCEPT ![s] = @ + 1]

lastReference_early(s) == referCount[s] <= 2
lastReference(s) == referCount[s] = 1

(* The notifications of INetworkReceiver.  The application answers the last   *)
(* one with releaseSocketUniqueId, as MGServerReceiver does.                  *)
notifyRegisterSocket_dropped(s) == UNCHANGED told
notifyRegisterSocket(s) == told' = [told EXCEPT ![s] = "registered"]

notifyConnectingResult_dropped(s, result) == UNCHANGED told
notifyConnectingResult(s, result) == told' = [told EXCEPT ![s] = result]

notifyReleaseSocket_dropped(s) == UNCHANGED told /\ Uids!release(uid[s])
notifyReleaseSocket_uidTwice(s) == /\ told' = [told EXCEPT ![s] = "released"]
                                   /\ reuseList' = reuseList \o <<uid[s], uid[s]>>
                                   /\ UNCHANGED currentNumber
notifyReleaseSocket(s) == /\ told' = [told EXCEPT ![s] = "released"]
                          /\ Uids!release(uid[s])

(* The pool of frames: the oldest one is taken, else a new one is made.       *)
popFrame_forgotten == UNCHANGED ioFramePools
popFrame == ioFramePools' = Tail(ioFramePools)

retrieveIOFrame(f) ==
  /\ \/ /\ ioFramePools # <<>>
        /\ f = Head(ioFramePools)
        /\ popFrame
        /\ UNCHANGED fresh
     \/ /\ ioFramePools = <<>>
        /\ f \in fresh
        /\ fresh' = fresh \ {f}
        /\ UNCHANGED ioFramePools
  /\ UNCHANGED io

releaseIOFrame(f) ==
  /\ ioFramePools' = Append(ioFramePools, f)
  /\ io' = [io EXCEPT ![f] = Blank]
  /\ UNCHANGED fresh

(* A new AsynchSocket takes a uid; its tick makes it a different object from  *)
(* every earlier one with the same uid.                                       *)
clone(s) == /\ life[s] = "unborn"
            /\ \E n \in 0 .. currentNumber + 1 :
                 Uids!retrieve(n) /\ uid' = [uid EXCEPT ![s] = n]

(* accept() or socket() returns a value that is not open.                     *)
NewHandle(h) == /\ h \in Handles \ open
                /\ ReuseStale \/ \A t \in Threads : handle[t] # h
                /\ open' = open \cup {h}
-----------------------------------------------------------------------------
(* Worker threads: AsynchIOService::Run and what it calls.                    *)

(* GetQueuedCompletionStatus hands a completion to an idle worker.            *)
GetQueuedCompletionStatus(w, f) ==
  /\ pc[w] = "idle" /\ io[f].state = "queued"
  /\ io' = [io EXCEPT ![f].state = "user"]
  /\ op' = [op EXCEPT ![w] = f]
  /\ Goto(w, IF io[f].result = "error" THEN "dispatchError"
                                       ELSE "dispatchCompletion")
  /\ UNCHANGED <<socketVars, uidVars, osVars, fresh, ioFramePools, told,
                 entireSynch, socket, handle>>

(* dispatchCompletion finds the socket under the lock and goes on without it. *)
FoundLabel(f) == IF io[f].optype = "connect" THEN "connected"
                 ELSE IF io[f].optype = "write" THEN "releaseSocket"
                 ELSE IF io[f].result = "data" THEN "message" ELSE "disconnect"

dispatchCompletion(w) ==
  /\ pc[w] = "dispatchCompletion" /\ entireSynch = None
  /\ \E s \in Lookup(io[op[w]].key) :
        /\ socket' = [socket EXCEPT ![w] = s]
        /\ Goto(w, FoundLabel(op[w]))
  /\ UNCHANGED <<socketVars, uidVars, osVars, frameVars, told, entireSynch,
                 op, handle>>

(* dispatchError walks the map without the lock.  That is a data race with an *)
(* insert or an erase in progress; of its outcomes, the model has the lookup  *)
(* that works and the one that misses.                                        *)
MapChanging == \E t \in Threads : pc[t] \in {"inserting", "erasing"}

dispatchError(w) ==
  /\ pc[w] = "dispatchError"
  /\ \E s \in Lookup(io[op[w]].key) :
        /\ socket' = [socket EXCEPT ![w] = s]
        /\ IF io[op[w]].optype = "connect" THEN notifyConnectingResult(s, "refused")
                                           ELSE UNCHANGED told
  /\ Goto(w, "releaseSocket")
  /\ UNCHANGED <<socketVars, uidVars, osVars, frameVars, entireSynch, op, handle>>

(* "already disappeared... oops critical error": the frame goes back to the   *)
(* pool, the reference that came with it is not given back.                   *)
Disappeared(w) ==
  /\ \/ pc[w] = "dispatchCompletion" /\ entireSynch = None
     \/ pc[w] = "dispatchError"
  /\ \/ Lookup(io[op[w]].key) = {}
     \/ pc[w] = "dispatchError" /\ TornFind /\ MapChanging
  /\ releaseIOFrame(op[w]) /\ Return(w)
  /\ UNCHANGED <<socketVars, uidVars, osVars, told, entireSynch>>

(* A completed ConnectEx: SO_UPDATE_CONNECT_CONTEXT, then the application is  *)
(* told and the first read is posted with the same frame.                     *)
Connected(w) ==
  /\ pc[w] = "connected"
  /\ \/ /\ notifyConnectingResult(socket[w], "connected")
        /\ Goto(w, "postingRead")
        /\ UNCHANGED <<frameVars, op>>
     \/ /\ notifyConnectingResult(socket[w], "refused")
        /\ releaseIOFrame(op[w])
        /\ op' = [op EXCEPT ![w] = None]
        /\ Goto(w, "releaseSocket")
  /\ UNCHANGED <<socketVars, uidVars, osVars, entireSynch, socket, handle>>

(* handleCompletionOfReceive: notifyMessage; the result, 0 in the base class, *)
(* is up to the socket class of the application.  What notifyMessage calls    *)
(* on the service is a client's call: the worker holds no lock here.          *)
Message(w) ==
  /\ pc[w] = "message"
  /\ Goto(w, "postingRead") \/ Goto(w, "disconnect")
  /\ UNCHANGED <<socketVars, uidVars, osVars, frameVars, told, entireSynch,
                 op, socket, handle>>

(* AsynchSocket::disconnect, called by a worker without the lock and by       *)
(* disconnectSocket with it: sockID is read, then closed, then overwritten.   *)
AfterDisconnect(t) ==
  IF t \in Workers
    THEN /\ Goto(t, "releaseSocket") /\ handle' = [handle EXCEPT ![t] = None]
         /\ UNCHANGED <<entireSynch, op, socket>>
    ELSE entireSynch' = None /\ Return(t)

disconnect(t) ==
  /\ pc[t] = "disconnect"
  /\ \/ /\ sockID[socket[t]] = None
        /\ AfterDisconnect(t)
     \/ /\ sockID[socket[t]] # None
        /\ handle' = [handle EXCEPT ![t] = sockID[socket[t]]]
        /\ Goto(t, "closesocket")
        /\ UNCHANGED <<entireSynch, op, socket>>
  /\ UNCHANGED <<socketVars, uidVars, osVars, frameVars, told>>

(* closesocket cancels the requests on the handle: each is queued at the port *)
(* as an error, with the key of the handle (if it has none, nowhere).         *)
Cancelled(f, h) == io[f].state = "posted" /\ io[f].on = h

closesocket(t) ==
  /\ pc[t] = "closesocket"
  /\ open' = open \ {handle[t]}
  /\ assoc' = [assoc EXCEPT ![handle[t]] = 0]
  /\ io' = [f \in Frames |->
              IF ~ Cancelled(f, handle[t]) THEN io[f]
              ELSE IF assoc[handle[t]] = 0 THEN [io[f] EXCEPT !.on = None]
              ELSE Completion(f, "error")]
  /\ Goto(t, "setClosed")
  /\ UNCHANGED <<socketVars, uidVars, fresh, ioFramePools, told, entireSynch,
                 op, socket, handle>>

forgetSOCKET_missing(s) == UNCHANGED sockID
forgetSOCKET(s) == sockID' = [sockID EXCEPT ![s] = None]

setClosed(t) ==
  /\ pc[t] = "setClosed"
  /\ closed' = [closed EXCEPT ![socket[t]] = TRUE]
  /\ forgetSOCKET(socket[t])
  /\ AfterDisconnect(t)
  /\ UNCHANGED <<uid, referCount, life, theASSocks, uidVars, osVars, frameVars,
                 told>>

(* postingRead copies sockID into the argument of WSARecv, without the lock   *)
(* when a worker calls it.                                                    *)
postingRead(w) ==
  /\ pc[w] = "postingRead"
  /\ handle' = [handle EXCEPT ![w] = sockID[socket[w]]]
  /\ Goto(w, "WSARecv")
  /\ UNCHANGED <<socketVars, uidVars, osVars, frameVars, told, entireSynch,
                 op, socket>>

(* A lock the thread holds on behalf of its caller is freed on return.        *)
Unlock(t) == entireSynch' = IF entireSynch = t THEN None ELSE entireSynch

Posted(t, type) ==
  /\ handle[t] \in open
  /\ io' = [io EXCEPT ![op[t]] = Request(type, socket[t], handle[t])]
  /\ Unlock(t) /\ Return(t)
  /\ UNCHANGED <<fresh, ioFramePools>>

(* The request is refused: frame to the pool, then releaseSocket.             *)
Refused(t) ==
  /\ releaseIOFrame(op[t])
  /\ op' = [op EXCEPT ![t] = None]
  /\ handle' = [handle EXCEPT ![t] = None]
  /\ Goto(t, "releaseSocket")
  /\ UNCHANGED <<entireSynch, socket>>

WSARecv(t) ==
  /\ pc[t] = "WSARecv"
  /\ Posted(t, "read") \/ Refused(t)
  /\ UNCHANGED <<socketVars, uidVars, osVars, told>>

(* The end of releaseSocket, and of the locked methods that call it last; a   *)
(* worker still has the frame to give back, unless postingRead already did.   *)
LeaveReleaseSocket_frameAgain(t) ==
  /\ entireSynch' = None
  /\ Goto(t, "releaseIOFrame")
  /\ socket' = [socket EXCEPT ![t] = None]
  /\ UNCHANGED <<op, handle>>

LeaveReleaseSocket(t) ==
  /\ entireSynch' = None
  /\ IF op[t] = None THEN Return(t)
       ELSE /\ Goto(t, "releaseIOFrame")
            /\ socket' = [socket EXCEPT ![t] = None]
            /\ UNCHANGED <<op, handle>>

(* releaseSocket: exitIO under the lock; the last reference deletes.          *)
releaseSocket(t) ==
  /\ pc[t] = "releaseSocket" /\ entireSynch \in {None, t}
  /\ life[socket[t]] = "live"  \* a deleted object has no count to decrement
  /\ referCount' = [referCount EXCEPT ![socket[t]] = @ - 1]
  /\ IF lastReference(socket[t])
       THEN Goto(t, "erasing") /\ entireSynch' = t /\ UNCHANGED <<op, socket, handle>>
       ELSE LeaveReleaseSocket(t)
  /\ UNCHANGED <<uid, sockID, closed, life, theASSocks, uidVars, osVars,
                 frameVars, told>>

(* The map entry is erased, notifyReleaseSocket runs under the lock and gives *)
(* the uid back (the application's receiver calls releaseSocketUniqueId), and *)
(* the object is deleted.  Nothing closes the handle.                         *)
Erase(t) ==
  /\ pc[t] = "erasing"
  /\ theASSocks' = theASSocks \ Lookup(uid[socket[t]])
  /\ notifyReleaseSocket(socket[t])
  /\ life' = [life EXCEPT ![socket[t]] = "deleted"]
  /\ LeaveReleaseSocket(t)
  /\ UNCHANGED <<uid, sockID, referCount, closed, osVars, frameVars>>

ReleaseFrame(w) ==
  /\ pc[w] = "releaseIOFrame"
  /\ releaseIOFrame(op[w]) /\ Return(w)
  /\ UNCHANGED <<socketVars, uidVars, osVars, told, entireSynch>>
-----------------------------------------------------------------------------
(* Acceptor::Run and registerSocket, which holds the lock throughout.         *)

Accept(a, h) ==
  /\ pc[a] = "idle" /\ NewHandle(h)
  /\ handle' = [handle EXCEPT ![a] = h]
  /\ Goto(a, "registerSocket")
  /\ UNCHANGED <<socketVars, uidVars, assoc, frameVars, told, entireSynch, op, socket>>

(* registerSocket up to the insertion.  If the uid is in the map already, or  *)
(* the handle cannot be associated with the port, it returns and leaves the   *)
(* clone, its uid and the handle behind ("temp code delete as").              *)
registerSocket(a) ==
  /\ pc[a] = "registerSocket" /\ entireSynch = None
  /\ \E s \in Sockets :
       /\ clone(s)
       /\ \/ /\ life' = [life EXCEPT ![s] = "leaked"]
             /\ Return(a)
             /\ UNCHANGED <<sockID, assoc, entireSynch>>
          \/ /\ Lookup(uid'[s]) = {}
             /\ life' = [life EXCEPT ![s] = "live"]
             /\ sockID' = [sockID EXCEPT ![s] = handle[a]]
             /\ assoc' = [assoc EXCEPT ![handle[a]] = uid'[s]]
             /\ socket' = [socket EXCEPT ![a] = s]
             /\ entireSynch' = a
             /\ Goto(a, "inserting")
             /\ UNCHANGED <<op, handle>>
  /\ UNCHANGED <<referCount, closed, theASSocks, open, frameVars, told>>

(* The object enters the map and takes its first reference together with a    *)
(* frame.  An accepted socket is announced before that (notifyRegisterSocket) *)
(* and goes on to its first read; an outgoing one goes on to ConnectEx.       *)
Insert(t) ==
  /\ pc[t] = "inserting"
  /\ theASSocks' = theASSocks \cup {socket[t]}
  /\ enterIO(socket[t])
  /\ \E f \in Frames : retrieveIOFrame(f) /\ op' = [op EXCEPT ![t] = f]
  /\ IF t \in Acceptors
       THEN notifyRegisterSocket(socket[t]) /\ Goto(t, "WSARecv")
       ELSE Goto(t, "ConnectEx") /\ UNCHANGED told
  /\ UNCHANGED <<uid, sockID, closed, life, uidVars, osVars, entireSynch, socket, handle>>
-----------------------------------------------------------------------------
(* connectSocket, which holds the lock throughout.                            *)

(* Up to the insertion.  Without the ConnectEx entry point only the handle is *)
(* left behind; later failures leave the clone behind as well.                *)
connectSocket(c, h) ==
  /\ pc[c] = "idle" /\ entireSynch = None /\ NewHandle(h)
  /\ \/ /\ UNCHANGED <<sockID, uid, life, uidVars, assoc, entireSynch, localVars>>
     \/ \E s \in Sockets :
          /\ clone(s)
          /\ sockID' = [sockID EXCEPT ![s] = h]
          /\ \/ /\ life' = [life EXCEPT ![s] = "leaked"]
                /\ UNCHANGED <<assoc, entireSynch, localVars>>
             \/ /\ Lookup(uid'[s]) = {}
                /\ life' = [life EXCEPT ![s] = "live"]
                /\ assoc' = [assoc EXCEPT ![h] = uid'[s]]
                /\ socket' = [socket EXCEPT ![c] = s]
                /\ handle' = [handle EXCEPT ![c] = h]
                /\ entireSynch' = c
                /\ Goto(c, "inserting")
                /\ UNCHANGED op
  /\ UNCHANGED <<referCount, closed, theASSocks, frameVars, told>>

(* bind and ConnectEx.  A failed bind is reported by the return value; once   *)
(* ConnectEx was called the method returns 0, pending or failed.              *)
ConnectEx(c) ==
  /\ pc[c] = "ConnectEx"
  /\ \/ Refused(c) /\ UNCHANGED told
     \/ /\ told' = [told EXCEPT ![socket[c]] = "asked"]
        /\ Posted(c, "connect") \/ Refused(c)
  /\ UNCHANGED <<socketVars, uidVars, osVars>>
-----------------------------------------------------------------------------
(* Calls on a descriptor the application was given, possibly long ago.        *)
Known(s) == told[s] \notin {"nothing", "asked"}

Current(s) == s \in Lookup(uid[s])   \* the uid is in the map, with this tick

CanSend(s) == /\ Current(s) /\ ~ closed[s]
              /\ Cardinality({f \in Frames : io[f].optype = "write"}) < MaxSends

postingSend(c, s) ==
  /\ pc[c] = "idle" /\ entireSynch = None
  /\ Known(s) /\ CanSend(s)
  /\ enterIO(s)
  /\ \E f \in Frames : retrieveIOFrame(f) /\ op' = [op EXCEPT ![c] = f]
  /\ socket' = [socket EXCEPT ![c] = s]
  /\ handle' = [handle EXCEPT ![c] = sockID[s]]
  /\ entireSynch' = c
  /\ Goto(c, "WSASend")
  /\ UNCHANGED <<uid, sockID, closed, life, theASSocks, uidVars, osVars, told>>

(* Refused: makePacket returned 0 or WSASend failed.                          *)
WSASend(c) ==
  /\ pc[c] = "WSASend"
  /\ Posted(c, "write") \/ Refused(c)
  /\ UNCHANGED <<socketVars, uidVars, osVars, told>>

disconnectSocket(c, s) ==
  /\ pc[c] = "idle" /\ entireSynch = None
  /\ Known(s) /\ Current(s)
  /\ socket' = [socket EXCEPT ![c] = s]
  /\ entireSynch' = c
  /\ Goto(c, "disconnect")
  /\ UNCHANGED <<socketVars, uidVars, osVars, frameVars, told, op, handle>>

(* Either call on a descriptor that names no socket, or one that is gone,     *)
(* returns WSAEINVAL.                                                         *)
StaleCall(c, s) ==
  /\ pc[c] = "idle" /\ entireSynch = None
  /\ ~ Current(s)
  /\ UNCHANGED vars
-----------------------------------------------------------------------------
(* The operating system finishes a request: its completion is queued at the   *)
(* port under the key of the handle.                                          *)
Outcomes(type) == IF type = "read" THEN {"data", "eof", "error"} ELSE {"data", "error"}

Completes(f) ==
  /\ io[f].state = "posted" /\ io[f].on \in open /\ assoc[io[f].on] # 0
  /\ \E r \in Outcomes(io[f].optype) :
       io' = [io EXCEPT ![f] = Completion(f, r)]
  /\ UNCHANGED <<socketVars, uidVars, osVars, fresh, ioFramePools, told,
                 entireSynch, localVars>>
-----------------------------------------------------------------------------
DispatchStep(w) == \/ dispatchCompletion(w) \/ dispatchError(w) \/ Disappeared(w)
                   \/ Connected(w) \/ postingRead(w) \/ ReleaseFrame(w)

WorkerStep(w) == DispatchStep(w) \/ Message(w)

SocketStep(t) == \/ disconnect(t) \/ closesocket(t) \/ setClosed(t)
                 \/ WSARecv(t) \/ releaseSocket(t)

SharedStep(t) == SocketStep(t) \/ Erase(t) \/ Insert(t)

Next ==
  \/ \E w \in Workers : WorkerStep(w) \/ \E f \in Frames : GetQueuedCompletionStatus(w, f)
  \/ \E t \in Threads : SharedStep(t)
  \/ \E a \in Acceptors : registerSocket(a) \/ \E h \in Handles : Accept(a, h)
  \/ \E c \in Connectors : ConnectEx(c) \/ \E h \in Handles : connectSocket(c, h)
  \/ \E c \in Clients : \/ WSASend(c)
                        \/ \E s \in Sockets : \/ postingSend(c, s)
                                              \/ disconnectSocket(c, s)
                                              \/ StaleCall(c, s)
  \/ \E f \in Frames : Completes(f)

Spec == Init /\ [][Next]_vars

(* Threads run on and the port wakes a worker for every completion in its     *)
(* queue.  entireSynch is strongly fair: whoever waits for it gets it if it   *)
(* comes free again and again.  Pending requests finish at some time.         *)
Fairness ==
  /\ \A f \in Frames : /\ SF_vars(\E w \in Workers : GetQueuedCompletionStatus(w, f))
                       /\ WF_vars(Completes(f))
  /\ \A w \in Workers : SF_vars(WorkerStep(w))
  /\ \A t \in Threads : SF_vars(SharedStep(t))
  /\ \A c \in Connectors : WF_vars(ConnectEx(c))
  /\ \A c \in Clients : WF_vars(WSASend(c))

FairSpec == Spec /\ Fairness
-----------------------------------------------------------------------------
FrameFields == [state: {"user", "posted", "queued"},
                optype: {"none", "read", "write", "connect"},
                sock: Sockets \cup {None}, on: Handles \cup {None},
                key: Nat, result: {"none", "data", "eof", "error"}]

(* Types of the objects, the shared containers and the locals.                *)
TypeOK ==
  /\ uid \in [Sockets -> Nat]
  /\ sockID \in [Sockets -> Handles \cup {None}]
  /\ referCount \in [Sockets -> Int]
  /\ closed \in [Sockets -> BOOLEAN]
  /\ life \in [Sockets -> {"unborn", "live", "leaked", "deleted"}]
  /\ theASSocks \in SUBSET Sockets
  /\ currentNumber \in Nat /\ reuseList \in Seq(Nat)
  /\ open \in SUBSET Handles /\ assoc \in [Handles -> Nat]
  /\ fresh \in SUBSET Frames /\ ioFramePools \in Seq(Frames)
  /\ io \in [Frames -> FrameFields]
  /\ told \in [Sockets -> {"nothing", "asked", "registered", "connected",
                           "refused", "released"}]
  /\ entireSynch \in Threads \cup {None}
  /\ pc \in [Threads -> Labels]
  /\ op \in [Threads -> Frames \cup {None}]
  /\ socket \in [Threads -> Sockets \cup {None}]
  /\ handle \in [Threads -> Handles \cup {None}]

(* Where the references to a socket are: requests at the operating system,    *)
(* completions a worker has not looked up yet, and threads between enterIO    *)
(* (or the lookup) and exitIO.  A disconnecting client has none.              *)
Outstanding(s) == {f \in Frames : io[f].state # "user" /\ io[f].sock = s}
Dispatching(s) == {w \in Workers : /\ pc[w] \in {"dispatchCompletion", "dispatchError"}
                                   /\ io[op[w]].sock = s}
Using(s) == {t \in Threads : /\ socket[t] = s
                             /\ pc[t] \notin {"inserting", "erasing"}
                             /\ t \in Clients => op[t] # None \/ pc[t] = "releaseSocket"}
References(s) == Cardinality(Outstanding(s)) + Cardinality(Dispatching(s))
                 + Cardinality(Using(s))

(* The next three and CompletesOnOwnSocket hold if no SOCKET value goes to a  *)
(* new connection while a thread still has it (ReuseStale = FALSE), which     *)
(* also leaves out a second close that hits a new connection. RefCountExact   *)
(* asks moreover that no unlocked find misses (TornFind = FALSE).             *)
(*                                                                            *)
(* The reference count of every socket in the map is the number of its        *)
(* requests and of the threads that will still call releaseSocket for one.    *)
RefCountExact == \A s \in Sockets : referCount[s] = References(s)

(* The count never falls below the references that are really there: whatever *)
(* the unlocked lookup misses leaks a socket but never frees one in use.      *)
RefCountCovers == \A s \in Sockets : referCount[s] >= References(s)

(* No thread has a pointer to a deleted socket.                               *)
NoUseAfterFree == \A t \in Threads : socket[t] # None => life[socket[t]] = "live"

(* Every frame is in one place: not yet new'd, once in the pool, at the       *)
(* operating system, or with one thread.  The code has no owner field; a      *)
(* double releaseIOFrame would give two requests the same OVERLAPPED.         *)
InUse == {f \in Frames : io[f].state # "user"}
InHand == {op[t] : t \in Threads} \ {None}
FrameOwnership ==
  /\ IsInjective(ioFramePools)
  /\ \A t, u \in Threads : op[t] = op[u] /\ op[t] # None => t = u
  /\ Range(ioFramePools) \cap (fresh \cup InUse \cup InHand) = {}
  /\ fresh \cap (InUse \cup InHand) = {}
  /\ InUse \cap InHand = {}

(* A uid in the map is that of one socket, and it cannot be given to another  *)
(* one: neither the map nor the application mixes two connections up.         *)
UidUnique ==
  /\ \A s, r \in theASSocks : uid[s] = uid[r] => s = r
  /\ \A s \in theASSocks : uid[s] \notin Range(reuseList)
  /\ theASSocks \subseteq {s \in Sockets : life[s] = "live"}

(* notifyMessage only ever comes between the notification that opened the     *)
(* connection and notifyReleaseSocket (with ReuseStale = FALSE).              *)
MessageInSession ==
  \A w \in Workers : pc[w] = "message" => told[socket[w]] \in {"registered", "connected"}

(* A completion always finds its socket ("already disappeared... oops         *)
(* critical error" says the branch that handles the other case). It does if   *)
(* no unlocked find misses, and does not if one may: run lost_completion.     *)
NeverDisappeared ==
  [][\A w \in Workers : pc[w] \in {"dispatchCompletion", "dispatchError"}
                          => pc'[w] # "idle"]_vars

(* A request is completed under the uid of the socket it was posted for.      *)
CompletesOnOwnSocket ==
  \A f \in Frames : io[f].key # 0 => io[f].key = uid[io[f].sock]

(* The same for reads alone: "we don't need synch in this method", says       *)
(* postingRead, "socket has synchronized at before context".                  *)
ReadCompletesOnOwnSocket ==
  \A f \in Frames : io[f].optype = "read" /\ io[f].key # 0 => io[f].key = uid[io[f].sock]

(* What connectSocket accepted is answered by notifyConnectingResult before   *)
(* the socket is given up.                                                    *)
AnsweredBeforeReleased ==
  [][\A s \in Sockets : told[s] = "asked" => told'[s] # "released"]_vars

(* The service takes and gives back uids as the generator asks of its users.  *)
UsesUidGenerator == Uids!Spec

(* The notifications describe a table of connections: the refinement mapping  *)
(* takes the sockets the application was told are open (ReuseStale = FALSE).  *)
Told(states) == {s \in Sockets : told[s] \in states}
Table == INSTANCE SessionTable WITH
           Connections <- Sockets, Keys <- 0 .. PrototypeUid + Cardinality(Sockets),
           sessions <- {<<uid[s], s>> : s \in Told({"registered", "connected"})},
           ended <- Told({"released"})
ImplementsSessionTable == Table!Spec

(* A socket that was disconnected, from either side, is in the end given up:  *)
(* every reference comes back and notifyReleaseSocket is called.              *)
ClosedIsReleased == \A s \in Sockets : closed[s] ~> told[s] = "released"

(* A ConnectEx that went through is answered by notifyConnectingResult.       *)
Connecting(s) == \E f \in Frames : io[f].state = "posted" /\ io[f].optype = "connect"
                                  /\ io[f].sock = s
ConnectIsAnswered ==
  \A s \in Sockets : Connecting(s) ~> told[s] \in {"connected", "refused"}
=============================================================================
