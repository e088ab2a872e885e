# A TLA+ development of MGServerLib

This directory holds TLA+ specifications of the completion-port network library
`MGServerLib`, of the echo server built on it and of the C# client that tests it,
the TLC configurations that check them, and theorems about them checked with TLAPS.

    tlc -config Accept.cfg MCAsynchIOService      # any run: see "Runs"
    tlapm AsynchIOServiceProofs.tla               # any module with theorems

## 1. The system

| part | files | state it keeps | operations |
|---|---|---|---|
| `AsynchIOService` | `MGServerLib/AsynchIOService.cpp` | `theASSocks` (uid -> socket), `ioFramePools`, `entireSynch`, the worker threads, the completion port | workers: `Run`, `dispatchCompletion`, `dispatchError`, `postingRead`; callers: `registerSocket`, `connectSocket`, `postingSend`, `disconnectSocket`, `releaseSocketUniqueId`, `start`, `stop`; both: `releaseSocket` |
| `AsynchSocket`, `OverlappedOperation` | `Asios.h`, `AsynchSocket.cpp` | `sockID`, `assockDesc` (uid, tick), `referCount`, `closed`; the OVERLAPPED frames | `clone`, `enterIO`, `exitIO`, `disconnect`, `makePacket`, `handleCompletionOfReceive` |
| socket uids | `Maths.h`, `Asios.h` | `currentNumber`, `reuseList`, `assockuidGenLock` | `retrieveASSOCKUID`, `releaseASSOCKUID` |
| locks | `Synchronized.h` | `owningThread`, `nestingLevel` and the object of the operating system | `accquire`, `release`, used by `Synchronized` objects |
| `INetworkReceiver` | `Asios.h` | what the application was told of each connection | `notifyRegisterSocket`, `notifyConnectingResult`, `notifyMessage`, `notifyReleaseSocket` |
| `Acceptor` | `Acceptor.cpp` | the listening socket; a `Thread` | `Run`: `accept`, `registerSocket`; the methods of `Thread` |
| echo server | `SimpleEchoServer/` | `m_SessionMap`, `m_SessionLock` | the notifications, and `Process` once a second from the main thread |
| `Thread` | `Thread.cpp` | `m_IsStarted`, `m_Handle`; the threads begun on it | `Start`, `Stop`, `Join`, `WaitFor`, `Suspend`, `Resume`, destructor |
| `Queue`, `Waiter` | `Queue.h`, `Synchronized.h` | a queue, an auto-reset event | `push`, `pop`, `pops`, `clear`, `wait`, `notify` |
| `TraditionalMemoryPool` | `TraditionalMemoryPool.h` | one free list per size class | `Retreive`, `Release` |
| `DataBuffer.h` | `DynamicDataBuffer`, `StaticDataBuffer`, `ReadOnlyDataBuffer` | bytes, length, position | pushes and reads of fields, which may fail |
| `StreamData` | `StreamData.h` | bytes that arrived, their number | `putData`, `current` with `increaseSize`, `flushTo`, `reset`, `clone` |
| `RichODBC` | `RichODBC.cpp` | connection and statement handles | `Connect`, `Reconnect`, `ExecSQL`, `FetchData`, ... |
| C# test client | `csharp_test_client/` | socket, reassembly buffer, two packet queues | a read thread, a send thread, the UI thread |
| `SimpleEchoClient` | `SimpleEchoClient/` | session map | does not build: its lock has a type the library does not have |
| the rest | `ExceptionReport`, forms, packet layouts, logs | | output only |

How they interact.  Any number of worker threads wait on one completion port.  A
completion carries the *uid* of a socket as its key; the worker looks the uid up
in `theASSocks` under `entireSynch` and goes on **without** the lock, protected
only by the reference that `enterIO` took when the request was posted.  It calls
the receiver, posts the next read with the same frame, or gives the reference
back with `releaseSocket`; the last reference removes the socket from the map,
notifies the receiver and deletes the object.  The acceptor, a connecting thread
and any thread that sends or disconnects come in through methods that hold
`entireSynch` for their whole length, and the notifications that
`registerSocket`, `releaseSocket` and the failure paths make run under it.  The
receiver has a lock of its own.  A uid goes back to the generator when the
receiver calls `releaseSocketUniqueId`, in `notifyReleaseSocket`.

What is hard here: object lifetime by reference counts without a lock; a lookup
that one method does without the lock (`dispatchError`); handles and uids that
are reused; requests that fail at each of several points; two locks taken in
two orders; a recursive lock that decides on an unlocked read.  `PROJECT.json`
lists every such hazard with its line and the properties that watch it.

What makes each part correct:

* service: no thread uses a deleted socket; the count is the number of
  references; frames have one owner; a completion finds its socket, and it is
  the socket the request was posted for; notifications about a connection are
  well formed; closed sockets are given up and connects are answered;
* uids: a uid names one socket as long as anyone may use it;
* locks: mutual exclusion, exact nesting, waiters get in;
* echo server: the session map mirrors the service's map; iterating over it is
  safe; nobody waits in a circle;
* `Thread`: one thread runs on the object of an owner that waits, and none on a
  deleted one; a service that was stopped has no loop left in the end; `Queue`: no
  consumer asleep with work queued; pool: a block is at least as large as asked
  for and has one owner;
* `DataBuffer`: the reader finds the fields that were pushed completely, and
  stops at the one that was not; `StreamData`: bytes come out as they came in;
* `RichODBC`: whatever fails and reconnects in the middle of a call, no freed
  handle is used and no half of a statement is executed;
* client: packets come out in the order and with the bytes they came in, once;
  a posted packet is taken from its queue at most once, unless two of the queue's
  unlocked methods meet in one of two ways; closing the form ends the program.

## 2. Modules

| module | models | extends / uses |
|---|---|---|
| `ReentrantLock` | what a `Synchronizable` promises (abstract) | |
| `CriticalSectionLock` | `CriticalSectionLockWrapper` and `SemaphoreLock`, one action per shared access | refines `ReentrantLock` |
| `UidGenerator` | `ULONG_PTRGenerator` with atomic methods | |
| `SocketUids` | `retrieveASSOCKUID` and `releaseASSOCKUID`, access by access, under the lock | composes `UidGenerator` and `CriticalSectionLock`; refines `UidGenerator` |
| `SessionTable` | what the notifications promise (abstract) | |
| `AsynchIOService` | the service, its sockets and frames, the acceptor, connecting and sending threads, the operating system underneath | uses `UidGenerator`; refines it and `SessionTable` |
| `EchoServer` | `MGServerReceiver`, `Process` and the service | composes with `AsynchIOService` |
| `ByteStream` | what a reassembly buffer promises (abstract): bytes come out as they went in | |
| `PacketBufferManager` | the buffer of the client, with its two positions | refines `ByteStream` |
| `SendQueue` | `SendPacketQueue` of the client: `Queue<T>` of .NET, access by access, under three threads without a lock | |
| `TestClient` | the threads of the client: user interface, receiving, sending | extends `PacketBufferManager`, `SendQueue` |
| `Thread` | the object, its flag and handle, and the threads begun on it | |
| `ServiceThreads` | `start`, `stop` and destructor of the service over its workers, their loop; the `Acceptor` and its owner | extends `Thread` |
| `StreamData` | the buffer of bytes that arrived | refines `ByteStream` |
| `DataBuffer` | a writer that pushes fields and a reader that takes them out | |
| `RichODBC`, `TraditionalMemoryPool`, `Queue` | classes of the library that stand alone | |
| `MCAsynchIOService`, `MCEchoServer`, `MCTestClient` | instances for TLC | |
| `MCLibrary` | one behaviour per class that stands alone, and `SendQueue` by itself, for TLC | |
| `CriticalSectionLockProofs` | theorems about the lock | extends `CriticalSectionLock` |
| `UidGeneratorProofs` | theorems about the generator and its methods under their lock | extends `SocketUids` |
| `AsynchIOServiceProofs` | theorems about the service: types, frames, uids | extends `AsynchIOService` |
| `AsynchIOServiceReferences` | theorems: SOCKET values, requests, reference counts | extends `AsynchIOServiceProofs` |
| `AsynchIOServiceSessions` | theorems: what the application is told | extends `AsynchIOServiceReferences` |
| `EchoServerProofs` | theorems about the echo server | extends `EchoServer`, `AsynchIOServiceReferences` |
| `TestClientProofs` | theorems about the buffer, the send queue and the three threads of the client | extends `TestClient` |
| `LibraryProofs` | theorems about the classes that stand alone | extends `MCLibrary` |

### AsynchIOService

One action stands for the code between two accesses that another thread can see.
Methods that hold `entireSynch` throughout are split as well, at the points where
code that does *not* take the lock can interfere: `registerSocket` is
`registerSocket`, `Insert`, `WSARecv`; `connectSocket` is `connectSocket`,
`Insert`, `ConnectEx`; `releaseSocket` is `releaseSocket` and, for the last
reference, `Erase`.  `AsynchSocket::disconnect` is three actions (read `sockID`;
`closesocket`; overwrite `sockID` and set `closed`) because a worker runs it
without the lock.  `postingRead` is two (copy `sockID`; call `WSARecv`).

State.  `uid`, `sockID`, `referCount`, `closed` are the fields of the socket
objects; `life` says whether an object was constructed, is leaked (a failure path
forgot it) or deleted.  A socket object of the model is constructed once, so its
identity is its tick.  `theASSocks` is the set of objects in the map.
`currentNumber` and `reuseList` are the uid generator.  `open` and `assoc` are the
handles of the operating system and the completion key of each.  `fresh` and
`ioFramePools` are frames that `new` has not returned yet and the pool; `io` has
the fields of each frame: its request, the socket it was posted for (history),
the handle it is pending on, and, when it is queued at the port, key and result.
`told` is the last notification about each socket.  `pc`, `op`, `socket`, `handle`
are the place and locals of each thread.

The operating system.  A pending request completes with data, end of file or an
error, and is queued under the key of its handle; `closesocket` queues everything
pending on the handle as an error.  A request on a handle that is not open is
refused; any request may be refused.  A handle that was closed may be handed out
again.  Two switches select what the environment may do:

* `TornFind`: the unlocked lookup of `dispatchError` is a data race with an insert
  or erase in progress.  Of what such a build may do, the model has the lookup
  that works and, with `TornFind`, the one that misses.  Corruption of the tree is
  beyond the model.
* `ReuseStale`: a handle value may be given out again while some thread still has
  a copy that it read before the handle was closed.  With `FALSE` the properties
  are about the other hazards; the run `recycled_handle` shows what `TRUE` does.

Abstractions.  Payloads, addresses, sizes and logging are left out: `makePacket`
returning 0 is one of the ways a send is refused.  The result of
`handleCompletionOfReceive` is either.  The application answers
`notifyReleaseSocket` with `releaseSocketUniqueId`, as `MGServerReceiver` does.
A client may use the descriptor of any socket it was told of, for ever.

### EchoServer

Replaces the two notifications under `entireSynch` by ones that need
`m_SessionLock` too, and the client by the two callers the program has: `Process`
in the main thread, which holds `m_SessionLock` and sends to every session, and
`notifyMessage`, in the worker, which sends the message back or disconnects.  A
call made from `notifyMessage` has locals of its own, those of `callback[w]`; the
worker waits for it.  `iter` is the entry the iterator of `Process` is at.  It stays
there while the body of the loop calls `postingSend`, through every way that call can
fail, and moves to the next uid of the map only in `ProcessAdvances`, the `++iter`
(MGServerReceiver.cpp:49).  `m_SessionLock` is recursive, so the thread of `Process`
could erase its own entry in between; `IteratorValid` says that it does not.

### Locks and uids

`CriticalSectionLock` has one action per access of `accquire` and `release`;
`reenterable` chooses the wrapper of a critical section or the semaphore, in which
the protocol is the same.  `SocketUids` runs the two methods of the generator,
split at their read and their write, inside an instance of that lock, and shows
that they are the atomic steps of `UidGenerator`, which the service uses.

### TestClient

The three threads of `mainForm` share the field `Sock`, two queues and two
buttons.  Every read of a shared field that is acted on later is a step of its
own: `Close`, `Receive` and `Send` test `Sock` and use it again, `SetDisconnectd` is
one step per button and the call of `Clear`.  `RecvPacketQueue` is locked by both its
users, so its operations are atomic; `SendPacketQueue` is locked by the sending
thread alone.  The user presses any button that is enabled; the server sends its
packets cut into any pieces, or closes or breaks the connection.  An exception
that nobody catches sets `alive` to FALSE and nothing happens any more.

`SendQueue` is the circular array that `Queue<T>` keeps in .NET 4.5.2.  Its methods are
split at every access: `Dequeue` tests `_size`, reads `_head` and its place, clears a
place of an array and a `_head` that it has read again, moves `_head` and takes one
from a `_size` that it has read again; `Clear` clears one or two ranges and writes
`_head`, `_tail` and `_size` one by one; `Enqueue` grows a full array (`SetCapacity`:
copy, new array, `_head`, `_tail`) without any bound, writes a place, moves `_tail` and
counts.  So `_size` may be lost or fall to -1, `SetCapacity` takes -1 over as `_tail`, a
place may be out of the array, and every exception the methods then throw is a step
(`Leaves`): on the sending or receiving thread it ends the program; on the user's the
dispatcher shows its dialog and the handler is left where it was
(`HandlerAbandoned`).  Only the elements of one `Array.Clear` or `Array.Copy` are
handled in one step.

A packet does come out twice in two encounters: the array grows while another thread takes
from it or clears it (both then see the old places as well as the new), or `Clear` runs
while `Dequeue` has read a packet and not cleared its place.  `overlapped` is a
history variable that records them, and `DequeuedOnce` is about executions without
them.  It is no claim that the program avoids them: nothing in it does.

What servers send is part of the load of an execution: for each connection its
bytes and the positions (`cuts`) where packets begin and end, the first two bytes
of each being its size.  `ClientAssumption` also says that beside what is left of a
packet the buffer has room for one `Receive` and for one packet more; the
program's sizes, 1023 + 2048 + 1024 of 80960, satisfy it by far.

`intact` is a history variable: the buffer never refused bytes (a piece of more
than the room a packet needs may be refused, and the result is ignored), and never
got bytes behind what another connection had left.  The code does both, so
the properties of the stream speak of what happens as long as it has
not; `RoomForPacket` and `PacketsInOrder` have it as a condition.  `ByteStream` does
not say which bytes are put in, only what becomes of those that are: that they are the
server's is `PacketsInOrder`.  Bytes are opaque; two of them encode a size, any integer unless they are the
first two of a packet.

### Thread, ServiceThreads

A `Thread` object and a thread of the operating system are two things.  `Start` sets
`m_IsStarted`, begins a thread and keeps its handle in `m_Handle`; the loop of the
thread (`Run` of the service or of the `Acceptor`) reads the flag of the object each
time round; `Stop`, `Join` and the destructor clear it and wait for nothing.  So a
`Stop` and a `Start` in quick succession leave two threads in one loop, of which
the object knows the second, and a deleted object may have a thread that runs on it.
The model numbers the threads in the order they are begun; `at` is the place of each
in its loop: the test of the flag, the wait (`GetQueuedCompletionStatus`, `accept`),
the work.  What a thread reads from a deleted object is either value.

`start`, `stop` and the destructor of the service visit its workers one by one,
while these run.  The class offers its owner nothing to wait with, so the owner
calls the three as it likes: the model reaches workers that run on a deleted object
and workers with two loops, and claims nothing about them but `StoppedServiceEnds`.
The `Acceptor` is a `Thread` itself; its owner is taken to wait after `Stop` before it
starts or deletes it, and `OneAcceptLoop` says what it gets for that.  What a worker
does with a completion is `AsynchIOService`.  Nothing in that module needs a worker to
move, so its safety properties hold whether or not workers are stopped; its liveness
properties are about a service that runs.

### DataBuffer, StreamData

`DataBuffer` is a protocol of two parties that agree on the kinds of the fields, as
nothing in the bytes says what they are.  The writer pushes them until one fails and
hands the buffer on.  A byte of the model says which field or length it belongs to
and which of its bytes it is, so `FieldsInSync` notices a reader that is off by one
byte.  The sizes of numbers and characters are constants (in the instance 2, 3 and 2,
to keep the buffer short; what matters is that they differ from 1).  The reader may
have less room than a text needs.  `StreamData` is the array with its one number; its caller puts data, or
receives at `current()` at most `availableSize()` bytes, drops any amount from the
front, resets it or goes on with a clone.  It implements `ByteStream`, as the buffer
of the C# client does: the property is about the moves inside the array, and does not
tie what `putData` puts in to the bytes it was given.

### RichODBC

One thread uses the object, so there is nothing to interleave; what is hard is
that any driver call may fail, that the handling of a failure may reconnect, from
inside whatever the caller was doing, and that reconnecting may fail and recur.
`todo` is the stack of the call under way: a sequence of steps, each of which puts
the steps it calls in front.  Handles are kept as what they are worth (null, live,
freed; allocated or connected), the text of a statement as its pieces.  The caller
puts a statement together, executes it and reads rows, in that order; it may
connect or disconnect at any time.

### TraditionalMemoryPool, Queue

One action per method, since each holds the lock of its object.  The repository
does not use them, so their callers are assumed: blocks are released by their
holder, with the size it asked for; consumers wait, then take elements until they
find the queue empty, one by one after a look or several at once.

## 3. Runs

| run | what it asks | bounds |
|---|---|---|
| `critical_section` | is it a recursive lock; does every waiter get in | 3 threads, nesting up to 3 |
| `socket_uids` | are retrieve and release atomic under the lock; is no uid out twice | 3 threads, 3 uids out, step 2 |
| `accept` | accepted sockets: no use after free, counts, frames, uids, sessions, with lookups that miss | 2 workers, 1 acceptor, 1 client, 2 sockets, 3 frames, 2 handles, 1 send pending |
| `connect` | outgoing sockets: every failure path of connecting; exact counts, sessions, messages | the same with 1 connector |
| `progress` | liveness | 1 socket of either kind, 2 workers, 1 client, 2 frames, 1 handle |
| `echo_server` | the two maps agree, iteration is safe | 2 workers with their callbacks, main, 1 acceptor, 2 sockets |
| `test_client` | packets in order, the buffer a stream, packets shown, the end | 2 connections, of packets of sizes 3 and 2 and of one of size 3; or 1 connection with packets 3, 2, 3, 2; or 1 post on a silent connection; an array that grows by 2; a buffer of 9 bytes, room for 3, pieces of 4 (437,847 states) |
| `library` | statements under reconnects; owners of blocks; consumers that sleep; loops of a server that is started, stopped and deleted; fields and bytes in buffers; each post dequeued once | 2 parameters, 8 steps pending; 4 blocks of 3 sizes; 2 consumers, 4 elements; 2 workers, 1 acceptor, 3 threads; 3 fields in 14 bytes; a stream of 4 bytes, pieces of 5; 2 posts, an array that grows by 1 at first (516,840 states) |
| `lost_completion`, `recycled_handle`, `lost_answer`, `lock_order` | disagreements of code and comments, below | as `accept`, `connect`, `echo_server` |

Why the bounds are enough to see the interesting cases.  Two workers are the
fewest that handle two completions of one socket at once (a read and a send), or
close it twice; the client is the third thread that interferes with both.  With
two sockets the second is constructed while the first is alive, or after it was
deleted, when it gets its uid and perhaps its handle.  Three frames are a read of
each socket and one send; one more would only be one more send.  `Sockets` bounds
the number of objects constructed in a whole behaviour, so a behaviour ends when
all were used.  Three threads are the fewest in which one holds a lock, one waits
and one reads `owningThread` in between.

The client's buffer is scaled so that all that happens at the real sizes happens:
3 is the greatest packet and 9 is more than twice that, as `Init` demands; pieces
may be larger than a packet; the stream of 5 and 3 bytes
passes the point where unread bytes are moved, with bytes of
the first connection left over, and the stream of 10 bytes is longer than the buffer, so
that a piece is refused in some behaviours.  Two connections are the fewest with a
reconnect.  One post in `test_client` lets every method of the queue run in the program,
with its exceptions and in a `Clear` inside a `Dequeue`; two posts in `library`, where
the three threads call the methods at will, are the fewest with a full array that grows
from a non-empty one.  9 is
also exactly what `ClientAssumption` asks for, so there is no room to spare.  With
three connections, one that the field `Sock` has lost may keep the reader
(`Orphan`); with two it cannot.  In `library` nothing relates the
seven subjects: each behaviour is about one, and one run checks them all.  Eight
pending steps let a reconnect recur inside a reconnect; three sizes let a wrong
list be too large or too small.  Three threads over two workers and the acceptor
are a worker, or the acceptor, that was started twice, with one more beside it, or
three times.  Fourteen bytes hold three short fields and not three long ones, so
that every push fails in some behaviour, with and without its length; a text of
three characters is more than the reader has room for.  A piece of five bytes
does not fit even an empty stream of four.

`echo_server` does not check for deadlock, because the program has one: see
`lock_order`; `test_client` and `library` do not, because their programs end.  In
every other run a state without successor would be reported;
stale calls are steps, so a service that has served its last socket still moves.

Every passing run of the service and the echo server has `ReuseStale` FALSE: a SOCKET
value goes to a new connection only when no thread has a copy of it.  This leaves out
what makes a double close dangerous (the second one hits a new connection);
`recycled_handle` is the run with TRUE.  `TornFind` is TRUE in `accept` and FALSE in
`connect`, `progress` and `echo_server`.  Objects, uids and handles that failure paths
leave behind are in the model, and no property speaks of their number.

Fairness (`critical_section`, `progress`, `test_client`, `library`).  Threads keep
running (weak fairness of their steps).  Whoever waits for a critical section gets it if it becomes free
again and again (strong fairness): Windows wakes waiters when the section is
left.  The port wakes a worker for every queued completion; this is strong
because other completions may take the free worker first.  Pending requests end
some time.  Nothing is assumed of what peers or clients do: nobody has to
disconnect, and an accepted socket that is never closed may live for ever.  In the
client the timer is served although the user may always press a button: its
message is queued with theirs, and the queue is served in order.  In `library` the
threads of a server keep running, a worker's wait of 500 ms ends and its dispatch
returns (it does not in the deadlock of `lock_order`); nothing is assumed of
completions, connections, `accept` or what owners call.

### Disagreements of the code with its comments

* `lost_completion`: `dispatchError` (AsynchIOService.cpp:196) searches the map
  without the lock.  If it misses, the frame is returned but not the reference,
  and the socket is never released.  `RefCountCovers` in `accept` shows that this
  is all that goes wrong within the model: sockets leak, none is freed in use.
* `recycled_handle`: `postingRead` says it needs no lock because of the reference
  counter; between its copy of `sockID` and `WSARecv` the handle may be closed and
  be the handle of the next connection, whose uid then completes the read.
* `lost_answer`: when `ConnectEx` fails at once, `connectSocket` returns 0 and no
  `notifyConnectingResult` follows.
* `lock_order`: `Process` sends with `m_SessionLock` held while a registering or
  releasing thread notifies with `entireSynch` held.

## 4. Theorems

TLAPS checks these for any values of the constants that satisfy the assumptions
of the modules.  Every invariant, refinement and action property of the passing
runs is stated by one of them; only liveness is not (see the end of the section).

### Lock and uids

* `CriticalSectionLockProofs`: `TypeCorrect`, `MutexHolds`, `NestingHolds` and
  `LockRefines`.  The inductive invariant says, for each place a thread can be at,
  what `osOwner`, `osCount`, `owningThread` and `nestingLevel` are.  The point is that
  `owningThread = t` implies that `t` itself owns the object, because only `t`
  writes its own name and it clears it before it leaves: this is why the unlocked
  read is harmless.  Assumes only that `None` is no thread and `MaxDepth` positive.
* `UidGeneratorProofs`: `UidTypes` and `UidNoDoubleOwner`: the numbers out, the
  numbers free and the counter, for any start and step.  `NoDoubleOwner` is
  inductive as it stands; the lemmas are about the head, tail and append of an
  injective sequence.  `SocketsUseGenerator`: the two methods of `Asios.h`, which read
  and write in separate steps, are atomic steps of the generator.  `SocketInv`
  composes three parts: the generator's invariant, the lock's (who is inside),
  and `ReadInv`: what a thread has read is still so when it writes, because only
  the thread inside has read anything.

### The service

Seven invariants, each proved with the help of those before it:

| invariant | says | gives |
|---|---|---|
| `TInv` | types, and which locals are set at each place | `TypeCorrect` |
| `Places` | which thread may be where, with the lock or not, and what it carries | |
| `FrameInv` | every frame is new, pooled, in a request or in one thread's hand, and only in one of these; a new or pooled one is blank | `FramesAreOwned` |
| `UidInv` | uids of the map are distinct, in range and not free; sockets of the map live | `UidsAreUnique`, `ServiceUsesUidGenerator` |
| `HandleInv` | a socket object and a thread that works on it agree on the SOCKET value, or it was closed; an open one is associated with the uid of its one owner | |
| `RequestInv` | a request is pending on the handle of its own socket, and comes back with its uid | `CompletesOnItsSocket` |
| `RefInv` | the count is at least the number of references and, if no lookup misses, exactly that; a socket outside the map has none; whoever works on a socket found it in the map | `NoSocketUsedAfterFree`, `CountCoversReferences`, `CountIsExact`, `NothingDisappears` |
| `SessionInv` | reads are posted and messages delivered within a session, a connect is answered once, a released socket is deleted | `MessagesComeInSession`, `ServiceImplementsSessionTable` |

The number of references is a cardinality of sets of frames and threads, so each
step of `RefInv` is one of three lemmas: such a set is the same, or one element
enters, or one leaves; the count moves with it.  The threads and frames need
not be finite in number; the references of one socket always are.

Two conditions appear as hypotheses.  `~ ReuseStale` is asked by all that rests on
`HandleInv`: the environment does not give out a SOCKET value again while a thread
still has a copy of it.  Windows does not promise that; `recycled_handle` shows
what happens otherwise, and types, frames and uids are proved without it.
`~ TornFind` (an unlocked lookup does not miss) is asked by `CountIsExact` and
`NothingDisappears`, which are false without it (`lost_completion`);
`NoSocketUsedAfterFree`, `CountCoversReferences` and the refinement of `SessionTable`
hold with lookups that miss.  Beyond these, `ServiceAssumption`: the roles are disjoint,
`None` is none of the elements, the sockets of a behaviour are finite in number.

### The echo server

`EchoServerUsesService`: every behaviour of `EchoSpec` is one of `Spec`, so the
theorems above hold in it (`EchoServerUsesNoFreedSocket` is one).  `SessionMapsAgree`
and `IteratorStaysValid` follow from `EchoInv`: the two maps are equal between any two
steps; a socket in the map has a reference of its own unless a thread is entering or
erasing it (`CountInv`); and while `Process` is inside `postingSend` the socket it works
on is the entry of its iterator and has a second reference (`MainVisits`), so that
giving the one of a refused send back never erases that entry.  Other threads that
would erase it wait for `m_SessionLock` in `notifyRelease`.  That `insert` and `erase` by
uid touch the right entry needs `UidInv`.  These two need no hypothesis on the
environment; `EchoServerUsesNoFreedSocket` has `~ ReuseStale`.

### The test client

* `BufferTypes` and `BufferIsByteStream`: for any data, any sizes that packets claim
  and any sizes that `Init` accepts, the positions stay in bounds and in order, and
  the array with its two positions implements the stream.  `BufferTypeOK` is
  inductive by itself (`HeaderSize >= 2` keeps the two bytes of the size inside what
  was written); each operation maps to one step of the stream, by equalities of
  sequences proved index by index.
* `ClientUsesBuffer` and `ClientIsByteStream`: every step of the client is a step of
  the buffer or leaves it alone, so the stream is one in the whole program.
* `QueueTyped` and `QueueGivesOnce` are about `SendQueue` by itself.  `QueueTypes` says, for each
  place a thread can be at, what it has read and what that is worth by now: why `_head`
  never leaves the array, and `_size` is never below -1 or above its length although it is
  written from stale reads (whoever has read it adds or takes one, and only a `Clear`
  inside a `Dequeue` takes it below 0).  `OnceInv` says that as long as the two encounters
  have not happened a packet is in one place (`PlacesInv`): with the thread that posts it,
  in one place of the array or of its copy, or with the thread that takes it, or out.  It
  does not depend on `_size` or `_tail` being right.
* `ClientUsesQueue`: every step of the client is a step of the queue's three threads or
  leaves it alone, because a thread of the client is in a method only where it calls it
  (`CallsInv`).  `ClientTypes` and `EachDequeuedOnce` carry the above over to the program.
* `RoomIsMade` and `PacketsComeInOrder` rest on `StreamInv`: connections are made in
  order and the bytes in the buffer are of the last one read (`Lineage`); after a
  `Receive` there is still room for a packet (`Room`), because once the reader is back
  in the loop less than one packet is unread (`Parsed`); and there are positions
  that divide what was delivered into the first packets of each server, such that
  what is unread begins where the next packet does (`Aligned`).  The last is why the
  two bytes that `Read` takes for a size are one.

The theorems speak of any number of connections, packets, bytes and posts, and any
`MinimumGrow`.  `RoomIsMade` and `PacketsComeInOrder` have the condition `intact`,
`EachDequeuedOnce` the condition `~ overlapped`.

### The library

* `PoolTypes`, `PoolBlocksOwned` for any increasing table of sizes.  That no block is
  too small is not inductive: `FromItsList` adds that the size a holder asked for
  leads to the list of the size its block has.
* `NoConsumerSleepsOnWork`, for any number of consumers; inductive as it stands.
* `ThreadTypes` and `AcceptLoopAlone`, for any number of workers, threads begun,
  starts and failed starts.  `OneAcceptLoop` is inductive with the types: it says
  that a running thread of the acceptor is the one in `m_Handle`, and that after a
  wait it runs only if the flag is set, which is what lets `Start` (refused if the
  flag is set) begin the only one.
* `StreamTypes` and `BufferIsStream`, for any capacity and data: every method is a
  step of the byte stream or none, from `StreamTypeOK` alone.
* `OdbcTypes`, `StatementIsWellFormed`, `ConnectedFlagIsTrue`, `NoHandleIsFreed`, for any
  number of parameters and any bound on pending steps.  The invariant is about the
  stack `todo`.  `Ordered` says which steps stand next to each other in it (connecting
  is followed by the assignment of the flag, freeing a statement by allocating
  one); `FlagInv` and `HandlesInv`, that a flag or handle that is wrong now has a step
  pending that puts it right; `TextInv`, that a live statement has the whole text,
  unless the step that begins or ends the text is pending.  A nested reconnect puts steps in
  front, and the lemma `ThenOrdered` shows once for all what that preserves.
* `DataBufferTypes`, `FieldsStayInSync`, for any capacity, sizes of numbers and
  characters, and list of fields.  The invariant asserts the existence of a position for
  each field pushed, one behind the other, with the bytes of the field and, for some
  kinds, its length; behind the last there is nothing or a length whose text was
  refused; and the reader is at the position of the next field.
* `LibraryTypes` is the type invariant of the run, from those of the classes.

### What stays with TLC

Liveness: `WaiterEnters`, `ClosedIsReleased`, `ConnectIsAnswered`, `ReceivedIsProcessed`,
`FormClosingEnds`, `StoppedServiceEnds`.  TLAPS has no rule for fairness or ENABLED
here.  And the disagreements with the comments, which are counterexamples.

## 5. What is not modelled, and the plan

No safety property of the runs is left without a theorem.  What could be added:

1. Invariants that the runs do not state and the proofs found useful: `HandleInv`
   and the lock discipline of `Places`, as properties of their own.
2. The step-by-step half of the liveness properties (no step undoes progress; a
   helpful step is possible), which needs no rule for fairness.
3. `MessageInSession` and `SessionTable` stated for the echo server, which follow from
   `EchoServerUsesService`.
4. A byte stream whose `Put` is told the bytes, for `StreamData` as for the client.

Not modelled.  `UniqueIntegerGenerator` is a copy of `ULONG_PTRGenerator` with an
`int`; its `reset` forgets the numbers that are out, and its validating `release`
refuses a number only while it is free, so that both leave the correctness to a
caller, and there is none.  `DataBufferT`, and `addTypeAndGetRefers` and
`pushEmptyData` of the other buffers, give the caller a place to write to; they move
the length as a push of the same size does.  Lengths that no writer of the library
produces (negative ones, arrays of no characters) are left out of `DataBuffer`.
`ExceptionReport` writes a report of a crash and its state is that of the crash: it
is output, from inside the exception filter, and nothing else depends on it.

Not planned: logging, forms and packet layouts (output only),
the list of users in a room of the client's form (`RemoveRoomUserList` returns
before it removes anything, and nothing in the code depends on the list),
the constructor of `Acceptor` (start-up, before any thread), `SimpleEchoClient`
(does not build; its receiver is that of the server without `Process`).
