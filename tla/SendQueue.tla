----------------------------- MODULE SendQueue -----------------------------
(* SendPacketQueue of the test client: a Queue<T> of .NET 4.5.2, to which the *)
(* user interface adds (mainForm.cs:288), from which the sending thread takes *)
(* (174-176), and which the user interface and the reader clear (255).  The   *)
(* lock that the sending thread takes keeps nobody out.                       *)
(*                                                                            *)
(* A thread reads what a statement needs in one step and writes its result in *)
(* another; only the elements of an array are cleared or copied in the step   *)
(* that reads the range.  An exception leaves the method where it is thrown.  *)
EXTENDS Integers, Sequences, Functions

CONSTANT MinimumGrow   \* the array grows by as many places at least

ASSUME SendQueueAssumption == MinimumGrow \in Nat \ {0}

VARIABLES _array,        \* the elements of the array, 0 is null
          arrayLength,        \* its length
          _head, _tail, _size,
          newarray,      \* local of SetCapacity
          removed,       \* local of Dequeue
          loaded,        \* what a thread has read and will write
          target,        \* length of the array in which Dequeue clears a place
          step,          \* where each thread is in a method; "out" of the queue
          posted,        \* history: packets are numbered as they are added
          dequeued,      \* history: packets that Dequeue returned
          overlapped     \* history: methods met that may take a packet twice

elementVars == <<_array, arrayLength>>
indexVars   == <<_head, _tail, _size>>
localVars   == <<newarray, removed, loaded, target>>
sendQueueVars   == <<elementVars, indexVars, localVars, step, posted, dequeued, overlapped>>

Users    == {"ui", "read", "send"}
Clearers == {"ui", "read"}

(* Where two methods meet such that a packet may be taken twice: SetCapacity  *)
(* copies the array while another thread takes from it or clears it; or Clear *)
(* runs while the sending thread has a packet and has not cleared its place.  *)
Growing   == step["ui"] \in {"copy", "setArray", "setHead", "fetchTail", "setTail"}
Clearing  == \E t \in Clearers : step[t] \in {"clearRange", "clearBack", "clearFront",
                                              "zeroHead", "zeroTail", "zeroSize"}
Dequeuing == step["send"] \notin {"out", "dequeue"}
Holding   == step["send"] \in {"forget", "forgetAt"}
Encounter == (Growing /\ (Dequeuing \/ Clearing)) \/ (Holding /\ Clearing)

EmptyArray == [i \in {} |-> 0]

SendQueueInit ==
  /\ _array = EmptyArray /\ arrayLength = 0
  /\ _head = 0 /\ _tail = 0 /\ _size = 0
  /\ newarray = EmptyArray /\ removed = 0 /\ target = 0
  /\ loaded = [t \in Users |-> 0]
  /\ step = [t \in Users |-> "out"]
  /\ posted = 0 /\ dequeued = <<>> /\ overlapped = FALSE

Advances(t, from, to) ==
  /\ step[t] = from
  /\ step' = [step EXCEPT ![t] = to]
  /\ overlapped' = (overlapped \/ Encounter')

(* A step that only tests; one that reads; one that writes one of the fields. *)
Checks(t, from, to) ==
  Advances(t, from, to) /\ UNCHANGED <<elementVars, indexVars, localVars, posted, dequeued>>

Fetches(t, from, value, to) ==
  /\ Advances(t, from, to)
  /\ loaded' = [loaded EXCEPT ![t] = value]
  /\ UNCHANGED <<elementVars, indexVars, newarray, removed, target, posted, dequeued>>

Stored(t, from, to) ==
  /\ Advances(t, from, to)
  /\ loaded' = [loaded EXCEPT ![t] = 0]
  /\ UNCHANGED <<arrayLength, newarray, removed, posted>>

SetsHead(t, from, value, to) ==
  Stored(t, from, to) /\ _head' = value /\ UNCHANGED <<_array, _tail, _size, target, dequeued>>
SetsTail(t, from, value, to) ==
  Stored(t, from, to) /\ _tail' = value /\ UNCHANGED <<_array, _head, _size, target, dequeued>>
SetsSize(t, from, value, to) ==
  Stored(t, from, to) /\ _size' = value /\ UNCHANGED <<_array, _head, _tail, target>>
-----------------------------------------------------------------------------
(* Array.Clear and Array.Copy throw if the range is not in the array.         *)
InArray(first, count) == first >= 0 /\ count >= 0 /\ first + count <= arrayLength

ClearsRange(t, from, first, count, to) ==
  /\ InArray(first, count)
  /\ Stored(t, from, to)
  /\ _array' = [i \in 0 .. arrayLength - 1 |->
                  IF first <= i /\ i < first + count THEN 0 ELSE _array[i]]
  /\ UNCHANGED <<indexVars, target, dequeued>>

Clear(t) ==
  \/ Checks(t, "out", IF _head < _tail THEN "clearRange" ELSE "clearBack")
  \/ ClearsRange(t, "clearRange", _head, _size, "zeroHead")
  \/ ClearsRange(t, "clearBack", _head, arrayLength - _head, "clearFront")
  \/ ClearsRange(t, "clearFront", 0, _tail, "zeroHead")
  \/ SetsHead(t, "zeroHead", 0, "zeroTail")
  \/ SetsTail(t, "zeroTail", 0, "zeroSize")
  \/ SetsSize(t, "zeroSize", 0, "out") /\ UNCHANGED dequeued

ClearThrows(t) == \/ step[t] = "clearRange" /\ ~ InArray(_head, _size)
                  \/ step[t] = "clearFront" /\ ~ InArray(0, _tail)
-----------------------------------------------------------------------------
(* SetCapacity, when the array is full: a longer array, with the elements in  *)
(* the order of the queue.                                                    *)
NewCapacity == IF arrayLength < MinimumGrow THEN arrayLength + MinimumGrow ELSE 2 * arrayLength

InUse == IF _size <= 0 THEN 0 ELSE IF _head < _tail THEN _size ELSE arrayLength - _head + _tail
CanCopy == _size <= 0 \/ (IF _head < _tail THEN InArray(_head, _size) ELSE InArray(0, _tail))

SetCapacity ==
  \/ /\ Advances("ui", "copy", "setArray")
     /\ CanCopy
     /\ newarray' = [i \in 0 .. NewCapacity - 1 |->
                       IF i >= InUse THEN 0
                       ELSE IF _head + i < arrayLength THEN _array[_head + i]
                       ELSE _array[_head + i - arrayLength]]
     /\ UNCHANGED <<elementVars, indexVars, removed, loaded, target, posted, dequeued>>
  \/ /\ Advances("ui", "setArray", "setHead")
     /\ _array' = newarray /\ arrayLength' = NewCapacity
     /\ newarray' = EmptyArray
     /\ UNCHANGED <<indexVars, removed, loaded, target, posted, dequeued>>
  \/ SetsHead("ui", "setHead", 0, "fetchTail")
  \/ Fetches("ui", "fetchTail", IF _size = arrayLength THEN 0 ELSE _size, "setTail")
  \/ SetsTail("ui", "setTail", loaded["ui"], "fetchPlace")

Enqueue ==
  \/ /\ Advances("ui", "out", IF _size = arrayLength THEN "copy" ELSE "fetchPlace")
     /\ posted' = posted + 1
     /\ UNCHANGED <<elementVars, indexVars, localVars, dequeued>>
  \/ SetCapacity
  \/ _tail \in 0 .. arrayLength - 1 /\ Fetches("ui", "fetchPlace", _tail, "place")
  \/ /\ Stored("ui", "place", "nextTail")
     /\ _array' = [_array EXCEPT ![loaded["ui"]] = posted]
     /\ UNCHANGED <<indexVars, target, dequeued>>
  \/ Fetches("ui", "nextTail", (_tail + 1) % arrayLength, "setNextTail")
  \/ SetsTail("ui", "setNextTail", loaded["ui"], "count")
  \/ Fetches("ui", "count", _size + 1, "setCount")
  \/ SetsSize("ui", "setCount", loaded["ui"], "out") /\ UNCHANGED dequeued

EnqueueThrows == \/ step["ui"] = "copy" /\ ~ CanCopy
                 \/ step["ui"] = "fetchPlace" /\ _tail \notin 0 .. arrayLength - 1
-----------------------------------------------------------------------------
(* The sending thread calls Dequeue if Count is positive.                     *)
Count ==
  /\ Advances("send", "out", IF _size > 0 THEN "dequeue" ELSE "out")
  /\ removed' = 0
  /\ UNCHANGED <<elementVars, indexVars, newarray, loaded, target, posted, dequeued>>

(* `_array[_head] = default(T)`.  If the array has grown since it was read,   *)
(* it is a place of the old one that is cleared.                              *)
Forgets_not == UNCHANGED _array
Forgets == _array' = IF target = arrayLength THEN [_array EXCEPT ![loaded["send"]] = 0] ELSE _array

Dequeue ==
  \/ _size # 0 /\ Checks("send", "dequeue", "remove")
  \/ /\ Advances("send", "remove", "forget")
     /\ removed' = _array[_head]
     /\ UNCHANGED <<elementVars, indexVars, newarray, loaded, target, posted, dequeued>>
  \/ /\ Advances("send", "forget", "forgetAt")
     /\ loaded' = [loaded EXCEPT !["send"] = _head] /\ target' = arrayLength
     /\ UNCHANGED <<elementVars, indexVars, newarray, removed, posted, dequeued>>
  \/ /\ Stored("send", "forgetAt", "head")
     /\ Forgets /\ target' = 0
     /\ UNCHANGED <<indexVars, dequeued>>
  \/ Fetches("send", "head", (_head + 1) % arrayLength, "setHead")
  \/ SetsHead("send", "setHead", loaded["send"], "uncount")
  \/ Fetches("send", "uncount", _size - 1, "setUncount")
  \/ /\ SetsSize("send", "setUncount", loaded["send"], "out")
     /\ dequeued' = IF removed = 0 THEN dequeued ELSE Append(dequeued, removed)

DequeueThrows == step["send"] = "dequeue" /\ _size = 0
-----------------------------------------------------------------------------
(* An exception leaves the method.                                            *)
MethodThrows(t) == \/ t \in Clearers /\ ClearThrows(t)
                   \/ t = "ui" /\ EnqueueThrows
                   \/ t = "send" /\ DequeueThrows

Leaves(t) == MethodThrows(t) /\ Checks(t, step[t], "out")

SendQueueNext ==
  \/ Enqueue \/ Count \/ Dequeue
  \/ \E t \in Clearers : Clear(t)
  \/ \E t \in Users : Leaves(t)

SendQueueSpec == SendQueueInit /\ [][SendQueueNext]_sendQueueVars
-----------------------------------------------------------------------------
(* A packet that was added is taken out at most once, whatever the unlocked   *)
(* methods do to _size, unless the two encounters happened.                   *)
DequeuedOnce == ~ overlapped => IsInjective(dequeued)

(* Types.  The indices stay in the array, but for a _tail that SetCapacity    *)
(* takes from a _size of -1; -1 is what a Clear between the two reads of      *)
(* _size in Dequeue leaves.                                                   *)
Indices == {0} \cup 0 .. arrayLength - 1

SendQueueTypeOK ==
  /\ posted \in Nat /\ arrayLength \in Nat
  /\ _array \in [0 .. arrayLength - 1 -> 0 .. posted]
  /\ _head \in Indices /\ _tail \in Indices \cup {-1} /\ _size \in -1 .. arrayLength
  /\ removed \in 0 .. posted
  /\ loaded \in [Users -> Int] /\ target \in Nat
  /\ dequeued \in Seq(1 .. posted)
=============================================================================
