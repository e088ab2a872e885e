--------------------------- MODULE ReentrantLock ----------------------------
(* What a Synchronizable promises to the Synchronized objects built on it     *)
(* (MGServerLib/Synchronized.h): a thread may stack any number of them, and   *)
(* while one thread has at least one, no other thread has any.                *)
EXTENDS Naturals

CONSTANTS Threads, MaxDepth

VARIABLE depth    \* depth[t]: Synchronized objects alive on the stack of t

Init == depth = [t \in Threads |-> 0]

Acquire(t) == /\ depth[t] < MaxDepth
              /\ \A u \in Threads \ {t} : depth[u] = 0
              /\ depth' = [depth EXCEPT ![t] = @ + 1]

Release(t) == /\ depth[t] > 0
              /\ depth' = [depth EXCEPT ![t] = @ - 1]

Next == \E t \in Threads : Acquire(t) \/ Release(t)

Spec == Init /\ [][Next]_depth
=============================================================================
