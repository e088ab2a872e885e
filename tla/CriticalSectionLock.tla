------------------------- MODULE CriticalSectionLock ------------------------
(* CriticalSectionLockWrapper and SemaphoreLock (MGServerLib/Synchronized.h), *)
(* one action per shared access.  Both put the same recursion protocol on top *)
(* of an object of the operating system: a thread first reads owningThread,   *)
(* without any lock, to learn whether the lock is its own already.  The only  *)
(* difference is that a critical section can be entered again by its owner    *)
(* and a semaphore cannot.                                                    *)
EXTENDS Naturals, FiniteSets

CONSTANTS Threads, None,
          MaxDepth       \* bound: Synchronized objects stacked by one thread

ASSUME LockAssumption == /\ None \notin Threads
                         /\ MaxDepth \in Nat \ {0}

VARIABLES reenterable,   \* TRUE: a CRITICAL_SECTION, FALSE: a semaphore of count 1
          osOwner, osCount,           \* the object of the operating system
          owningThread, nestingLevel, \* the fields of the wrapper
          pc, depth                   \* per thread: place, live Synchronized objects

vars == <<reenterable, osOwner, osCount, owningThread, nestingLevel, pc, depth>>

Labels == {"run", "enter", "own", "zero", "nest", "clear", "leave"}

Init == /\ reenterable \in BOOLEAN
        /\ osOwner = None
        /\ osCount = 0
        /\ owningThread = None
        /\ nestingLevel = 0
        /\ pc = [t \in Threads |-> "run"]
        /\ depth = [t \in Threads |-> 0]

Step(t, from, to) == /\ pc[t] = from
                     /\ pc' = [pc EXCEPT ![t] = to]
                     /\ UNCHANGED reenterable

accquire_anyOwner(t) ==
  /\ depth[t] < MaxDepth
  /\ Step(t, "run", IF owningThread # None THEN "nest" ELSE "enter")
  /\ UNCHANGED <<osOwner, osCount, owningThread, nestingLevel, depth>>

(* accquire(): `if (owningThread != GetCurrentThreadId())`, read unlocked.    *)
accquire(t) ==
  /\ depth[t] < MaxDepth
  /\ Step(t, "run", IF owningThread = t THEN "nest" ELSE "enter")
  /\ UNCHANGED <<osOwner, osCount, owningThread, nestingLevel, depth>>

(* EnterCriticalSection, or WaitForSingleObject on the semaphore.             *)
Enter(t) ==
  /\ Step(t, "enter", "own")
  /\ osOwner \in IF reenterable THEN {None, t} ELSE {None}
  /\ osOwner' = t
  /\ osCount' = osCount + 1
  /\ UNCHANGED <<owningThread, nestingLevel, depth>>

SetOwner(t) ==
  /\ Step(t, "own", "zero")
  /\ owningThread' = t
  /\ UNCHANGED <<osOwner, osCount, nestingLevel, depth>>

ResetNesting_toOne(t) ==
  /\ Step(t, "zero", "nest")
  /\ nestingLevel' = 1
  /\ UNCHANGED <<osOwner, osCount, owningThread, depth>>

ResetNesting(t) ==
  /\ Step(t, "zero", "nest")
  /\ nestingLevel' = 0
  /\ UNCHANGED <<osOwner, osCount, owningThread, depth>>

Nest(t) ==
  /\ Step(t, "nest", "run")
  /\ nestingLevel' = nestingLevel + 1
  /\ depth' = [depth EXCEPT ![t] = @ + 1]
  /\ UNCHANGED <<osOwner, osCount, owningThread>>

release_noDecrement(t) ==
  /\ depth[t] > 0
  /\ Step(t, "run", IF nestingLevel = 1 THEN "clear" ELSE "run")
  /\ nestingLevel' = IF nestingLevel = 1 THEN 0 ELSE nestingLevel
  /\ owningThread' = IF nestingLevel = 0 THEN None ELSE owningThread
  /\ depth' = IF nestingLevel = 1 THEN depth ELSE [depth EXCEPT ![t] = @ - 1]
  /\ UNCHANGED <<osOwner, osCount>>

(* release(): the last level first clears owningThread and then frees the     *)
(* object of the operating system; at nesting zero only owningThread changes. *)
release(t) ==
  /\ depth[t] > 0
  /\ Step(t, "run", IF nestingLevel = 1 THEN "clear" ELSE "run")
  /\ nestingLevel' = IF nestingLevel = 0 THEN 0 ELSE nestingLevel - 1
  /\ owningThread' = IF nestingLevel = 0 THEN None ELSE owningThread
  /\ depth' = IF nestingLevel = 1 THEN depth ELSE [depth EXCEPT ![t] = @ - 1]
  /\ UNCHANGED <<osOwner, osCount>>

ClearOwner(t) ==
  /\ Step(t, "clear", "leave")
  /\ owningThread' = None
  /\ UNCHANGED <<osOwner, osCount, nestingLevel, depth>>

Leave_missing(t) ==
  /\ Step(t, "leave", "run")
  /\ depth' = [depth EXCEPT ![t] = @ - 1]
  /\ UNCHANGED <<osOwner, osCount, owningThread, nestingLevel>>

(* LeaveCriticalSection, or ReleaseSemaphore.                                 *)
Leave(t) ==
  /\ Step(t, "leave", "run")
  /\ osCount' = osCount - 1
  /\ osOwner' = IF osCount = 1 THEN None ELSE osOwner
  /\ depth' = [depth EXCEPT ![t] = @ - 1]
  /\ UNCHANGED <<owningThread, nestingLevel>>

Acquiring(t) == Enter(t) \/ SetOwner(t) \/ ResetNesting(t) \/ Nest(t)
Releasing(t) == release(t) \/ ClearOwner(t) \/ Leave(t)

Next == \E t \in Threads : accquire(t) \/ Acquiring(t) \/ Releasing(t)

Spec == Init /\ [][Next]_vars

(* Every Synchronized object is a local variable, so its destructor runs: a   *)
(* thread inside comes to release its outermost one.  A thread that waits for the object of   *)
(* the operating system gets it if it comes free again and again.             *)
FairSpec == /\ Spec
            /\ \A t \in Threads : /\ SF_vars(Enter(t))
                                  /\ WF_vars(SetOwner(t) \/ ResetNesting(t) \/ Nest(t))
                                  /\ WF_vars(ClearOwner(t) \/ Leave(t))
                                  /\ \A n \in 1 .. MaxDepth :
                                       SF_vars(nestingLevel = n /\ release(t))
-----------------------------------------------------------------------------
(* Types; the nesting level counts no more than the stacked objects.          *)
TypeOK == /\ reenterable \in BOOLEAN
          /\ osOwner \in Threads \cup {None}
          /\ osCount \in Nat
          /\ owningThread \in Threads \cup {None}
          /\ nestingLevel \in 0 .. MaxDepth
          /\ pc \in [Threads -> Labels]
          /\ depth \in [Threads -> Nat]

(* Between accquire and release only one thread is inside, although accquire  *)
(* decides on a read of owningThread that no lock protects.                   *)
MutualExclusion == \A t, u \in Threads : depth[t] > 0 /\ depth[u] > 0 => t = u

(* A thread that works under the lock finds its own name in owningThread and  *)
(* its own depth in nestingLevel, so nested Synchronized objects neither      *)
(* block on themselves nor release the lock early.                            *)
NestingMatches ==
  \A t \in Threads : pc[t] = "run" /\ depth[t] > 0 =>
     owningThread = t /\ nestingLevel = depth[t] /\ osOwner = t /\ osCount = 1

(* The wrapper implements the recursive lock that Synchronized relies on.     *)
Abstract == INSTANCE ReentrantLock
ImplementsReentrantLock == Abstract!Spec

(* Every thread that waits for the lock comes to hold it.                     *)
WaiterEnters == \A t \in Threads : pc[t] = "enter" ~> depth[t] > 0
=============================================================================
