---------------------- MODULE CriticalSectionLockProofs ---------------------
(* The lock wrappers of MGServerLib/Synchronized.h exclude each other for any *)
(* number of threads and any depth of nesting, over either kind of object of  *)
(* the operating system, and implement ReentrantLock.                         *)
EXTENDS CriticalSectionLock, TLAPS

(* A thread is inside from the moment the operating system let it in.         *)
Inside(t) == depth[t] > 0 \/ pc[t] \in {"own", "zero", "nest", "clear", "leave"}

(* The thread inside owns the object of the operating system, once.           *)
OwnerInv == /\ \A t \in Threads : Inside(t) <=> osOwner = t
            /\ osCount = IF osOwner = None THEN 0 ELSE 1

(* owningThread names the thread inside, but for the first step after it got  *)
(* in and the last one before it leaves; so what accquire reads without the   *)
(* lock is its own name exactly if it is inside.                              *)
NameInv == \A t \in Threads : owningThread = t <=> Inside(t) /\ pc[t] \notin {"own", "leave"}

(* nestingLevel is the depth of the thread inside, once it was reset.         *)
NestingInv ==
  /\ \A t \in Threads : pc[t] \in {"enter", "own", "zero"} => depth[t] = 0
  /\ \A t \in Threads : Inside(t) /\ pc[t] \in {"run", "nest"} => nestingLevel = depth[t]
  /\ \A t \in Threads : pc[t] \in {"clear", "leave"} => nestingLevel = 0 /\ depth[t] = 1
  /\ \A t \in Threads : depth[t] <= MaxDepth
  /\ \A t \in Threads : pc[t] \in {"enter", "own", "zero", "nest"} => depth[t] < MaxDepth

IInv == TypeOK /\ OwnerInv /\ NameInv /\ NestingInv

LEMMA InitIInv == Init => IInv
  BY LockAssumption
  DEF Init, IInv, TypeOK, OwnerInv, NameInv, NestingInv, Inside, Labels

LEMMA StepIInv == IInv /\ [Next]_vars => IInv'
<1> SUFFICES ASSUME IInv, [Next]_vars PROVE IInv'
  OBVIOUS
<1> USE LockAssumption DEF IInv, TypeOK, OwnerInv, NameInv, NestingInv, Inside, Labels, Step
<1>1. ASSUME NEW t \in Threads, accquire(t) PROVE IInv'
  BY <1>1 DEF accquire
<1>2. ASSUME NEW t \in Threads, Enter(t) PROVE IInv'
  BY <1>2 DEF Enter
<1>3. ASSUME NEW t \in Threads, SetOwner(t) PROVE IInv'
  BY <1>3 DEF SetOwner
<1>4. ASSUME NEW t \in Threads, ResetNesting(t) PROVE IInv'
  BY <1>4 DEF ResetNesting
<1>5. ASSUME NEW t \in Threads, Nest(t) PROVE IInv'
  BY <1>5 DEF Nest
<1>6. ASSUME NEW t \in Threads, release(t) PROVE IInv'
  BY <1>6 DEF release
<1>7. ASSUME NEW t \in Threads, ClearOwner(t) PROVE IInv'
  BY <1>7 DEF ClearOwner
<1>8. ASSUME NEW t \in Threads, Leave(t) PROVE IInv'
  BY <1>8 DEF Leave
<1>9. CASE UNCHANGED vars
  BY <1>9 DEF vars
<1> QED
  BY <1>1, <1>2, <1>3, <1>4, <1>5, <1>6, <1>7, <1>8, <1>9 DEF Next, Acquiring, Releasing

LEMMA Inductive == Spec => []IInv
  BY InitIInv, StepIInv, PTL DEF Spec

(* The fields keep their types; nestingLevel never exceeds the nesting bound. *)
THEOREM TypeCorrect == Spec => []TypeOK
<1>1. IInv => TypeOK
  BY DEF IInv
<1> QED
  BY <1>1, Inductive, PTL

(* accquire and release of Synchronized.h exclude all other threads.          *)
THEOREM MutexHolds == Spec => []MutualExclusion
<1>1. IInv => MutualExclusion
  BY LockAssumption DEF IInv, OwnerInv, Inside, MutualExclusion
<1> QED
  BY <1>1, Inductive, PTL

(* Inside, a thread's nesting level is the number of its Synchronized objects *)
(* and owningThread is its own name.                                          *)
THEOREM NestingHolds == Spec => []NestingMatches
<1>1. IInv => NestingMatches
  BY LockAssumption
  DEF IInv, TypeOK, OwnerInv, NameInv, NestingInv, Inside, NestingMatches, Labels
<1> QED
  BY <1>1, Inductive, PTL

LEMMA AbstractInit == Init => Abstract!Init
  BY DEF Init, Abstract!Init

LEMMA AbstractStep == IInv /\ [Next]_vars => [Abstract!Next]_depth
<1> SUFFICES ASSUME IInv, [Next]_vars, depth' # depth PROVE Abstract!Next
  BY DEF Abstract!Next
<1> USE LockAssumption DEF IInv, TypeOK, OwnerInv, NestingInv, Inside, Labels, Step
<1>1. ASSUME NEW t \in Threads, Nest(t) PROVE Abstract!Acquire(t)
  BY <1>1 DEF Nest, Abstract!Acquire
<1>2. ASSUME NEW t \in Threads, release(t) PROVE Abstract!Release(t)
  BY <1>2 DEF release, Abstract!Release
<1>3. ASSUME NEW t \in Threads, Leave(t) PROVE Abstract!Release(t)
  BY <1>3 DEF Leave, Abstract!Release
<1>4. ASSUME NEW t \in Threads,
             accquire(t) \/ Enter(t) \/ SetOwner(t) \/ ResetNesting(t) \/ ClearOwner(t)
      PROVE FALSE
  BY <1>4 DEF accquire, Enter, SetOwner, ResetNesting, ClearOwner
<1>5. ~ UNCHANGED vars
  BY DEF vars
<1> QED
  BY <1>1, <1>2, <1>3, <1>4, <1>5
  DEF Next, Acquiring, Releasing, Abstract!Next

(* The wrapper implements the recursive lock of Synchronized: the unlocked    *)
(* read of owningThread costs nothing.                                        *)
THEOREM LockRefines == Spec => ImplementsReentrantLock
  BY AbstractInit, AbstractStep, Inductive, PTL DEF Spec, ImplementsReentrantLock, Abstract!Spec
=============================================================================
