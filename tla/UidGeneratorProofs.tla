------------------------- MODULE UidGeneratorProofs -------------------------
(* ULONG_PTRGenerator (MGServerLib/Maths.h) never hands out a uid that is in  *)
(* use, for any start, any step and any number of sockets; and the methods of *)
(* Asios.h that call it under assockuidGenLock are atomic.                    *)
EXTENDS SocketUids, TLAPS

IInv == TypeOK /\ NoDoubleOwner

LEMMA InitIInv == Init => IInv
  BY GeneratorAssumption DEF Init, IInv, TypeOK, NoDoubleOwner, IsInjective, Range

(* What the two operations on the list do to its range.                       *)
LEMMA HeadTail ==
  ASSUME NEW S, NEW q \in Seq(S), q # <<>>, IsInjective(q)
  PROVE  /\ Head(q) \in S /\ Tail(q) \in Seq(S)
         /\ IsInjective(Tail(q))
         /\ Range(Tail(q)) = Range(q) \ {Head(q)}
<1>1. /\ Head(q) \in S /\ Tail(q) \in Seq(S) /\ Len(q) \in Nat \ {0}
      /\ Head(q) = q[1] /\ DOMAIN q = 1 .. Len(q)
      /\ Len(Tail(q)) = Len(q) - 1 /\ DOMAIN Tail(q) = 1 .. Len(q) - 1
      /\ \A i \in 1 .. Len(q) - 1 : Tail(q)[i] = q[i + 1]
  OBVIOUS
<1>2. IsInjective(Tail(q))
  BY <1>1 DEF IsInjective
<1>3. Range(Tail(q)) \subseteq Range(q) \ {Head(q)}
  BY <1>1 DEF IsInjective, Range
<1>4. ASSUME NEW x \in Range(q) \ {Head(q)} PROVE x \in Range(Tail(q))
  <2>1. PICK i \in 1 .. Len(q) : q[i] = x
    BY <1>1 DEF Range
  <2>2. i # 1 /\ i - 1 \in 1 .. Len(q) - 1 /\ Tail(q)[i - 1] = x
    BY <1>1, <1>4, <2>1
  <2> QED
    BY <1>1, <2>2 DEF Range
<1> QED
  BY <1>1, <1>2, <1>3, <1>4

LEMMA AppendNew ==
  ASSUME NEW S, NEW q \in Seq(S), NEW n \in S, IsInjective(q), n \notin Range(q)
  PROVE  /\ Append(q, n) \in Seq(S)
         /\ IsInjective(Append(q, n))
         /\ Range(Append(q, n)) = Range(q) \cup {n}
<1>1. /\ Append(q, n) \in Seq(S) /\ Len(q) \in Nat /\ DOMAIN q = 1 .. Len(q)
      /\ DOMAIN Append(q, n) = 1 .. Len(q) + 1
      /\ \A i \in 1 .. Len(q) : Append(q, n)[i] = q[i]
      /\ Append(q, n)[Len(q) + 1] = n
  OBVIOUS
<1>2. IsInjective(Append(q, n))
  BY <1>1 DEF IsInjective, Range
<1>3. Range(Append(q, n)) = Range(q) \cup {n}
  BY <1>1 DEF Range
<1> QED
  BY <1>1, <1>2, <1>3

LEMMA StepIInv == IInv /\ [Next]_vars => IInv'
<1> SUFFICES ASSUME IInv, [Next]_vars PROVE IInv'
  OBVIOUS
<1> USE GeneratorAssumption DEF IInv, TypeOK, NoDoubleOwner
<1>1. ASSUME NEW n, retrieve(n), held' = held \cup {n} PROVE IInv'
  <2>1. CASE reuseList = <<>>
    <3>1. /\ Range(reuseList) = {} /\ UNCHANGED reuseList
          /\ n = currentNumber + multiple /\ currentNumber' = n
      BY <1>1, <2>1 DEF retrieve, Range
    <3>2. n \in Nat \ {0} /\ \A m \in held : m <= n
      BY <3>1
    <3> QED
      BY <1>1, <3>1, <3>2
  <2>2. CASE reuseList # <<>>
    <3>1. n = Head(reuseList) /\ reuseList' = Tail(reuseList) /\ UNCHANGED currentNumber
      BY <1>1, <2>2 DEF retrieve
    <3>2. n \in Range(reuseList) /\ n \in Nat \ {0}
      BY <2>2, <3>1 DEF Range
    <3>3. /\ reuseList' \in Seq(Nat \ {0})
          /\ IsInjective(reuseList')
          /\ Range(reuseList') = Range(reuseList) \ {n}
      BY <2>2, <3>1, HeadTail
    <3> QED
      BY <1>1, <3>1, <3>2, <3>3
  <2> QED
    BY <2>1, <2>2
<1>2. ASSUME NEW n \in held, release(n), held' = held \ {n} PROVE IInv'
  BY <1>2, AppendNew DEF release
<1>3. CASE UNCHANGED vars
  BY <1>3 DEF vars
<1> QED
  BY <1>1, <1>2, <1>3 DEF Next, Retrieve, Release

LEMMA Inductive == Spec => []IInv
  BY InitIInv, StepIInv, PTL DEF Spec

(* No number in circulation is 0.                                             *)
THEOREM UidTypes == Spec => []TypeOK
  BY Inductive, PTL DEF IInv

(* The generator never gives two sockets the same uid.                        *)
THEOREM UidNoDoubleOwner == Spec => []NoDoubleOwner
  BY Inductive, PTL DEF IInv
-----------------------------------------------------------------------------
(* The lock, as in CriticalSectionLockProofs: who is inside, whose name is in *)
(* owningThread, and how deep.                                                *)
Occupies(t) == depth[t] > 0 \/ pc[t] \in {"own", "zero", "nest", "clear", "leave"}

LockTypes == /\ osCount \in Nat
             /\ nestingLevel \in Nat
             /\ pc \in [Threads -> assockuidGenLock!Labels]
             /\ depth \in [Threads -> Nat]

OwnerInv == /\ \A t \in Threads : Occupies(t) <=> osOwner = t
            /\ osCount = IF osOwner = None THEN 0 ELSE 1

NameInv == \A t \in Threads : owningThread = t <=> Occupies(t) /\ pc[t] \notin {"own", "leave"}

NestingInv ==
  /\ \A t \in Threads : pc[t] \in {"enter", "own", "zero"} => depth[t] = 0
  /\ \A t \in Threads : Occupies(t) /\ pc[t] \in {"run", "nest"} => nestingLevel = depth[t]
  /\ \A t \in Threads : pc[t] \in {"clear", "leave"} => nestingLevel = 0 /\ depth[t] = 1

LockInv == LockTypes /\ OwnerInv /\ NameInv /\ NestingInv

(* What retrieve() has read is still so when it writes, and only a thread     *)
(* that is inside has read anything or has done its work.                     *)
ReadInv ==
  /\ local \in [Threads -> [fresh : BOOLEAN, number : Nat]]
  /\ done \in [Threads -> BOOLEAN]
  /\ \A t \in Threads : done[t] => depth[t] > 0 /\ local[t] = Nothing
  /\ \A t \in Threads : local[t] # Nothing =>
       /\ pc[t] = "run" /\ depth[t] > 0
       /\ Cardinality(held) < MaxHeld
       /\ local[t].fresh <=> reuseList = <<>>
       /\ local[t].number = IF reuseList = <<>> THEN currentNumber + multiple
                                                ELSE Head(reuseList)

SocketInv == IInv /\ LockInv /\ ReadInv

LEMMA SocketInitInv == SocketInit => SocketInv
<1> SUFFICES ASSUME SocketInit PROVE LockInv /\ ReadInv
  BY InitIInv DEF SocketInit, SocketInv
<1> USE SocketAssumption DEF SocketInit, assockuidGenLock!Init
<1>1. LockInv
  BY DEF LockInv, LockTypes, OwnerInv, NameInv, NestingInv, Occupies, assockuidGenLock!Labels
<1>2. ReadInv
  BY DEF ReadInv, Nothing
<1> QED
  BY <1>1, <1>2

LEMMA LockStep ==
  ASSUME LockInv, NEW t \in Threads,
         assockuidGenLock!accquire(t) \/ assockuidGenLock!Acquiring(t)
           \/ assockuidGenLock!Releasing(t)
  PROVE  /\ LockInv'
         /\ \A u \in Threads \ {t} : pc'[u] = pc[u] /\ depth'[u] = depth[u]
<1> USE SocketAssumption
    DEF LockInv, LockTypes, OwnerInv, NameInv, NestingInv, Occupies,
        assockuidGenLock!Labels, assockuidGenLock!Step
<1>1. CASE assockuidGenLock!accquire(t)
  BY <1>1 DEF assockuidGenLock!accquire
<1>2. CASE assockuidGenLock!Enter(t)
  BY <1>2 DEF assockuidGenLock!Enter
<1>3. CASE assockuidGenLock!SetOwner(t)
  BY <1>3 DEF assockuidGenLock!SetOwner
<1>4. CASE assockuidGenLock!ResetNesting(t)
  BY <1>4 DEF assockuidGenLock!ResetNesting
<1>5. CASE assockuidGenLock!Nest(t)
  BY <1>5 DEF assockuidGenLock!Nest
<1>6. CASE assockuidGenLock!release(t)
  BY <1>6 DEF assockuidGenLock!release
<1>7. CASE assockuidGenLock!ClearOwner(t)
  BY <1>7 DEF assockuidGenLock!ClearOwner
<1>8. CASE assockuidGenLock!Leave(t)
  BY <1>8 DEF assockuidGenLock!Leave
<1> QED
  BY <1>1, <1>2, <1>3, <1>4, <1>5, <1>6, <1>7, <1>8
  DEF assockuidGenLock!Acquiring, assockuidGenLock!Releasing

LEMMA OneInside ==
  ASSUME LockInv, NEW t \in Threads, NEW u \in Threads, depth[t] > 0, depth[u] > 0
  PROVE  t = u
  BY DEF LockInv, OwnerInv, Occupies

(* A number that is read is one that may be handed out.                       *)
LEMMA NumberRead ==
  ASSUME IInv, NEW t \in Threads, ReadInv, local[t] # Nothing
  PROVE  local[t].number \in 0 .. currentNumber + multiple
<1> USE GeneratorAssumption
<1>1. /\ currentNumber \in Nat /\ reuseList \in Seq(Nat \ {0})
      /\ \A n \in Range(reuseList) : n <= currentNumber
  BY DEF IInv, TypeOK, NoDoubleOwner
<1>2. local[t].number = IF reuseList = <<>> THEN currentNumber + multiple ELSE Head(reuseList)
  BY DEF ReadInv
<1>3. CASE reuseList = <<>>
  BY <1>1, <1>2, <1>3
<1>4. CASE reuseList # <<>>
  <2>1. Head(reuseList) \in Range(reuseList) /\ Head(reuseList) \in Nat
    BY <1>1, <1>4 DEF Range
  <2> QED
    BY <1>1, <1>2, <1>4, <2>1
<1> QED
  BY <1>3, <1>4

(* The step that writes is the whole method.                                  *)
LEMMA SocketStep == SocketInv /\ [SocketNext]_allVars => [Next]_vars
<1> SUFFICES ASSUME SocketInv, SocketNext, vars' # vars PROVE Next
  BY DEF allVars
<1>1. ASSUME NEW t \in Threads, Locks(t) \/ Unlocks(t) \/ RetrieveReads(t) PROVE FALSE
  BY <1>1 DEF Locks, Unlocks, RetrieveReads, vars
<1>2. ASSUME NEW t \in Threads, RetrieveWrites(t) PROVE Retrieve
  <2>0. PICK n : n = local[t].number
    OBVIOUS
  <2>1. /\ Cardinality(held) < MaxHeld
        /\ local[t].fresh <=> reuseList = <<>>
        /\ n = IF reuseList = <<>> THEN currentNumber + multiple ELSE Head(reuseList)
    BY <1>2, <2>0 DEF RetrieveWrites, SocketInv, ReadInv
  <2>2. n \in 0 .. currentNumber + multiple
    BY <1>2, <2>0, NumberRead DEF RetrieveWrites, SocketInv
  <2>3. held' = held \cup {n}
    BY <1>2, <2>0 DEF RetrieveWrites
  <2>4. retrieve(n)
    <3>1. CASE reuseList = <<>>
      BY <1>2, <2>0, <2>1, <3>1 DEF RetrieveWrites, retrieve
    <3>2. CASE reuseList # <<>>
      <4>1. n = Head(reuseList) /\ ~ local[t].fresh
        BY <2>0, <2>1, <3>2
      <4>2. reuseList' = Tail(reuseList) /\ UNCHANGED currentNumber
        BY <1>2, <4>1 DEF RetrieveWrites
      <4> QED
        BY <3>2, <4>1, <4>2 DEF retrieve
    <3> QED
      BY <3>1, <3>2
  <2> QED
    BY <2>1, <2>2, <2>3, <2>4 DEF Retrieve
<1>3. ASSUME NEW t \in Threads, Releases(t) PROVE Release
  BY <1>3 DEF Releases
<1> QED
  BY <1>1, <1>2, <1>3 DEF SocketNext, Next

LEMMA SocketStepInv == SocketInv /\ [SocketNext]_allVars => SocketInv'
<1> SUFFICES ASSUME SocketInv, [SocketNext]_allVars PROVE SocketInv'
  OBVIOUS
<1>1. IInv'
  BY SocketStep, StepIInv DEF SocketInv
<1> SUFFICES LockInv' /\ ReadInv'
  BY <1>1 DEF SocketInv
<1>2. LockInv /\ ReadInv /\ IInv
  BY DEF SocketInv
<1>3. CASE UNCHANGED allVars
  <2>1. LockInv'
    BY <1>2, <1>3 DEF allVars, lockVars, LockInv, LockTypes, OwnerInv, NameInv, NestingInv, Occupies
  <2>2. ReadInv'
    BY <1>2, <1>3 DEF allVars, vars, lockVars, ReadInv
  <2> QED
    BY <2>1, <2>2
<1>4. ASSUME NEW t \in Threads, Locks(t) PROVE LockInv' /\ ReadInv'
  <2>1. LockInv' /\ \A u \in Threads \ {t} : pc'[u] = pc[u] /\ depth'[u] = depth[u]
    BY <1>2, <1>4, LockStep DEF Locks
  <2>2. UNCHANGED <<vars, local, done>> /\ ~ done[t]
    BY <1>4 DEF Locks
  <2>3. local[t] = Nothing
    BY <1>2, <1>4, SocketAssumption
    DEF Locks, ReadInv, LockInv, LockTypes, assockuidGenLock!accquire,
        assockuidGenLock!Acquiring, assockuidGenLock!Enter, assockuidGenLock!SetOwner,
        assockuidGenLock!ResetNesting, assockuidGenLock!Nest, assockuidGenLock!Step
  <2>4. ReadInv'
    BY <1>2, <2>1, <2>2, <2>3 DEF ReadInv, vars
  <2> QED
    BY <2>1, <2>4
<1>5. ASSUME NEW t \in Threads, Unlocks(t) PROVE LockInv' /\ ReadInv'
  <2>1. LockInv' /\ \A u \in Threads \ {t} : pc'[u] = pc[u] /\ depth'[u] = depth[u]
    BY <1>2, <1>5, LockStep DEF Unlocks
  <2>2. /\ UNCHANGED <<vars, local>> /\ done[t]
        /\ done' = [done EXCEPT ![t] = depth'[t] > 0]
    BY <1>5 DEF Unlocks
  <2>3. local[t] = Nothing
    BY <1>2, <2>2 DEF ReadInv
  <2>4. ReadInv'
    <3>0. PICK b \in BOOLEAN : b = (depth'[t] > 0) /\ done' = [done EXCEPT ![t] = b]
      <4>1. (depth'[t] > 0) \in BOOLEAN
        OBVIOUS
      <4> QED
        BY <2>2, <4>1, Zenon
    <3>1. done' \in [Threads -> BOOLEAN]
      BY <1>2, <3>0 DEF ReadInv
    <3>2. \A u \in Threads : done'[u] => depth'[u] > 0 /\ local'[u] = Nothing
      BY <1>2, <2>1, <2>2, <2>3, <3>0 DEF ReadInv
    <3>3. \A u \in Threads : local'[u] # Nothing => u # t /\ local[u] # Nothing
      BY <2>2, <2>3
    <3> QED
      BY <1>2, <2>1, <2>2, <3>1, <3>2, <3>3 DEF ReadInv, vars
  <2> QED
    BY <2>1, <2>4
<1>6. ASSUME UNCHANGED lockVars PROVE LockInv'
  BY <1>2, <1>6 DEF lockVars, LockInv, LockTypes, OwnerInv, NameInv, NestingInv, Occupies
<1>7. ASSUME NEW t \in Threads, RetrieveReads(t) PROVE ReadInv'
  <2>1. /\ pc[t] = "run" /\ depth[t] > 0 /\ ~ done[t]
        /\ Cardinality(held) < MaxHeld /\ UNCHANGED <<vars, lockVars, done>>
    BY <1>7 DEF RetrieveReads, Inside
  <2>2. PICK r : /\ r = IF reuseList = <<>>
                          THEN [fresh |-> TRUE, number |-> currentNumber + multiple]
                          ELSE [fresh |-> FALSE, number |-> Head(reuseList)]
                 /\ local' = [local EXCEPT ![t] = r]
    BY <1>7 DEF RetrieveReads
  <2>3. currentNumber + multiple \in Nat /\ (reuseList # <<>> => Head(reuseList) \in Nat)
    BY <1>2, GeneratorAssumption DEF IInv, TypeOK
  <2>4. r \in [fresh : BOOLEAN, number : Nat]
    BY <2>2, <2>3
  <2>5. /\ r.fresh <=> reuseList = <<>>
        /\ r.number = IF reuseList = <<>> THEN currentNumber + multiple ELSE Head(reuseList)
    BY <2>2
  <2> QED
    BY <1>2, <2>1, <2>2, <2>4, <2>5 DEF ReadInv, vars, lockVars
<1>8. ASSUME NEW t \in Threads, RetrieveWrites(t) \/ Releases(t) PROVE ReadInv'
  <2>1. /\ Inside(t) /\ UNCHANGED lockVars /\ done' = [done EXCEPT ![t] = TRUE]
        /\ local' = [local EXCEPT ![t] = Nothing]
    BY <1>2, <1>8 DEF RetrieveWrites, Releases, ReadInv
  <2>2. \A u \in Threads \ {t} : depth[u] = 0
    BY <1>2, <2>1, OneInside DEF Inside, LockInv, LockTypes
  <2>3. \A u \in Threads \ {t} : local[u] = Nothing /\ ~ done[u]
    BY <1>2, <2>2 DEF ReadInv
  <2> QED
    BY <1>2, <2>1, <2>3 DEF ReadInv, lockVars, Inside, Nothing
<1> QED
  BY <1>3, <1>4, <1>5, <1>6, <1>7, <1>8
  DEF SocketNext, RetrieveReads, RetrieveWrites, Releases

(* Under assockuidGenLock, retrieveASSOCKUID and releaseASSOCKUID are the     *)
(* atomic steps of the generator, for any number of threads.                  *)
THEOREM SocketsUseGenerator == SocketSpec => ImplementsUidGenerator
<1>1. SocketInit => Init
  BY DEF SocketInit
<1> QED
  BY <1>1, SocketInitInv, SocketStepInv, SocketStep, PTL
  DEF SocketSpec, ImplementsUidGenerator, Spec
=============================================================================
