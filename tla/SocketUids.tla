----------------------------- MODULE SocketUids -----------------------------
(* retrieveASSOCKUID and releaseASSOCKUID (MGServerLib/Asios.h): the uid      *)
(* generator, access by access, under assockuidGenLock, the lock of           *)
(* CriticalSectionLock.  Every thread may construct sockets and give uids of  *)
(* sockets back.                                                              *)
EXTENDS UidGenerator

CONSTANTS Threads, None, MaxDepth

ASSUME SocketAssumption == None \notin Threads /\ MaxDepth \in Nat \ {0}

VARIABLES reenterable, osOwner, osCount, owningThread, nestingLevel, pc, depth,
          local,   \* what retrieve() has read: a new number or the front
          done     \* the body of the method has run, its lock is still held

assockuidGenLock == INSTANCE CriticalSectionLock

lockVars == <<reenterable, osOwner, osCount, owningThread, nestingLevel, pc, depth>>
allVars  == <<vars, lockVars, local, done>>

Nothing == [fresh |-> FALSE, number |-> 0]

SocketInit == /\ Init
              /\ assockuidGenLock!Init /\ reenterable
              /\ local = [t \in Threads |-> Nothing]
              /\ done = [t \in Threads |-> FALSE]

(* The constructor and the destructor of the Synchronized object.             *)
Locks(t) == /\ ~ done[t]
            /\ \/ depth[t] = 0 /\ assockuidGenLock!accquire(t)
               \/ assockuidGenLock!Acquiring(t)
            /\ UNCHANGED <<vars, local, done>>

Unlocks(t) == /\ done[t]
              /\ assockuidGenLock!Releasing(t)
              /\ done' = [done EXCEPT ![t] = depth'[t] > 0]
              /\ UNCHANGED <<vars, local>>

Inside(t) == pc[t] = "run" /\ depth[t] > 0 /\ ~ done[t]

(* retrieve() looks at the list and the counter ...                           *)
RetrieveReads(t) ==
  /\ Inside(t) /\ local[t] = Nothing
  /\ Cardinality(held) < MaxHeld
  /\ local' = [local EXCEPT ![t] =
       IF reuseList = <<>> THEN [fresh |-> TRUE, number |-> currentNumber + multiple]
                           ELSE [fresh |-> FALSE, number |-> Head(reuseList)]]
  /\ UNCHANGED <<vars, lockVars, done>>

(* ... and then changes one of them.                                          *)
RetrieveWrites(t) ==
  /\ Inside(t) /\ local[t] # Nothing
  /\ IF local[t].fresh
       THEN currentNumber' = local[t].number /\ UNCHANGED reuseList
       ELSE reuseList' = Tail(reuseList) /\ UNCHANGED currentNumber
  /\ held' = held \cup {local[t].number}
  /\ local' = [local EXCEPT ![t] = Nothing]
  /\ done' = [done EXCEPT ![t] = TRUE]
  /\ UNCHANGED lockVars

Releases(t) ==
  /\ Inside(t) /\ local[t] = Nothing
  /\ Release
  /\ done' = [done EXCEPT ![t] = TRUE]
  /\ UNCHANGED <<lockVars, local>>

SocketNext == \E t \in Threads : \/ Locks(t) \/ Unlocks(t)
                                 \/ RetrieveReads(t) \/ RetrieveWrites(t) \/ Releases(t)

SocketSpec == SocketInit /\ [][SocketNext]_allVars
-----------------------------------------------------------------------------
(* Under the lock the two methods are atomic: together they are the generator *)
(* that the socket objects of the I/O service use.                            *)
ImplementsUidGenerator == Spec
=============================================================================
