--------------------------- MODULE LibraryProofs ---------------------------
(* Theorems about the classes that stand alone, each for every value of its   *)
(* constants.  TraditionalMemoryPool.h: a block has one owner and the size it *)
(* needs.  Queue.h: no consumer sleeps while there is work.  Thread.h as the  *)
(* servers use it: one accept loop.  StreamData.h: a byte stream.             *)
(* RichODBC.cpp: no freed handle, no flag without a connection, no half of a  *)
(* statement.  DataBuffer.h: the fields that were pushed are those read.      *)
EXTENDS MCLibrary, SequenceTheorems, WellFoundedInduction, TLAPS


(* A block goes back to the list it came from: its holder asked for a size    *)
(* that leads to the list of the size the block has.                          *)
FromItsList ==
  \A b \in Block : held[b] # 0 => allocated[b] = BlockSize[ListFor(held[b])]

PoolIInv == PoolTypeOK /\ PoolOwnership /\ FromItsList

LEMMA LeastNumber ==
  ASSUME NEW T \in SUBSET Nat, T # {}
  PROVE  \E x \in T : \A y \in T : x <= y
<1> DEFINE R == OpToRel(<, Nat)
<1>1. IsWellFoundedOn(R, Nat)
  BY NatLessThanWellFounded
<1>2. \A x, y \in Nat : y < x => <<y, x>> \in R
  BY DEF OpToRel
<1> HIDE DEF R
<1>3. PICK x \in T : \A y \in T : ~ (<<y, x>> \in R)
  BY <1>1, WFMin
<1>4. \A y \in T : ~ (y < x)
  BY <1>2, <1>3
<1> QED
  BY <1>4

LEMMA ListsAreNumbers ==
  /\ Len(BlockSize) \in Nat \ {0} /\ Lists = 1 .. Len(BlockSize)
  /\ \A i \in Lists : BlockSize[i] \in Nat \ {0}
  /\ \A i, j \in Lists : i # j => BlockSize[i] # BlockSize[j]
<1>1. /\ Len(BlockSize) \in Nat \ {0} /\ Lists = 1 .. Len(BlockSize)
      /\ \A i \in Lists : BlockSize[i] \in Nat \ {0}
  BY PoolAssumption DEF Lists
<1>2. ASSUME NEW i \in Lists, NEW j \in Lists, i < j PROVE BlockSize[i] # BlockSize[j]
  BY <1>1, <1>2, PoolAssumption DEF Lists
<1> QED
  BY <1>1, <1>2

(* A request goes to a list whose blocks are large enough.                    *)
LEMMA ListForFits ==
  ASSUME NEW size \in Sizes
  PROVE  ListFor(size) \in Lists /\ BlockSize[ListFor(size)] >= size
<1> DEFINE Large == {i \in Lists : BlockSize[i] >= size}
<1>1. Large \in SUBSET Nat /\ Len(BlockSize) \in Large /\ size \in Nat
  BY ListsAreNumbers DEF Sizes
<1>2. PICK i \in Large : \A j \in Large : i <= j
  BY <1>1, LeastNumber
<1>3. ASSUME NEW j \in Lists, j < i PROVE BlockSize[j] < size
  BY <1>1, <1>2, <1>3, ListsAreNumbers
<1>4. i \in Lists /\ BlockSize[i] >= size
  OBVIOUS
<1> QED
  BY <1>3, <1>4 DEF ListFor

LEMMA PoolInitIInv == PoolInit => PoolIInv
  BY ListsAreNumbers DEF PoolInit, PoolIInv, PoolTypeOK, PoolOwnership, FromItsList

LEMMA ReusesIInv ==
  ASSUME PoolIInv, NEW size \in Sizes, NEW i \in Lists, i = ListFor(size),
         BlockSize[i] >= size, Reuses(i, size)
  PROVE  PoolIInv'
<1> DEFINE q == pool[i]  block == Head(q)
<1> USE ListsAreNumbers DEF PoolIInv, PoolTypeOK
<1>1. /\ q \in Seq(Block) /\ q # <<>> /\ Len(q) \in Nat \ {0} /\ DOMAIN q = 1 .. Len(q)
      /\ block = q[1] /\ block \in Block
      /\ Tail(q) \in Seq(Block) /\ DOMAIN Tail(q) = 1 .. Len(q) - 1
      /\ \A k \in 1 .. Len(q) - 1 : Tail(q)[k] = q[k + 1]
  BY DEF Reuses
<1>2. /\ pool' = [pool EXCEPT ![i] = Tail(q)]
      /\ held' = [held EXCEPT ![block] = size]
      /\ allocated' = allocated
  BY DEF Reuses
<1> HIDE DEF q, block
<1>3. size \in Nat \ {0}
  BY DEF Sizes
<1>4. PoolTypeOK'
  BY <1>1, <1>2
<1>5. allocated[block] = BlockSize[i] /\ held[block] = 0
  BY <1>1 DEF PoolOwnership, q
<1>6. ASSUME NEW k \in DOMAIN Tail(q) PROVE Tail(q)[k] # block
  <2>1. k + 1 \in DOMAIN q /\ 1 \in DOMAIN q /\ k + 1 # 1 /\ Tail(q)[k] = q[k + 1]
    BY <1>1
  <2>2. q[k + 1] # q[1]
    BY <2>1 DEF PoolOwnership, q
  <2> QED
    BY <1>1, <2>1, <2>2
<1>7. ASSUME NEW j \in Lists, j # i PROVE \A k \in DOMAIN pool[j] : pool[j][k] # block
  <2>1. BlockSize[j] # BlockSize[i]
    BY <1>7
  <2> QED
    BY <2>1, <1>5 DEF PoolOwnership
<1>8. \A b \in Block : held'[b] # 0 => held'[b] <= allocated'[b]
  BY <1>2, <1>5 DEF PoolOwnership
<1>9. ASSUME NEW j \in Lists, NEW k \in DOMAIN pool'[j]
      PROVE  held'[pool'[j][k]] = 0 /\ allocated'[pool'[j][k]] = BlockSize[j]
  <2>1. CASE j = i
    BY <2>1, <1>1, <1>2, <1>6 DEF PoolOwnership, q
  <2>2. CASE j # i
    BY <2>2, <1>2, <1>7 DEF PoolOwnership
  <2> QED
    BY <2>1, <2>2
<1>10. ASSUME NEW j \in Lists, NEW k \in DOMAIN pool'[j], NEW l \in DOMAIN pool'[j],
              pool'[j][k] = pool'[j][l]
       PROVE  k = l
  <2>1. CASE j = i
    <3>1. pool'[j] = Tail(q) /\ k \in 1 .. Len(q) - 1 /\ l \in 1 .. Len(q) - 1
      BY <2>1, <1>1, <1>2
    <3>2. q[k + 1] = q[l + 1] /\ k + 1 \in DOMAIN q /\ l + 1 \in DOMAIN q
      BY <3>1, <1>1, <1>10
    <3>3. k + 1 = l + 1
      BY <3>2 DEF PoolOwnership, q
    <3> QED
      BY <3>1, <3>3
  <2>2. CASE j # i
    BY <2>2, <1>2, <1>10 DEF PoolOwnership
  <2> QED
    BY <2>1, <2>2
<1>11. FromItsList'
  BY <1>1, <1>2, <1>5 DEF FromItsList
<1> QED
  BY <1>4, <1>8, <1>9, <1>10, <1>11 DEF PoolOwnership

LEMMA AllocatesIInv ==
  ASSUME PoolIInv, NEW size \in Sizes, NEW i \in Lists, i = ListFor(size),
         BlockSize[i] >= size, Allocates(i, size)
  PROVE  PoolIInv'
<1> USE ListsAreNumbers DEF PoolIInv, PoolTypeOK
<1>1. PICK b \in Block : /\ allocated[b] = 0
                         /\ allocated' = [allocated EXCEPT ![b] = BlockSize[i]]
                         /\ held' = [held EXCEPT ![b] = size]
                         /\ pool' = pool
  BY DEF Allocates
<1>2. PoolTypeOK'
  BY <1>1
<1>3. ASSUME NEW j \in Lists, NEW k \in DOMAIN pool[j] PROVE pool[j][k] # b /\ pool[j][k] \in Block
  BY <1>1 DEF PoolOwnership
<1>4. \A c \in Block : held'[c] # 0 => held'[c] <= allocated'[c]
  BY <1>1 DEF PoolOwnership
<1>5. \A j \in Lists : \A k \in DOMAIN pool'[j] :
        held'[pool'[j][k]] = 0 /\ allocated'[pool'[j][k]] = BlockSize[j]
  BY <1>1, <1>3 DEF PoolOwnership
<1>6. FromItsList'
  BY <1>1 DEF FromItsList
<1> QED
  BY <1>1, <1>2, <1>4, <1>5, <1>6 DEF PoolOwnership

LEMMA ReleaseIInv == ASSUME PoolIInv, Release PROVE PoolIInv'
<1> USE ListsAreNumbers DEF PoolIInv, PoolTypeOK
<1>1. PICK b \in Block :
        /\ held[b] # 0
        /\ pool' = [pool EXCEPT ![ListFor(held[b])] = Append(pool[ListFor(held[b])], b)]
        /\ held' = [held EXCEPT ![b] = 0]
        /\ allocated' = allocated
  BY DEF Release
<1> DEFINE i == ListFor(held[b])  q == pool[i]
<1>2. i \in Lists /\ allocated[b] = BlockSize[i]
  BY <1>1, ListForFits DEF FromItsList
<1>3. /\ q \in Seq(Block) /\ Len(q) \in Nat /\ DOMAIN q = 1 .. Len(q)
      /\ Append(q, b) \in Seq(Block) /\ DOMAIN Append(q, b) = 1 .. Len(q) + 1
      /\ \A k \in 1 .. Len(q) : Append(q, b)[k] = q[k]
      /\ Append(q, b)[Len(q) + 1] = b
  BY <1>2
<1>4. /\ pool' = [pool EXCEPT ![i] = Append(q, b)]
      /\ held' = [held EXCEPT ![b] = 0] /\ allocated' = allocated
  BY <1>1
<1>5. ASSUME NEW j \in Lists, NEW k \in DOMAIN pool[j] PROVE pool[j][k] # b /\ pool[j][k] \in Block
  BY <1>1 DEF PoolOwnership
<1>6. \A k \in 1 .. Len(q) : q[k] # b
  BY <1>2, <1>3, <1>5
<1> HIDE DEF i, q
<1>7. PoolTypeOK'
  BY <1>2, <1>3, <1>4
<1>8. \A c \in Block : held'[c] # 0 => held'[c] <= allocated'[c]
  BY <1>4 DEF PoolOwnership
<1>9. ASSUME NEW j \in Lists, NEW k \in DOMAIN pool'[j]
      PROVE  held'[pool'[j][k]] = 0 /\ allocated'[pool'[j][k]] = BlockSize[j]
  <2>1. CASE j = i
    BY <2>1, <1>2, <1>3, <1>4, <1>5 DEF PoolOwnership, q
  <2>2. CASE j # i
    BY <2>2, <1>4, <1>5 DEF PoolOwnership
  <2> QED
    BY <2>1, <2>2
<1>10. ASSUME NEW j \in Lists, NEW k \in DOMAIN pool'[j], NEW l \in DOMAIN pool'[j],
              pool'[j][k] = pool'[j][l]
       PROVE  k = l
  <2>1. CASE j = i
    <3>1. /\ pool'[j] = Append(q, b)
          /\ k \in 1 .. Len(q) + 1 /\ l \in 1 .. Len(q) + 1
      BY <2>1, <1>2, <1>3, <1>4
    <3>2. CASE k \in 1 .. Len(q) /\ l \in 1 .. Len(q)
      <4>1. q[k] = q[l] /\ k \in DOMAIN q /\ l \in DOMAIN q
        BY <3>1, <3>2, <1>3, <1>10
      <4> QED
        BY <4>1, <1>2 DEF PoolOwnership, q
    <3>3. CASE k = Len(q) + 1 \/ l = Len(q) + 1
      BY <3>1, <3>3, <1>3, <1>6, <1>10
    <3> QED
      BY <3>1, <3>2, <3>3, <1>3
  <2>2. CASE j # i
    BY <2>2, <1>4, <1>10 DEF PoolOwnership
  <2> QED
    BY <2>1, <2>2
<1>11. FromItsList'
  BY <1>4 DEF FromItsList
<1> QED
  BY <1>7, <1>8, <1>9, <1>10, <1>11 DEF PoolOwnership

LEMMA PoolStepIInv == PoolIInv /\ [PoolNext]_poolVars => PoolIInv'
<1> SUFFICES ASSUME PoolIInv, [PoolNext]_poolVars PROVE PoolIInv'
  OBVIOUS
<1>1. CASE Retreive
  <2>1. PICK size \in Sizes : \/ Reuses(ListFor(size), size)
                              \/ Allocates(ListFor(size), size)
    BY <1>1 DEF Retreive
  <2>2. ListFor(size) \in Lists /\ BlockSize[ListFor(size)] >= size
    BY ListForFits
  <2> QED
    BY <2>1, <2>2, ReusesIInv, AllocatesIInv
<1>2. CASE Release
  BY <1>2, ReleaseIInv
<1>3. CASE UNCHANGED poolVars
  BY <1>3 DEF poolVars, PoolIInv, PoolTypeOK, PoolOwnership, FromItsList
<1> QED
  BY <1>1, <1>2, <1>3 DEF PoolNext

LEMMA PoolInductive == PoolSpec => []PoolIInv
  BY PoolInitIInv, PoolStepIInv, PTL DEF PoolSpec

(* The lists hold blocks, and every block has one of the sizes.               *)
THEOREM PoolTypes == PoolSpec => []PoolTypeOK
  BY PoolInductive, PTL DEF PoolIInv

(* No block of the pool is with two owners, or with one it is too small for.  *)
THEOREM PoolBlocksOwned == PoolSpec => []PoolOwnership
  BY PoolInductive, PTL DEF PoolIInv

-----------------------------------------------------------------------------
QueueIInv == QueueTypeOK /\ NobodySleepsOnWork

LEMMA QueueInitIInv == QueueInit => QueueIInv
<1> SUFFICES ASSUME QueueInit PROVE QueueIInv
  OBVIOUS
<1>1. data = <<>> /\ data \in Seq(Elements)
  BY DEF QueueInit
<1>2. QueueTypeOK
  BY <1>1 DEF QueueInit, QueueTypeOK
<1> QED
  BY <1>1, <1>2 DEF QueueIInv, NobodySleepsOnWork

LEMMA QueueStepIInv == QueueIInv /\ [QueueNext]_queueVars => QueueIInv'
<1> SUFFICES ASSUME QueueIInv, [QueueNext]_queueVars PROVE QueueIInv'
  OBVIOUS
<1> USE QueueAssumption DEF QueueIInv, QueueTypeOK, NobodySleepsOnWork
<1>1. CASE push
  <2>1. PICK node \in unpushed :
          /\ data' = Append(data, node)
          /\ awakeningEvent' = (awakeningEvent \/ Len(data') = 1)
          /\ unpushed' = unpushed \ {node} /\ place' = place
    BY <1>1 DEF push
  <2>2. CASE data = <<>>
    <3>1. Len(data') = 1 /\ data' \in Seq(Elements)
      BY <2>1, <2>2
    <3>2. awakeningEvent' = TRUE
      BY <2>1, <3>1
    <3> QED
      BY <2>1, <3>1, <3>2
  <2>3. CASE data # <<>>
    BY <2>1, <2>3
  <2> QED
    BY <2>2, <2>3
<1>2. CASE clear
  BY <1>2 DEF clear
<1>3. ASSUME NEW c \in Consumers, wait(c) PROVE QueueIInv'
  BY <1>3 DEF wait
<1>4. ASSUME NEW c \in Consumers, empty(c) PROVE QueueIInv'
  BY <1>4 DEF empty
<1>5. ASSUME NEW c \in Consumers, pop(c) PROVE QueueIInv'
  BY <1>5 DEF pop
<1>6. ASSUME NEW c \in Consumers, pops(c) PROVE QueueIInv'
  <2>1. /\ data' = SubSeq(data, MaxPops + 1, Len(data))
        /\ place' = [place EXCEPT ![c] = IF Len(data) < MaxPops THEN "wait" ELSE "drain"]
        /\ UNCHANGED <<awakeningEvent, unpushed>>
    BY <1>6 DEF pops
  <2>2. data' \in Seq(Elements)
    BY <2>1
  <2>3. CASE Len(data) < MaxPops
    <3>1. Len(data') = 0
      BY <2>1, <2>3
    <3>2. data' = <<>>
      BY <2>2, <3>1
    <3> QED
      BY <2>1, <2>2, <3>2
  <2>4. CASE ~ (Len(data) < MaxPops)
    BY <2>1, <2>2, <2>4
  <2> QED
    BY <2>3, <2>4
<1>7. CASE UNCHANGED queueVars
  BY <1>7 DEF queueVars
<1> QED
  BY <1>1, <1>2, <1>3, <1>4, <1>5, <1>6, <1>7 DEF QueueNext

LEMMA QueueInductive == QueueSpec => []QueueIInv
  BY QueueInitIInv, QueueStepIInv, PTL DEF QueueSpec

(* No element waits in the queue while the event is not set and every         *)
(* consumer sleeps.                                                           *)
THEOREM NoConsumerSleepsOnWork == QueueSpec => []NobodySleepsOnWork
  BY QueueInductive, PTL DEF QueueIInv
-----------------------------------------------------------------------------
(* The threads of a server.                                                  *)
ThreadsIInv == ServiceThreadsTypeOK /\ OneAcceptLoop

LEMMA ThreadsInitIInv == ServiceThreadsInit => ThreadsIInv
  BY ThreadAssumption DEF ServiceThreadsInit, ThreadInit, ThreadsIInv, ServiceThreadsTypeOK,
     ThreadTypeOK, OneAcceptLoop, Running, Begun

LEMMA ServiceStepKeepsAcceptor ==
  ASSUME ThreadsIInv, NEW w \in ServiceWorkers, start(w) \/ stop(w) \/ destroy(w)
  PROVE  ThreadsIInv'
<1> USE ServiceThreadsAssumption, ThreadAssumption
    DEF ThreadsIInv, ServiceThreadsTypeOK, ThreadTypeOK, OneAcceptLoop, Running, Begun
<1>1. w \in ThreadObjects /\ w # MGAcceptor /\ UNCHANGED waited
  BY DEF start, stop, destroy, ForEach
<1>2. call' \in {"none", "start", "stop", "destroy"} /\ remaining' \subseteq ServiceWorkers
  BY DEF start, stop, destroy, ForEach
<1>3. CASE UNCHANGED threadVars
  BY <1>1, <1>2, <1>3 DEF threadVars
<1>4. CASE ThreadStart(w) /\ ~ UNCHANGED threadVars
  <2>1. /\ m_IsStarted' = [m_IsStarted EXCEPT ![w] = TRUE]
        /\ Begins(w) \/ BeginFails(w)
        /\ UNCHANGED <<deleted, at, suspended>>
    BY <1>4 DEF ThreadStart
  <2>2. CASE Begins(w)
    <3>1. /\ begun \in Nat /\ begun + 1 \in 1 .. MaxThreads /\ begun' = begun + 1
          /\ m_Handle' = [m_Handle EXCEPT ![w] = begun + 1]
          /\ parameter' = [parameter EXCEPT ![begun + 1] = w]
      BY <2>2 DEF Begins
    <3>2. ServiceThreadsTypeOK'
      BY <1>1, <1>2, <2>1, <3>1
    <3>3. OneAcceptLoop'
      BY <1>1, <2>1, <3>1
    <3> QED
      BY <3>2, <3>3
  <2>3. CASE BeginFails(w)
    BY <1>1, <1>2, <2>1, <2>3 DEF BeginFails, NoThread
  <2> QED
    BY <2>1, <2>2, <2>3
<1>5. CASE ThreadStop(w)
  BY <1>1, <1>2, <1>5 DEF ThreadStop
<1>6. CASE ThreadDelete(w)
  BY <1>1, <1>2, <1>6 DEF ThreadDelete
<1> QED
  BY <1>3, <1>4, <1>5, <1>6 DEF start, stop, destroy

(* A step in a loop begins no thread.                                         *)
LEMMA LoopStep ==
  ASSUME ThreadsIInv, NEW x \in 1 .. MaxThreads,
         NEW from \in {"test", "wait", "work"}, NEW to \in {"test", "wait", "work", "ended"},
         Moves(x, from, to), UNCHANGED <<call, remaining, waited>>
  PROVE  ThreadsIInv'
  BY DEF Moves, ThreadsIInv, ServiceThreadsTypeOK, ThreadTypeOK, OneAcceptLoop, Running, Begun

LEMMA AcceptorOwnerStep ==
  ASSUME ThreadsIInv, AcceptorOwner
  PROVE  ThreadsIInv'
<1> USE ServiceThreadsAssumption, ThreadAssumption
    DEF ThreadsIInv, ServiceThreadsTypeOK, ThreadTypeOK, OneAcceptLoop, Running, Begun
<1>1. MGAcceptor \in ThreadObjects /\ MGAcceptor \notin deleted
      /\ UNCHANGED <<call, remaining>>
  BY DEF AcceptorOwner
<1>2. CASE waited /\ Starts
  <2>1. CASE UNCHANGED threadVars
    BY <1>1, <1>2, <2>1 DEF threadVars, Starts
  <2>2. CASE ~ UNCHANGED threadVars
    <3>1. /\ ~ m_IsStarted[MGAcceptor]
          /\ m_IsStarted' = [m_IsStarted EXCEPT ![MGAcceptor] = TRUE]
          /\ Begins(MGAcceptor) \/ BeginFails(MGAcceptor)
          /\ UNCHANGED <<deleted, at, suspended, waited>>
      BY <1>2, <2>2 DEF Starts, ThreadStart
    <3>2. \A x \in Running : parameter[x] # MGAcceptor
      BY <1>2, <3>1
    <3>3. CASE Begins(MGAcceptor)
      <4>1. /\ begun \in Nat /\ begun + 1 \in 1 .. MaxThreads /\ begun' = begun + 1
            /\ m_Handle' = [m_Handle EXCEPT ![MGAcceptor] = begun + 1]
            /\ parameter' = [parameter EXCEPT ![begun + 1] = MGAcceptor]
        BY <3>3 DEF Begins
      <4>2. ServiceThreadsTypeOK'
        BY <1>1, <3>1, <4>1
      <4>3. OneAcceptLoop'
        BY <1>1, <3>1, <3>2, <4>1
      <4> QED
        BY <4>2, <4>3
    <3>4. CASE BeginFails(MGAcceptor)
      BY <1>1, <3>1, <3>2, <3>4 DEF BeginFails, NoThread
    <3> QED
      BY <3>1, <3>3, <3>4
  <2> QED
    BY <2>1, <2>2
<1>3. CASE waited /\ Deletes
  <2>1. \A x \in Running : parameter[x] # MGAcceptor
    BY <1>3 DEF Deletes
  <2> QED
    BY <1>1, <1>3, <2>1 DEF Deletes, ThreadDelete
<1>4. CASE Stops
  BY <1>1, <1>4 DEF Stops, ThreadStop
<1>5. CASE Waits
  <2>1. \A x \in Running : parameter[x] # MGAcceptor
    BY <1>5 DEF Waits, ThreadWaitFor
  <2> QED
    BY <1>1, <1>5, <2>1 DEF Waits, ThreadWaitFor, threadVars
<1>6. CASE ThreadSuspend(MGAcceptor) /\ UNCHANGED waited
  BY <1>1, <1>6 DEF ThreadSuspend
<1>7. CASE ThreadResume(MGAcceptor) /\ UNCHANGED waited
  BY <1>1, <1>7 DEF ThreadResume
<1> QED
  BY <1>2, <1>3, <1>4, <1>5, <1>6, <1>7 DEF AcceptorOwner

LEMMA ThreadsNextIInv == ThreadsIInv /\ [ServiceThreadsNext]_serviceThreadVars => ThreadsIInv'
<1> SUFFICES ASSUME ThreadsIInv, [ServiceThreadsNext]_serviceThreadVars
             PROVE  ThreadsIInv'
  OBVIOUS
<1>1. CASE UNCHANGED serviceThreadVars
  BY <1>1 DEF serviceThreadVars, threadVars, ThreadsIInv, ServiceThreadsTypeOK, ThreadTypeOK,
     OneAcceptLoop, Running, Begun
<1>2. ASSUME NEW method \in {"start", "stop", "destroy"}, Calls(method) PROVE ThreadsIInv'
  BY <1>2 DEF Calls, threadVars, ThreadsIInv, ServiceThreadsTypeOK, ThreadTypeOK,
     OneAcceptLoop, Running, Begun
<1>3. ASSUME NEW w \in ServiceWorkers, start(w) \/ stop(w) \/ destroy(w) PROVE ThreadsIInv'
  BY <1>3, ServiceStepKeepsAcceptor
<1>4. ASSUME NEW x \in 1 .. MaxThreads,
             \/ Tests(x) \/ TimesOut(x) \/ GetsCompletion(x)
             \/ AcceptFails(x) \/ Accepts(x) \/ WorkDone(x)
      PROVE  ThreadsIInv'
  <2>1. UNCHANGED <<call, remaining, waited>>
    BY <1>4 DEF Tests, TimesOut, GetsCompletion, AcceptFails, Accepts, WorkDone
  <2>2. \/ Moves(x, "test", "wait") \/ Moves(x, "test", "ended") \/ Moves(x, "wait", "test")
        \/ Moves(x, "wait", "work") \/ Moves(x, "work", "test")
    BY <1>4 DEF Tests, LoopTest, TimesOut, GetsCompletion, AcceptFails, Accepts, WorkDone
  <2> QED
    BY <2>1, <2>2, LoopStep
<1>5. CASE AcceptorOwner
  BY <1>5, AcceptorOwnerStep
<1> QED
  BY <1>1, <1>2, <1>3, <1>4, <1>5 DEF ServiceThreadsNext

(* Thread.cpp, AsynchIOService.cpp: handles name threads that were begun, and *)
(* every thread runs on an object that exists or was deleted under it.        *)
THEOREM ThreadTypes == ServiceThreadsSpec => []ServiceThreadsTypeOK
<1>1. ServiceThreadsSpec => []ThreadsIInv
  BY ThreadsInitIInv, ThreadsNextIInv, PTL DEF ServiceThreadsSpec
<1>2. ThreadsIInv => ServiceThreadsTypeOK
  BY DEF ThreadsIInv
<1> QED
  BY <1>1, <1>2, PTL

(* Thread::Start, WaitFor: whoever waits after Stop never has two threads in  *)
(* the accept loop, nor one on a deleted object, however often it starts it.  *)
THEOREM AcceptLoopAlone == ServiceThreadsSpec => []OneAcceptLoop
<1>1. ServiceThreadsSpec => []ThreadsIInv
  BY ThreadsInitIInv, ThreadsNextIInv, PTL DEF ServiceThreadsSpec
<1>2. ThreadsIInv => OneAcceptLoop
  BY DEF ThreadsIInv
<1> QED
  BY <1>1, <1>2, PTL
-----------------------------------------------------------------------------
(* StreamData.h.                                                              *)
(* What the caller finds, read off the array.                                 *)
LEMMA ReceivedBytes ==
  ASSUME StreamTypeOK
  PROVE  /\ m_SizeOfReceived \in Nat
         /\ getStream \in Seq(Byte)
         /\ Len(getStream) = m_SizeOfReceived
         /\ \A i \in 1 .. m_SizeOfReceived : getStream[i] = m_Value[i - 1]
<1>1. m_SizeOfReceived \in Nat
  BY StreamAssumption DEF StreamTypeOK
<1>2. \A i \in 1 .. m_SizeOfReceived : i - 1 \in Positions
  BY StreamAssumption DEF StreamTypeOK, Positions
<1>3. \A i \in 1 .. m_SizeOfReceived : m_Value[i - 1] \in Byte
  BY <1>2 DEF StreamTypeOK
<1> QED
  BY <1>1, <1>3 DEF getStream

LEMMA InitStream == StreamInit => StreamTypeOK /\ getStream = <<>>
  BY StreamAssumption DEF StreamInit, StreamTypeOK, Positions, getStream

LEMMA NoStep ==
  ASSUME StreamTypeOK, UNCHANGED streamVars
  PROVE  StreamTypeOK' /\ getStream' = getStream
  BY DEF streamVars, StreamTypeOK, Positions, getStream

(* Bytes copied to current() and counted stand behind those that were there.  *)
LEMMA BytesArrive ==
  ASSUME StreamTypeOK, NEW datas \in Seq(Byte), Len(datas) <= availableSize,
         CopyToCurrent(datas), increaseSize(Len(datas))
  PROVE  StreamTypeOK' /\ Arrived!Put
<1> DEFINE n == m_SizeOfReceived  new == n + Len(datas)
<1>1. /\ Len(datas) \in Nat /\ n \in Nat /\ new \in Nat /\ m_SizeOfReceived' = new
      /\ m_Capacity \in Nat /\ new <= m_Capacity /\ n <= new /\ Positions = 0 .. m_Capacity - 1
      /\ \A i \in 1 .. Len(datas) : datas[i] \in Byte
  BY StreamAssumption DEF StreamTypeOK, availableSize, increaseSize, Positions
<1>2. \A i \in Positions : m_Value'[i] = IF i \in n .. n + Len(datas) - 1
                                         THEN datas[i - n + 1] ELSE m_Value[i]
  BY DEF CopyToCurrent
<1>3. ASSUME NEW i \in Positions PROVE m_Value'[i] \in Byte
  <2>1. CASE i \in n .. n + Len(datas) - 1
    <3>1. i - n + 1 \in 1 .. Len(datas)
      BY <1>1, <2>1
    <3> QED
      BY <1>1, <1>2, <2>1, <3>1
  <2>2. CASE i \notin n .. n + Len(datas) - 1
    BY <1>2, <2>2 DEF StreamTypeOK
  <2> QED
    BY <2>1, <2>2
<1>4. m_Value' \in [Positions -> Byte]
  BY <1>3 DEF CopyToCurrent
<1>5. StreamTypeOK'
  BY <1>1, <1>4 DEF StreamTypeOK, Positions
<1>6. /\ getStream' \in Seq(Byte) /\ Len(getStream') = new
      /\ \A i \in 1 .. new : getStream'[i] = m_Value'[i - 1]
  <2>1. getStream' = [i \in 1 .. new |-> m_Value'[i - 1]]
    BY <1>1 DEF getStream
  <2>2. ASSUME NEW i \in 1 .. new PROVE m_Value'[i - 1] \in Byte
    <3>1. i - 1 \in Positions
      BY <1>1
    <3> QED
      BY <1>3, <3>1
  <2> HIDE DEF new
  <2> QED
    BY <1>1, <2>1, <2>2
<1>7. getStream \in Seq(Byte) /\ Len(getStream) = n
  BY ReceivedBytes
<1>8. ASSUME NEW i \in 1 .. n PROVE getStream'[i] = m_Value[i - 1]
  <2>1. i \in 1 .. new /\ i - 1 \in Positions /\ i - 1 \notin n .. n + Len(datas) - 1
    BY <1>1
  <2> QED
    BY <1>2, <1>6, <2>1
<1>9. getStream = SubSeq(getStream', 1, n)
  <2> DEFINE q == getStream'
  <2>1. q \in Seq(Byte) /\ n <= Len(q) /\ n \in Nat
    BY <1>1, <1>6
  <2>2. getStream = [i \in 1 .. n |-> q[i]]
    BY <1>8 DEF getStream
  <2> HIDE DEF q, n
  <2>3. SubSeq(q, 1, n) = [i \in 1 .. n |-> q[i]]
    BY <2>1
  <2> QED
    BY <2>2, <2>3 DEF q
<1> QED
  BY <1>1, <1>5, <1>6, <1>7, <1>9 DEF Arrived!Put

(* The front is dropped, and the rest stands where it was, also where the     *)
(* bytes that memmove reads and those that it writes overlap.                 *)
LEMMA FrontIsDropped ==
  ASSUME StreamTypeOK, NEW sz \in 1 .. m_SizeOfReceived,
         m_SizeOfReceived' = m_SizeOfReceived - sz, memmove(sz)
  PROVE  StreamTypeOK' /\ Arrived!Take
<1> DEFINE n == m_SizeOfReceived
<1>1. /\ m_Capacity \in Nat /\ n \in Nat /\ n <= m_Capacity /\ sz \in Nat /\ sz <= n /\ 1 <= sz
      /\ Positions = 0 .. m_Capacity - 1
      /\ getStream \in Seq(Byte) /\ Len(getStream) = n
      /\ \A i \in 1 .. n : getStream[i] = m_Value[i - 1]
  BY StreamAssumption, ReceivedBytes DEF StreamTypeOK, Positions
<1>2. \A i \in Positions : m_Value'[i] = IF i < n - sz THEN m_Value[i + sz] ELSE m_Value[i]
  BY DEF memmove
<1>3. ASSUME NEW i \in Positions PROVE m_Value'[i] \in Byte
  <2>1. i < n - sz => i + sz \in Positions
    BY <1>1, StreamAssumption
  <2> QED
    BY <1>2, <2>1 DEF StreamTypeOK
<1>4. m_Value' \in [Positions -> Byte]
  BY <1>3 DEF memmove
<1>5. StreamTypeOK'
  BY <1>1, <1>4 DEF StreamTypeOK, Positions
<1>6. ASSUME NEW i \in 1 .. n - sz PROVE m_Value'[i - 1] = getStream[i + sz]
  <2>1. /\ i - 1 \in Positions /\ i - 1 < n - sz
        /\ i + sz \in 1 .. n /\ (i + sz) - 1 = (i - 1) + sz
    BY <1>1, StreamAssumption
  <2> QED
    BY <1>1, <1>2, <2>1
<1>7. getStream' = [i \in 1 .. n - sz |-> getStream[i + sz]]
  BY <1>6 DEF getStream
<1>8. SubSeq(getStream, sz + 1, Len(getStream)) = [i \in 1 .. n - sz |-> getStream[i + sz]]
  <2> DEFINE q == getStream
  <2>1. q \in Seq(Byte) /\ Len(q) = n /\ n \in Nat /\ sz \in Nat /\ sz <= n
    BY <1>1
  <2> HIDE DEF q, n
  <2>2. SubSeq(q, sz + 1, Len(q)) = [i \in 1 .. n - sz |-> q[i + sz]]
    BY <2>1
  <2> QED
    BY <2>2 DEF q
<1>9. sz \in 1 .. Len(getStream)
  BY <1>1
<1> QED
  BY <1>5, <1>7, <1>8, <1>9 DEF Arrived!Take

(* Whatever is left of the array, the stream is empty: all that was there is  *)
(* taken, or there was nothing.                                               *)
LEMMA AllIsDropped ==
  ASSUME StreamTypeOK, m_SizeOfReceived' = 0, m_Value' \in [Positions -> Byte]
  PROVE  StreamTypeOK' /\ (getStream' = getStream \/ Arrived!Take)
<1> DEFINE n == m_SizeOfReceived
<1>1. n \in Nat /\ getStream \in Seq(Byte) /\ Len(getStream) = n
  BY ReceivedBytes
<1>2. getStream' = <<>>
  BY DEF getStream
<1>3. StreamTypeOK'
  BY StreamAssumption DEF StreamTypeOK, Positions
<1>4. CASE n = 0
  BY <1>2, <1>3, <1>4 DEF getStream
<1>5. CASE n # 0
  <2> DEFINE q == getStream
  <2>1. q \in Seq(Byte) /\ Len(q) \in 1 .. Len(q)
    BY <1>1, <1>5
  <2> HIDE DEF q, n
  <2>2. SubSeq(q, Len(q) + 1, Len(q)) = <<>>
    BY <2>1
  <2>3. Arrived!Take
    BY <1>2, <2>1, <2>2 DEF Arrived!Take, q
  <2> QED
    BY <1>3, <2>3
<1> QED
  BY <1>4, <1>5

(* Every step of the buffer is one of the stream.                             *)
LEMMA StreamStep ==
  ASSUME StreamTypeOK, [StreamNext]_streamVars
  PROVE  StreamTypeOK' /\ [Arrived!Put \/ Arrived!Take]_getStream
<1>1. CASE UNCHANGED streamVars
  BY <1>1, NoStep
<1>2. ASSUME NEW datas \in Pieces, putData(datas) \/ receive(datas)
      PROVE  StreamTypeOK' /\ [Arrived!Put \/ Arrived!Take]_getStream
  <2>1. datas \in Seq(Byte) /\ Len(datas) \in Nat /\ availableSize \in Int
    BY StreamAssumption DEF StreamTypeOK, availableSize
  <2>2. CASE UNCHANGED streamVars
    BY <2>2, NoStep
  <2>3. CASE /\ Len(datas) <= availableSize
             /\ CopyToCurrent(datas) /\ increaseSize(Len(datas))
    BY <2>1, <2>3, BytesArrive
  <2> QED
    BY <1>2, <2>1, <2>2, <2>3 DEF putData, receive
<1>3. ASSUME NEW sz \in 0 .. m_Capacity, flushTo(sz)
      PROVE  StreamTypeOK' /\ [Arrived!Put \/ Arrived!Take]_getStream
  <2>1. CASE m_SizeOfReceived <= sz
    <3>1. m_SizeOfReceived' = 0 /\ m_Value' \in [Positions -> Byte]
      BY <1>3, <2>1, StreamAssumption DEF flushTo, StreamTypeOK, Positions
    <3> QED
      BY <3>1, AllIsDropped
  <2>2. CASE m_SizeOfReceived > sz
    <3>1. memmove(sz) /\ m_SizeOfReceived' = m_SizeOfReceived - sz
      BY <1>3, <2>2, StreamAssumption DEF flushTo, StreamTypeOK
    <3>2. CASE sz = 0
      <4>1. m_SizeOfReceived' = m_SizeOfReceived
        BY <3>1, <3>2, StreamAssumption DEF StreamTypeOK
      <4>2. \A i \in Positions : m_Value[i + sz] = m_Value[i]
        BY <3>2, StreamAssumption DEF Positions
      <4>3. m_Value' = [i \in Positions |-> m_Value[i]]
        BY <3>1, <4>2 DEF memmove
      <4>4. UNCHANGED streamVars
        BY <4>1, <4>3 DEF streamVars, StreamTypeOK
      <4> QED
        BY <4>4, NoStep
    <3>3. CASE sz # 0
      <4>1. sz \in 1 .. m_SizeOfReceived
        BY <2>2, <3>3, StreamAssumption DEF StreamTypeOK
      <4> QED
        BY <3>1, <4>1, FrontIsDropped
    <3> QED
      BY <3>2, <3>3
  <2> QED
    BY <2>1, <2>2, StreamAssumption DEF StreamTypeOK
<1>4. CASE streamReset
  <2>1. m_SizeOfReceived' = 0 /\ m_Value' \in [Positions -> Byte]
    BY <1>4, StreamAssumption DEF streamReset
  <2> QED
    BY <2>1, AllIsDropped
<1>5. CASE streamClone
  <2>1. UNCHANGED streamVars
    BY <1>5 DEF streamClone, streamVars, StreamTypeOK
  <2> QED
    BY <2>1, NoStep
<1> QED
  BY <1>1, <1>2, <1>3, <1>4, <1>5 DEF StreamNext

(* The size never passes the capacity: nothing is written behind the array.   *)
THEOREM StreamTypes == StreamSpec => []StreamTypeOK
<1>1. StreamInit => StreamTypeOK
  BY InitStream
<1>2. StreamTypeOK /\ [StreamNext]_streamVars => StreamTypeOK'
  BY StreamStep
<1> QED
  BY <1>1, <1>2, PTL DEF StreamSpec

(* StreamData::putData, flushTo: no byte that was accepted is lost, doubled,  *)
(* changed or reordered, for every capacity and all amounts dropped.          *)
THEOREM BufferIsStream == StreamSpec => StreamIsByteStream
<1>1. StreamInit => Arrived!Init
  BY InitStream DEF Arrived!Init
<1>2. StreamTypeOK /\ [StreamNext]_streamVars => [Arrived!Put \/ Arrived!Take]_getStream
  BY StreamStep
<1> QED
  BY <1>1, <1>2, StreamTypes, PTL DEF StreamSpec, StreamIsByteStream, Arrived!Spec
-----------------------------------------------------------------------------
(* The steps that may be pending, and which of them stand next to each other: *)
(* connecting is followed by the assignment of the flag, and the flag is      *)
(* assigned only behind a step that has just set the result.                  *)
OdbcSteps == {"ConnectProcess", "false", "Reconnect", "connected", "FreesStatement",
              "AllocatesStatement", "BeginSP", "Binds", "SetQuery", "ended", "Executes",
              "FetchData", "NextRecordSet", "GetData", "GetDataOfType", "GetsResult"}
Pairs(q) ==
  \A i \in 1 .. Len(q) :
    /\ q[i] = "ConnectProcess" => i < Len(q) /\ q[i + 1] = "connected"
    /\ q[i] = "FreesStatement" => i < Len(q) /\ q[i + 1] = "AllocatesStatement"
    /\ q[i] = "AllocatesStatement" => i < Len(q) /\ q[i + 1] \in {"BeginSP", "SetQuery"}
    /\ q[i] = "connected" /\ i > 1 => q[i - 1] \in {"ConnectProcess", "false"}
    /\ q[i] = "SetQuery" => i = Len(q)
Ordered == todo \in Seq(OdbcSteps) /\ Pairs(todo)

Has(q, x) == \E i \in 1 .. Len(q) : q[i] = x

(* The flag: what a successful connect leaves, and who will still assign it.  *)
FlagInv == /\ At("connected") /\ result => m_hdbc = "connected"
           /\ bIsConnected /\ ~ hungUp /\ m_hdbc # "connected" => Has(todo, "connected")

(* The handles: a freed one is about to be replaced.                          *)
HandlesInv ==
  /\ m_hstmt = "live" => m_hdbc = "connected"
  /\ ~ hungUp /\ "freed" \in {m_henv, m_hdbc} => At("ConnectProcess")
  /\ ~ hungUp /\ m_hstmt = "freed" =>
       At("ConnectProcess") \/ (At("AllocatesStatement") /\ m_hdbc = "connected")

(* The text, from the step that begins it.                                    *)
QueryPieces == {"{call", "( ?", ", ?", "}", ")}", "query"}
CallText == <<"{call">> \o Marks(asked)
Reading == {"FetchData", "GetData", "GetsResult"}
TextInv ==
  /\ stage \in {"none", "building", "ended", "executed"} /\ m_pszQuery \in Seq(QueryPieces)
  /\ Has(todo, "BeginSP") => stage = "building" /\ asked = 0
  /\ Has(todo, "SetQuery") => stage = "ended" /\ asked = 0
  /\ \A x \in Reading : Has(todo, x) => stage = "executed"
  /\ stage = "building" /\ ~ Has(todo, "BeginSP") =>
       m_siParamNo <= asked /\ Len(m_pszQuery) <= asked + 1
  /\ m_hstmt = "live" /\ ~ Has(todo, "BeginSP") /\ ~ Has(todo, "SetQuery")
     /\ ~ Has(todo, "ended") =>
       /\ stage = "building" => m_siParamNo = asked /\ m_pszQuery = CallText
       /\ stage \in {"ended", "executed"} =>
            m_pszQuery \in {<<"query">>, CallText \o <<IF asked = 0 THEN "}" ELSE ")}">>}

OdbcInv == OdbcTypeOK /\ Ordered /\ FlagInv /\ HandlesInv /\ TextInv

LEMMA OdbcInitInv == OdbcInit => OdbcInv
<1> SUFFICES ASSUME OdbcInit PROVE OdbcInv
  OBVIOUS
<1>1. todo = <<>> /\ Len(todo) = 0 /\ m_pszQuery = <<>> /\ Len(m_pszQuery) = 0
  BY DEF OdbcInit
<1>2. \A x : ~ Has(todo, x)
  BY <1>1 DEF Has
<1>3. OdbcTypeOK
  <2>1. 0 \in 0 .. MaxParams + 1 /\ 0 \in 0 .. MaxParams /\ 0 <= MaxParams + 2
    BY OdbcAssumption
  <2> QED
    BY <1>1, <2>1 DEF OdbcInit, OdbcTypeOK
<1>4. Ordered
  BY <1>1 DEF Ordered, Pairs
<1>5. FlagInv /\ HandlesInv
  BY <1>1 DEF OdbcInit, FlagInv, HandlesInv, At
<1>6. TextInv
  BY <1>1, <1>2 DEF OdbcInit, TextInv
<1> QED
  BY <1>3, <1>4, <1>5, <1>6 DEF OdbcInv

Added == {<<>>, <<"false">>, <<"Reconnect">>, <<"Reconnect", "false">>,
          <<"ConnectProcess", "connected">>, <<"GetDataOfType", "FetchData", "GetsResult">>}

LEMMA AddedSteps ==
  ASSUME NEW steps \in Added
  PROVE  /\ steps \in Seq(OdbcSteps) /\ Len(steps) \in 0 .. 3
         /\ Pairs(steps)
         /\ ~ Has(steps, "BeginSP") /\ ~ Has(steps, "SetQuery") /\ ~ Has(steps, "ended")
         /\ steps # <<>> => Len(steps) > 0
         /\ steps # <<"GetDataOfType", "FetchData", "GetsResult">> =>
              \A x \in Reading : ~ Has(steps, x)
<1>1. CASE steps = <<>>
  BY <1>1 DEF OdbcSteps, Pairs, Has, Reading
<1>2. CASE steps = <<"false">>
  BY <1>2 DEF OdbcSteps, Pairs, Has, Reading
<1>3. CASE steps = <<"Reconnect">>
  BY <1>3 DEF OdbcSteps, Pairs, Has, Reading
<1>4. CASE steps = <<"Reconnect", "false">>
  BY <1>4 DEF OdbcSteps, Pairs, Has, Reading
<1>5. CASE steps = <<"ConnectProcess", "connected">>
  BY <1>5 DEF OdbcSteps, Pairs, Has, Reading
<1>6. CASE steps = <<"GetDataOfType", "FetchData", "GetsResult">>
  BY <1>6 DEF OdbcSteps, Pairs, Has, Reading
<1> QED
  BY <1>1, <1>2, <1>3, <1>4, <1>5, <1>6 DEF Added

(* The step in front makes way for others.                                    *)
LEMMA ThenOrdered ==
  ASSUME Ordered, todo # <<>>, NEW steps \in Added, Then(steps),
         Head(todo) \in {"ConnectProcess", "false"}
           => steps \in {<<>>, <<"false">>, <<"Reconnect", "false">>}
  PROVE  /\ Ordered'
         /\ \A x : Has(todo, x) /\ x # Head(todo) => Has(todo', x)
         /\ \A x : Has(todo', x) => Has(todo, x) \/ Has(steps, x)
         /\ \A x : Has(steps, x) => Has(todo', x)
         /\ steps # <<>> => todo' # <<>> /\ Head(todo') = steps[1]
         /\ steps = <<>> /\ todo' # <<>> => Len(todo) > 1 /\ Head(todo') = todo[2]
<1> DEFINE n == Len(steps)  q == steps \o Tail(todo)
<1>1. /\ n = Len(steps)
      /\ todo \in Seq(OdbcSteps) /\ Len(todo) \in Nat \ {0} /\ Head(todo) = todo[1]
      /\ steps \in Seq(OdbcSteps) /\ n \in 0 .. 3 /\ todo' = q
  BY AddedSteps DEF Ordered, Then
<1>2. /\ q \in Seq(OdbcSteps) /\ Len(q) = n + Len(todo) - 1
      /\ \A i \in 1 .. n : q[i] = steps[i]
      /\ \A i \in n + 1 .. Len(q) : q[i] = todo[i - n + 1]
  BY <1>1
<1>2a. /\ n \in Nat /\ Len(todo) \in Nat /\ Len(q) \in Nat
       /\ Len(q) = n + Len(todo) - 1
  BY <1>1, <1>2
<1>2b. \A i \in n + 1 .. Len(q) : q[i] = todo[i - n + 1]
  BY <1>2
<1> HIDE DEF q, n
<1>3. Pairs(steps) /\ Pairs(todo)
  BY AddedSteps DEF Ordered
<1>4. \A i \in n + 1 .. Len(q) : i - n + 1 \in 2 .. Len(todo)
  BY <1>2a
<1>5. ASSUME n > 0, todo[1] \in {"ConnectProcess", "false"} PROVE steps[n] = "false"
  <2>1. steps = <<"false">> \/ steps = <<"Reconnect", "false">>
    BY <1>1, <1>5
  <2>2. CASE steps = <<"false">>
    BY <1>1, <2>2
  <2>3. CASE steps = <<"Reconnect", "false">>
    BY <1>1, <2>3
  <2> QED
    BY <2>1, <2>2, <2>3
<1>6. n > 0 => steps[n] \notin {"ConnectProcess", "FreesStatement", "AllocatesStatement"}
  <2>1. \A i \in 1 .. n : i = n => ~ (i < Len(steps))
    BY <1>1
  <2> QED BY <1>1, <1>3, <2>1 DEF Pairs
<1>7. Pairs(q)
  <2> SUFFICES ASSUME NEW i \in 1 .. Len(q)
               PROVE  /\ q[i] = "ConnectProcess" => i < Len(q) /\ q[i + 1] = "connected"
                      /\ q[i] = "FreesStatement" => i < Len(q) /\ q[i + 1] = "AllocatesStatement"
                      /\ q[i] = "AllocatesStatement" =>
                           i < Len(q) /\ q[i + 1] \in {"BeginSP", "SetQuery"}
                      /\ q[i] = "connected" /\ i > 1 => q[i - 1] \in {"ConnectProcess", "false"}
                      /\ q[i] = "SetQuery" => i = Len(q)
    BY DEF Pairs
  <2>a. i \in 1 .. n => q[i] # "SetQuery"
    BY <1>1, <1>2, AddedSteps DEF Has
  <2>1. CASE i < n
    <3>1. /\ i \in 1 .. n /\ q[i] = steps[i] /\ q[i + 1] = steps[i + 1]
          /\ i > 1 => q[i - 1] = steps[i - 1]
          /\ i < Len(q)
      <4>1. i \in 1 .. n /\ i + 1 \in 1 .. n /\ (i > 1 => i - 1 \in 1 .. n) /\ i < Len(q)
        BY <1>1, <1>2a, <2>1
      <4> QED
        BY <1>2, <4>1
    <3> QED
      BY <1>1, <1>3, <2>a, <3>1 DEF Pairs
  <2>2. CASE i = n
    <3>1. /\ n > 0 /\ n \in 1 .. n /\ q[n] = steps[n]
          /\ n > 1 => n - 1 \in 1 .. n /\ q[n - 1] = steps[n - 1]
      <4>1. n > 0 /\ n \in 1 .. n /\ (n > 1 => n - 1 \in 1 .. n)
        BY <1>2a, <2>2
      <4> QED
        BY <1>2, <4>1
    <3>2. q[n] \notin {"ConnectProcess", "FreesStatement", "AllocatesStatement", "SetQuery"}
      BY <1>6, <2>a, <2>2, <3>1
    <3>3. q[n] = "connected" /\ n > 1 => q[n - 1] \in {"ConnectProcess", "false"}
      <4>1. n \in 1 .. Len(steps)
        BY <1>1, <3>1
      <4>2. steps[n] = "connected" /\ n > 1 => steps[n - 1] \in {"ConnectProcess", "false"}
        BY <1>3, <4>1 DEF Pairs
      <4> QED
        BY <3>1, <4>2
    <3> QED
      BY <2>2, <3>2, <3>3
  <2>3. CASE i = n + 1
    <3>1. /\ i \in n + 1 .. Len(q) /\ i - n + 1 = 2 /\ 2 \in 1 .. Len(todo)
          /\ (i < Len(q) <=> 2 < Len(todo))
          /\ i < Len(q) => i + 1 \in n + 1 .. Len(q) /\ (i + 1) - n + 1 = 3
      BY <1>2a, <2>3
    <3>a. q[i] = todo[2] /\ (i < Len(q) => q[i + 1] = todo[3])
      BY <1>2b, <3>1
    <3>2. q[i] = "connected" /\ i > 1 => q[i - 1] = "false"
      <4>1. q[i] = "connected" => todo[1] \in {"ConnectProcess", "false"}
        <5>1. 2 - 1 = 1 /\ 2 > 1
          OBVIOUS
        <5> QED
          BY <1>3, <3>1, <3>a, <5>1 DEF Pairs
      <4>2. i > 1 => n > 0 /\ n \in 1 .. n /\ i - 1 = n
        BY <1>2a, <2>3
      <4> QED
        BY <1>2, <1>5, <4>1, <4>2
    <3>3. 2 + 1 = 3
      OBVIOUS
    <3> QED
      BY <1>3, <3>1, <3>a, <3>2, <3>3 DEF Pairs
  <2>4. CASE i > n + 1
    <3>1. PICK j \in 2 .. Len(todo) : j = i - n + 1
      BY <1>2a, <2>4
    <3>2. n \in Int /\ i \in Int /\ j \in Int /\ Len(todo) \in Int /\ i <= Len(q)
      BY <1>1, <1>2, <3>1
    <3>a. j > 1 /\ j \in 1 .. Len(todo) /\ (i < Len(q) <=> j < Len(todo))
      BY <1>2a, <1>2b, <2>4, <3>1, <3>2
    <3>b. q[i] = todo[j]
      BY <1>2a, <1>2b, <2>4, <3>1, <3>2
    <3>c. q[i - 1] = todo[j - 1]
      <4>1. i - 1 \in n + 1 .. Len(q) /\ (i - 1) - n + 1 = j - 1
        BY <1>2a, <2>4, <3>1, <3>2
      <4> QED BY <1>2b, <4>1
    <3>d. i < Len(q) => q[i + 1] = todo[j + 1]
      <4>1. i < Len(q) => i + 1 \in n + 1 .. Len(q) /\ (i + 1) - n + 1 = j + 1
        BY <1>2a, <2>4, <3>1, <3>2
      <4> QED BY <1>2b, <4>1
    <3> QED
      BY <1>3, <3>a, <3>b, <3>c, <3>d DEF Pairs
  <2> QED
    BY <1>1, <2>1, <2>2, <2>3, <2>4
<1>8. ASSUME NEW x, Has(todo, x), x # Head(todo) PROVE Has(q, x)
  <2>1. PICK j \in 1 .. Len(todo) : todo[j] = x
    BY <1>8 DEF Has
  <2>2. j # 1 /\ n \in Int /\ Len(todo) \in Int /\ j \in Int /\ j >= 1 /\ j <= Len(todo)
    BY <1>1, <1>8, <2>1
  <2>3. PICK i \in n + 1 .. Len(q) : i = j + n - 1
    BY <1>2a, <2>2
  <2>4. i - n + 1 = j /\ i \in 1 .. Len(q)
    BY <1>2a, <2>2, <2>3
  <2>5. q[i] = todo[j]
    BY <1>2b, <2>3, <2>4
  <2> QED BY <2>1, <2>4, <2>5 DEF Has
<1>9. ASSUME NEW x, Has(q, x) PROVE Has(todo, x) \/ Has(steps, x)
  <2>1. PICK i \in 1 .. Len(q) : q[i] = x
    BY <1>9 DEF Has
  <2>2. CASE i \in 1 .. n
    BY <1>1, <1>2, <2>1, <2>2 DEF Has
  <2>3. CASE i \in n + 1 .. Len(q)
    BY <1>1, <1>2, <1>4, <2>1, <2>3 DEF Has
  <2> QED BY <1>1, <1>2, <2>2, <2>3
<1>12. ASSUME NEW x, Has(steps, x) PROVE Has(q, x)
  <2>1. PICK i \in 1 .. n : steps[i] = x
    BY <1>1, <1>12 DEF Has
  <2>2. i \in 1 .. Len(q) /\ q[i] = x
    BY <1>1, <1>2, <1>2a, <2>1
  <2> QED BY <2>2 DEF Has
<1>10. steps # <<>> => q # <<>> /\ Head(q) = steps[1]
  BY <1>1, <1>2, AddedSteps
<1>11. steps = <<>> /\ q # <<>> => Len(todo) > 1 /\ Head(q) = todo[2]
  BY <1>1, <1>2
<1> QED
  BY <1>1, <1>2, <1>7, <1>8, <1>9, <1>10, <1>11, <1>12 DEF Ordered

(* What the rest of the proof uses of it: which marks stay, and what the next *)
(* step can be.                                                               *)
LEMMA ThenFacts ==
  ASSUME Ordered, todo # <<>>, NEW steps \in Added, Then(steps),
         Head(todo) \in {"ConnectProcess", "false"}
           => steps \in {<<>>, <<"false">>, <<"Reconnect", "false">>}
  PROVE  /\ Ordered'
         /\ Head(todo) # "BeginSP" => (Has(todo', "BeginSP") <=> Has(todo, "BeginSP"))
         /\ Head(todo) # "SetQuery" => (Has(todo', "SetQuery") <=> Has(todo, "SetQuery"))
         /\ Head(todo) # "ended" => (Has(todo', "ended") <=> Has(todo, "ended"))
         /\ \A x \in Reading :
              Has(todo', x) => Has(todo, x) \/ steps = <<"GetDataOfType", "FetchData", "GetsResult">>
         /\ Head(todo) # "connected" /\ Has(todo, "connected") => Has(todo', "connected")
         /\ Head(todo) = "ConnectProcess" => Has(todo', "connected")
         /\ steps = <<"ConnectProcess", "connected">> =>
              At("ConnectProcess")' /\ Has(todo', "connected")
         /\ At("connected")' => steps = <<>> /\ Head(todo) \in {"ConnectProcess", "false"}
         /\ Head(todo) = "FreesStatement" /\ steps = <<>> => At("AllocatesStatement")'
         /\ Head(todo) = "AllocatesStatement" => Has(todo', "BeginSP") \/ Has(todo', "SetQuery")
<1>1. /\ Ordered'
      /\ \A x : Has(todo, x) /\ x # Head(todo) => Has(todo', x)
      /\ \A x : Has(todo', x) => Has(todo, x) \/ Has(steps, x)
      /\ \A x : Has(steps, x) => Has(todo', x)
      /\ steps # <<>> => todo' # <<>> /\ Head(todo') = steps[1]
      /\ steps = <<>> /\ todo' # <<>> => Len(todo) > 1 /\ Head(todo') = todo[2]
  BY ThenOrdered
<1>2. ~ Has(steps, "BeginSP") /\ ~ Has(steps, "SetQuery") /\ ~ Has(steps, "ended")
  BY AddedSteps
<1>b. \A x \in Reading :
        Has(todo', x) => Has(todo, x) \/ steps = <<"GetDataOfType", "FetchData", "GetsResult">>
  BY <1>1, AddedSteps
<1>3. steps # <<>> => steps[1] # "connected"
  BY DEF Added
<1>4. /\ todo \in Seq(OdbcSteps) /\ Len(todo) \in Nat \ {0} /\ Head(todo) = todo[1]
      /\ 1 \in 1 .. Len(todo) /\ (Len(todo) > 1 => 2 \in 1 .. Len(todo))
      /\ 1 + 1 = 2 /\ 2 - 1 = 1 /\ 2 > 1 /\ (1 < Len(todo) => Len(todo) > 1)
  BY DEF Ordered
<1>5. Pairs(todo)
  BY DEF Ordered
<1>6. /\ Head(todo) = "ConnectProcess" => 2 \in 1 .. Len(todo) /\ todo[2] = "connected"
      /\ Head(todo) = "FreesStatement" => 2 \in 1 .. Len(todo) /\ todo[2] = "AllocatesStatement"
      /\ Head(todo) = "AllocatesStatement" =>
           2 \in 1 .. Len(todo) /\ todo[2] \in {"BeginSP", "SetQuery"}
      /\ Len(todo) > 1 /\ todo[2] = "connected" => Head(todo) \in {"ConnectProcess", "false"}
  BY <1>4, <1>5 DEF Pairs
<1>7. Head(todo) = "ConnectProcess" => Has(todo', "connected")
  <2>1. Head(todo) = "ConnectProcess" => Has(todo, "connected")
    BY <1>6 DEF Has
  <2> QED
    BY <1>1, <2>1
<1>8. ASSUME steps = <<"ConnectProcess", "connected">>
      PROVE  At("ConnectProcess")' /\ Has(todo', "connected")
  <2>1. Len(steps) = 2 /\ steps[2] = "connected" /\ steps[1] = "ConnectProcess" /\ steps # <<>>
    BY <1>8
  <2>2. Has(steps, "connected")
    BY <2>1 DEF Has
  <2> QED
    BY <1>1, <2>1, <2>2 DEF At
<1>9. At("connected")' => steps = <<>> /\ Head(todo) \in {"ConnectProcess", "false"}
  BY <1>1, <1>3, <1>6 DEF At
<1>10. ASSUME Head(todo) = "FreesStatement", steps = <<>> PROVE At("AllocatesStatement")'
  <2>1. todo' # <<>>
    <3>1. Has(todo, "AllocatesStatement")
      BY <1>6, <1>10 DEF Has
    <3>2. Has(todo', "AllocatesStatement")
      BY <1>1, <1>10, <3>1
    <3>3. ~ Has(<<>>, "AllocatesStatement")
      BY DEF Has
    <3> QED
      BY <3>2, <3>3
  <2> QED
    BY <1>1, <1>6, <1>10, <2>1 DEF At
<1>11. Head(todo) = "AllocatesStatement" => Has(todo', "BeginSP") \/ Has(todo', "SetQuery")
  <2>1. Head(todo) = "AllocatesStatement" => Has(todo, "BeginSP") \/ Has(todo, "SetQuery")
    BY <1>6 DEF Has
  <2> QED
    BY <1>1, <2>1
<1> QED
  BY <1>1, <1>2, <1>b, <1>7, <1>8, <1>9, <1>10, <1>11

(* CheckError goes on with the steps of its caller, or with them behind a     *)
(* reconnect.                                                                 *)
LEMMA CheckErrorThen ==
  ASSUME NEW handle, NEW steps \in {<<>>, <<"false">>}, CheckError(handle, steps)
  PROVE  \E more \in {<<>>, <<"false">>, <<"Reconnect">>, <<"Reconnect", "false">>} :
           Then(more) /\ (steps = <<"false">> => more \in {<<"false">>, <<"Reconnect", "false">>})
<1>1. <<"Reconnect">> \o <<>> = <<"Reconnect">>
  OBVIOUS
<1>3. <<"Reconnect">> \o <<"false">> = <<"Reconnect", "false">>
  <2>1. <<"Reconnect">> \in Seq(OdbcSteps) /\ <<"false">> \in Seq(OdbcSteps)
    BY DEF OdbcSteps
  <2>2. Append(<<"Reconnect">>, "false") = <<"Reconnect", "false">>
    <3> DEFINE a == Append(<<"Reconnect">>, "false")  b == <<"Reconnect", "false">>
    <3>1. a \in Seq(OdbcSteps) /\ Len(a) = 2 /\ a[1] = "Reconnect" /\ a[2] = "false"
      BY <2>1 DEF OdbcSteps
    <3>2. b \in Seq(OdbcSteps) /\ Len(b) = 2 /\ b[1] = "Reconnect" /\ b[2] = "false"
      BY DEF OdbcSteps
    <3> HIDE DEF a, b
    <3>3. \A i \in 1 .. Len(a) : a[i] = b[i]
      BY <3>1, <3>2
    <3>4. a = b
      BY <3>1, <3>2, <3>3, SeqEqual
    <3> QED
      BY <3>4 DEF a, b
  <2>3. "false" \in OdbcSteps
    BY DEF OdbcSteps
  <2> QED
    BY <2>1, <2>2, <2>3, AppendIsConcat
<1>2. <<"false">> # <<>>
  OBVIOUS
<1> QED
  BY <1>1, <1>2, <1>3 DEF CheckError

LEMMA CallTextGrows ==
  ASSUME NEW n \in Nat
  PROVE  /\ <<"{call">> \o Marks(n) \in Seq(QueryPieces) /\ Len(<<"{call">> \o Marks(n)) = n + 1
         /\ <<"{call">> \o Marks(n + 1)
              = Append(<<"{call">> \o Marks(n), IF n = 0 THEN "( ?" ELSE ", ?")
         /\ <<"{call">> \o Marks(0) = <<"{call">>
<1>1. \A k \in Nat : /\ Marks(k) \in Seq(QueryPieces) /\ Len(Marks(k)) = k
                     /\ \A i \in 1 .. k : Marks(k)[i] = IF i = 1 THEN "( ?" ELSE ", ?"
  BY DEF Marks, QueryPieces
<1>2. <<"{call">> \in Seq(QueryPieces) /\ Len(<<"{call">>) = 1 /\ <<"{call">>[1] = "{call"
  BY DEF QueryPieces
<1> DEFINE text(k) == <<"{call">> \o Marks(k)
           last == IF n = 0 THEN "( ?" ELSE ", ?"
<1>3. \A k \in Nat : /\ text(k) \in Seq(QueryPieces) /\ Len(text(k)) = k + 1
                     /\ text(k)[1] = "{call"
                     /\ \A i \in 2 .. k + 1 : text(k)[i] = IF i = 2 THEN "( ?" ELSE ", ?"
  <2> SUFFICES ASSUME NEW k \in Nat
               PROVE  /\ text(k) \in Seq(QueryPieces) /\ Len(text(k)) = k + 1
                      /\ text(k)[1] = "{call"
                      /\ \A i \in 2 .. k + 1 : text(k)[i] = IF i = 2 THEN "( ?" ELSE ", ?"
    OBVIOUS
  <2>1. /\ text(k) \in Seq(QueryPieces) /\ Len(text(k)) = k + 1 /\ text(k)[1] = "{call"
        /\ \A i \in 2 .. k + 1 : text(k)[i] = Marks(k)[i - 1]
    <3>1. <<"{call">> \in Seq(QueryPieces) /\ Marks(k) \in Seq(QueryPieces)
      BY <1>1, <1>2
    <3>2. /\ text(k) \in Seq(QueryPieces) /\ Len(text(k)) = 1 + Len(Marks(k))
          /\ \A i \in 1 .. 1 + Len(Marks(k)) :
               text(k)[i] = IF i <= 1 THEN <<"{call">>[i] ELSE Marks(k)[i - 1]
      BY <1>2, <3>1, ConcatProperties
    <3>3. Len(Marks(k)) = k
      BY <1>1
    <3> HIDE DEF text
    <3> QED
      <4>a. 1 + k = k + 1 /\ 1 \in 1 .. 1 + k /\ 1 <= 1
        OBVIOUS
      <4>b. Len(text(k)) = k + 1
        BY <3>2, <3>3, <4>a
      <4>c. text(k)[1] = <<"{call">>[1]
        BY <3>2, <3>3, <4>a
      <4>1. Len(text(k)) = k + 1 /\ text(k)[1] = "{call"
        BY <1>2, <4>b, <4>c
      <4>2. \A i \in 2 .. k + 1 : i \in 1 .. 1 + k /\ ~ (i <= 1)
        OBVIOUS
      <4>3. \A i \in 2 .. k + 1 : text(k)[i] = Marks(k)[i - 1]
        BY <3>2, <3>3, <4>2
      <4> QED
        BY <3>2, <4>1, <4>3
  <2>2. \A i \in 2 .. k + 1 : i - 1 \in 1 .. k /\ (i - 1 = 1 <=> i = 2)
    OBVIOUS
  <2> QED
    BY <1>1, <2>1, <2>2
<1>4. /\ Append(text(n), last) \in Seq(QueryPieces) /\ Len(Append(text(n), last)) = n + 2
      /\ \A i \in 1 .. n + 1 : Append(text(n), last)[i] = text(n)[i]
      /\ Append(text(n), last)[n + 2] = last
  <2>1. last \in QueryPieces
    BY DEF QueryPieces
  <2>2. text(n) \in Seq(QueryPieces) /\ Len(text(n)) = n + 1
    BY <1>3
  <2> HIDE DEF text, last
  <2> QED
    BY <2>1, <2>2, AppendProperties
<1>5. n + 1 \in Nat /\ (n + 1) + 1 = n + 2 /\ 0 \in Nat /\ 0 + 1 = 1
  OBVIOUS
<1>6. text(n + 1) = Append(text(n), last)
  <2> HIDE DEF text
  <2>1. /\ text(n + 1) \in Seq(QueryPieces) /\ Len(text(n + 1)) = n + 2
        /\ text(n + 1)[1] = "{call"
        /\ \A i \in 2 .. n + 2 : text(n + 1)[i] = IF i = 2 THEN "( ?" ELSE ", ?"
    BY <1>3, <1>5
  <2>2. ASSUME NEW i \in 1 .. n + 2 PROVE text(n + 1)[i] = Append(text(n), last)[i]
    <3>1. CASE i = 1
      <4>1. text(n)[1] = "{call"
        BY <1>3
      <4>2. 1 \in 1 .. n + 1
        OBVIOUS
      <4> HIDE DEF last
      <4> QED
        BY <1>4, <2>1, <3>1, <4>1, <4>2
    <3>2. CASE i \in 2 .. n + 1
      <4>1. text(n)[i] = IF i = 2 THEN "( ?" ELSE ", ?"
        BY <1>3, <3>2
      <4>2. i \in 1 .. n + 1 /\ i \in 2 .. n + 2
        BY <3>2
      <4> HIDE DEF last
      <4> QED
        BY <1>4, <2>1, <4>1, <4>2
    <3>3. CASE i = n + 2
      <4>1. n + 2 \in 2 .. n + 2 /\ (n + 2 = 2 <=> n = 0)
        OBVIOUS
      <4>2. text(n + 1)[n + 2] = last
        BY <2>1, <4>1
      <4> HIDE DEF last
      <4> QED
        BY <1>4, <3>3, <4>2
    <3>4. i = 1 \/ i \in 2 .. n + 1 \/ i = n + 2
      OBVIOUS
    <3> QED
      BY <3>1, <3>2, <3>3, <3>4
  <2>3. Len(text(n + 1)) = Len(Append(text(n), last))
    BY <1>4, <2>1
  <2> HIDE DEF last
  <2> QED
    BY <1>4, <2>1, <2>2, <2>3, SeqEqual
<1>7. text(0) = <<"{call">>
  <2> HIDE DEF text
  <2>1. text(0) \in Seq(QueryPieces) /\ Len(text(0)) = 1 /\ text(0)[1] = "{call"
    BY <1>3, <1>5
  <2> QED
    <3> DEFINE b == <<"{call">>
    <3>1. b \in Seq(QueryPieces) /\ Len(b) = 1 /\ b[1] = "{call"
      BY <1>2
    <3> HIDE DEF b
    <3>2. \A i \in 1 .. Len(b) : text(0)[i] = b[i]
      <4>1. \A i \in 1 .. 1 : i = 1
        OBVIOUS
      <4>2. text(0)[1] = b[1]
        BY <2>1, <3>1
      <4> QED
        BY <3>1, <4>1, <4>2
    <3>3. text(0) = b
      BY <2>1, <3>1, <3>2, SeqEqual
    <3> QED
      BY <3>3 DEF b
<1> QED
  BY <1>3, <1>6, <1>7

LEMMA IdleNothingPending == ASSUME Idle PROVE \A x : ~ Has(todo, x) /\ ~ At(x)
BY DEF Idle, Has, At

LEMMA HeadPending == ASSUME Ordered, NEW x, At(x) PROVE Has(todo, x)
<1>1. Len(todo) \in Nat \ {0} /\ todo[1] = x
  BY DEF Ordered, At
<1> QED
  BY <1>1 DEF Has

(* A statement that stays what it is, and the text with it.                   *)
LEMMA SameText ==
  ASSUME TextInv, UNCHANGED <<m_pszQuery, callerVars>>,
         stage = "executed" \/ UNCHANGED m_siParamNo,
         m_hstmt' = "live" => m_hstmt = "live" \/ Has(todo', "BeginSP") \/ Has(todo', "SetQuery"),
         Has(todo', "BeginSP") <=> Has(todo, "BeginSP"),
         Has(todo', "SetQuery") <=> Has(todo, "SetQuery"),
         Has(todo', "ended") <=> Has(todo, "ended"),
         \A x \in Reading : Has(todo', x) => Has(todo, x) \/ stage = "executed"
  PROVE  TextInv'
<1>1. UNCHANGED <<m_pszQuery, stage, asked, CallText>> /\ (stage = "executed" \/ UNCHANGED m_siParamNo)
  BY DEF callerVars, CallText
<1>2. stage = "executed" => stage # "building"
  OBVIOUS
<1> QED
  BY <1>1, <1>2 DEF TextInv

(* The steps that touch neither the handles nor the text.                     *)
LEMMA QuietStep ==
  ASSUME OdbcInv, todo # <<>>, NEW steps \in Added, Then(steps),
         Head(todo) \notin {"ConnectProcess", "AllocatesStatement", "FreesStatement", "BeginSP",
                            "SetQuery", "connected", "Reconnect", "ended"},
         Head(todo) = "false" => steps = <<>> /\ result' = FALSE,
         steps # <<"ConnectProcess", "connected">>,
         steps = <<"GetDataOfType", "FetchData", "GetsResult">> => stage = "executed",
         UNCHANGED <<handleVars, bIsConnected, m_pszQuery, callerVars, hungUp>>,
         m_retcode' \in {"success", "noData", "error"}, result' \in BOOLEAN,
         \/ m_siParamNo' = m_siParamNo
         \/ stage = "executed" /\ m_siParamNo' \in 0 .. MaxParams + 1
  PROVE  OdbcInv'
<1>1. UNCHANGED <<m_henv, m_hdbc, m_hstmt, bIsConnected, m_pszQuery, stage, asked, hungUp>>
  BY DEF handleVars, callerVars
<1>2. OdbcTypeOK /\ Ordered /\ FlagInv /\ HandlesInv /\ TextInv
  BY DEF OdbcInv
<1>3. OdbcTypeOK'
  BY <1>1, <1>2 DEF OdbcTypeOK
<1>4. /\ Ordered'
      /\ Has(todo', "BeginSP") <=> Has(todo, "BeginSP")
      /\ Has(todo', "SetQuery") <=> Has(todo, "SetQuery")
      /\ Has(todo', "ended") <=> Has(todo, "ended")
      /\ \A x \in Reading : Has(todo', x) => Has(todo, x) \/ stage = "executed"
      /\ Has(todo, "connected") => Has(todo', "connected")
      /\ At("connected")' => Head(todo) = "false"
  BY <1>2, ThenFacts
<1>5. FlagInv'
  BY <1>1, <1>2, <1>4 DEF FlagInv
<1>6. ~ At("ConnectProcess") /\ ~ At("AllocatesStatement")
  BY DEF At
<1>7. HandlesInv'
  BY <1>1, <1>2, <1>6 DEF HandlesInv
<1>8. TextInv'
  BY <1>1, <1>2, <1>4, SameText
<1> QED
  BY <1>3, <1>4, <1>5, <1>7, <1>8 DEF OdbcInv

LEMMA StepReturnFalse == ASSUME OdbcInv, ReturnFalse PROVE OdbcInv'
<1>1. todo # <<>> /\ Head(todo) = "false" /\ Then(<<>>) /\ <<>> \in Added
  BY DEF ReturnFalse, At, Added
<1>2. /\ UNCHANGED <<handleVars, bIsConnected, m_pszQuery, callerVars, hungUp>>
      /\ m_retcode' \in {"success", "noData", "error"} /\ result' = FALSE
      /\ m_siParamNo' = m_siParamNo
  BY DEF ReturnFalse, OdbcInv, OdbcTypeOK, textVars
<1> QED
  BY <1>1, <1>2, QuietStep

LEMMA MoreAdded ==
  /\ <<>> \in Added
  /\ \A more \in {<<>>, <<"false">>, <<"Reconnect">>, <<"Reconnect", "false">>} :
       /\ more \in Added
       /\ more # <<"ConnectProcess", "connected">>
       /\ more # <<"GetDataOfType", "FetchData", "GetsResult">>
<1>1. \A more \in {<<>>, <<"false">>, <<"Reconnect">>, <<"Reconnect", "false">>} : more \in Added
  BY DEF Added
<1>2. \A more \in {<<"false">>, <<"Reconnect">>, <<"Reconnect", "false">>} :
         more[1] \in {"false", "Reconnect"}
  OBVIOUS
<1>3. <<"ConnectProcess", "connected">> # <<>>
      /\ <<"GetDataOfType", "FetchData", "GetsResult">> # <<>>
  OBVIOUS
<1>4. <<"ConnectProcess", "connected">>[1] = "ConnectProcess"
      /\ <<"GetDataOfType", "FetchData", "GetsResult">>[1] = "GetDataOfType"
  OBVIOUS
<1> QED
  BY <1>1, <1>2, <1>3, <1>4 DEF Added

(* The calls of the driver with the statement: each succeeds, or looks for    *)
(* the error.                                                                 *)
LEMMA StepDriver ==
  ASSUME OdbcInv, Binds \/ Executes \/ NextRecordSet \/ FetchData \/ GetDataOfType
  PROVE  OdbcInv'
<1>1. /\ todo # <<>>
      /\ Head(todo) \in {"Binds", "Executes", "NextRecordSet", "FetchData", "GetDataOfType"}
      /\ Head(todo) = "FetchData" => FetchData
      /\ FetchData => Head(todo) = "FetchData"
  BY DEF Binds, Executes, NextRecordSet, FetchData, GetDataOfType, At
<1>2. /\ UNCHANGED <<handleVars, bIsConnected, m_pszQuery, callerVars, hungUp>>
      /\ FetchData \/ m_siParamNo' = m_siParamNo
      /\ FetchData => m_siParamNo' = 1
  BY DEF Binds, Executes, NextRecordSet, FetchData, GetDataOfType, textVars
<1>3. m_retcode' \in {"success", "noData", "error"}
  BY DEF Binds, Executes, NextRecordSet, FetchData, GetDataOfType, OdbcInv, OdbcTypeOK
<1>4. result' \in BOOLEAN
  BY DEF Binds, Executes, NextRecordSet, FetchData, GetDataOfType, OdbcInv, OdbcTypeOK
<1>5. Then(<<>>) \/ \E steps \in {<<>>, <<"false">>} : CheckError(m_hstmt, steps)
  BY DEF Binds, Executes, NextRecordSet, FetchData, GetDataOfType
<1>6. \E more \in {<<>>, <<"false">>, <<"Reconnect">>, <<"Reconnect", "false">>} : Then(more)
  BY <1>5, CheckErrorThen
<1>7. PICK more \in {<<>>, <<"false">>, <<"Reconnect">>, <<"Reconnect", "false">>} : Then(more)
  BY <1>6
<1>8. FetchData => stage = "executed" /\ 1 \in 0 .. MaxParams + 1
  <2>1. FetchData => Has(todo, "FetchData")
    BY HeadPending DEF FetchData, OdbcInv
  <2>2. 1 \in 0 .. MaxParams + 1
    BY OdbcAssumption
  <2> QED
    BY <2>1, <2>2 DEF OdbcInv, TextInv, Reading
<1> QED
  BY <1>1, <1>2, <1>3, <1>4, <1>7, <1>8, MoreAdded, QuietStep

LEMMA StepGetData == ASSUME OdbcInv, GetData PROVE OdbcInv'
<1>1. todo # <<>> /\ Head(todo) = "GetData" /\ Then(<<>>)
  BY DEF GetData, At
<1>2. /\ UNCHANGED <<handleVars, bIsConnected, m_pszQuery, callerVars, hungUp>>
      /\ m_siParamNo' = m_siParamNo + 1 /\ m_siParamNo <= MaxParams
  BY DEF GetData
<1>3. m_retcode' \in {"success", "noData", "error"} /\ m_siParamNo \in 0 .. MaxParams + 1
  BY DEF GetData, OdbcInv, OdbcTypeOK
<1>4. result' \in BOOLEAN
  BY DEF GetData, OdbcInv, OdbcTypeOK
<1>5. m_siParamNo' \in 0 .. MaxParams + 1
  BY <1>2, <1>3, OdbcAssumption
<1>6. stage = "executed"
  <2>1. Has(todo, "GetData")
    BY HeadPending DEF GetData, OdbcInv
  <2> QED
    BY <2>1 DEF OdbcInv, TextInv, Reading
<1> QED
  BY <1>1, <1>2, <1>3, <1>4, <1>5, <1>6, MoreAdded, QuietStep

LEMMA StepGetsResult == ASSUME OdbcInv, GetsResult PROVE OdbcInv'
<1>1. todo # <<>> /\ Head(todo) = "GetsResult"
  BY DEF GetsResult, At
<1>2. PICK steps \in {<<>>, <<"GetDataOfType", "FetchData", "GetsResult">>} : Then(steps)
  BY DEF GetsResult
<1>3. /\ UNCHANGED <<handleVars, bIsConnected, m_pszQuery, callerVars, hungUp>>
      /\ m_siParamNo' = m_siParamNo
  BY DEF GetsResult, textVars
<1>4. m_retcode' \in {"success", "noData", "error"}
  BY DEF GetsResult, OdbcInv, OdbcTypeOK
<1>5. result' \in BOOLEAN
  BY DEF GetsResult, OdbcInv, OdbcTypeOK
<1>6. stage = "executed"
  <2>1. Has(todo, "GetsResult")
    BY HeadPending DEF GetsResult, OdbcInv
  <2> QED
    BY <2>1 DEF OdbcInv, TextInv, Reading
<1>7. steps \in Added /\ steps # <<"ConnectProcess", "connected">>
  <2>1. <<"GetDataOfType", "FetchData", "GetsResult">> # <<"ConnectProcess", "connected">>
    OBVIOUS
  <2> QED
    BY <1>2, <2>1, MoreAdded DEF Added
<1> QED
  BY <1>1, <1>2, <1>3, <1>4, <1>5, <1>6, <1>7, QuietStep

LEMMA StepConnectProcess == ASSUME OdbcInv, ConnectProcess PROVE OdbcInv'
<1>1. OdbcTypeOK /\ Ordered /\ FlagInv /\ HandlesInv /\ TextInv
  BY DEF OdbcInv
<1>2. /\ todo # <<>> /\ Head(todo) = "ConnectProcess"
      /\ m_hstmt' = "null" /\ m_siParamNo' = 0 /\ m_pszQuery' = <<>> /\ hungUp' = FALSE
      /\ UNCHANGED <<bIsConnected, stage, asked>>
  BY DEF ConnectProcess, At, InitODBC, callerVars
<1>3. /\ m_henv' \in {"null", "live"} /\ m_hdbc' \in {"null", "allocated", "connected"}
      /\ m_retcode' \in {"success", "error"}
  BY DEF ConnectProcess
<1>4. \/ result' = TRUE /\ m_hdbc' = "connected" /\ Then(<<>>)
      \/ /\ result' = result
         /\ \/ Then(<<"false">>)
            \/ CheckError("live", <<"false">>) \/ CheckError("allocated", <<"false">>)
  BY DEF ConnectProcess
<1>5. ASSUME NEW handle, CheckError(handle, <<"false">>)
      PROVE  \E more \in {<<"false">>, <<"Reconnect", "false">>} : Then(more)
  BY <1>5, CheckErrorThen
<1>6. PICK steps \in {<<>>, <<"false">>, <<"Reconnect", "false">>} :
         Then(steps) /\ (steps = <<>> => result' = TRUE /\ m_hdbc' = "connected")
  <2>1. <<"false">> # <<>> /\ <<"Reconnect", "false">> # <<>>
    OBVIOUS
  <2> QED
    BY <1>4, <1>5, <2>1
<1>7. /\ Ordered'
      /\ Has(todo', "BeginSP") <=> Has(todo, "BeginSP")
      /\ Has(todo', "SetQuery") <=> Has(todo, "SetQuery")
      /\ \A x \in Reading : Has(todo', x) => Has(todo, x)
      /\ Has(todo', "connected")
      /\ At("connected")' => steps = <<>>
  BY <1>1, <1>2, <1>6, MoreAdded, ThenFacts
<1>8. result' \in BOOLEAN
  BY <1>1, <1>4 DEF OdbcTypeOK
<1>9. OdbcTypeOK'
  <2>1. Len(m_pszQuery') <= MaxParams + 2 /\ 0 \in 0 .. MaxParams + 1
    BY <1>2, OdbcAssumption
  <2>2. Len(m_pszQuery)' <= MaxParams + 2
    BY <2>1
  <2> QED
    BY <1>1, <1>2, <1>3, <1>8, <2>1, <2>2 DEF OdbcTypeOK
<1>10. FlagInv'
  BY <1>6, <1>7 DEF FlagInv
<1>11. HandlesInv'
  BY <1>2, <1>3 DEF HandlesInv
<1>12. TextInv'
  <2>1. asked \in Nat
    BY <1>1, OdbcAssumption DEF OdbcTypeOK
  <2>2. m_pszQuery' \in Seq(QueryPieces) /\ m_siParamNo' <= asked' /\ Len(m_pszQuery') <= asked' + 1
    BY <1>2, <2>1
  <2>3. Len(m_pszQuery)' <= asked' + 1
    BY <2>2
  <2> QED
    BY <1>1, <1>2, <1>7, <2>2, <2>3 DEF TextInv
<1> QED
  BY <1>7, <1>9, <1>10, <1>11, <1>12 DEF OdbcInv

LEMMA StepReconnect == ASSUME OdbcInv, Reconnect PROVE OdbcInv'
<1>1. OdbcTypeOK /\ Ordered /\ FlagInv /\ HandlesInv /\ TextInv
  BY DEF OdbcInv
<1>2. /\ todo # <<>> /\ Head(todo) = "Reconnect" /\ Then(<<"ConnectProcess", "connected">>)
      /\ UNCHANGED <<bIsConnected, m_siParamNo, m_pszQuery, result, stage, asked, hungUp>>
  BY DEF Reconnect, At, textVars, callerVars
<1>3. PICK dbc \in {"null", "allocated", "connected", "freed"} :
         DisconnectHandles(dbc) /\ ReleaseODBC(dbc)
  BY DEF Reconnect
<1>4. m_hstmt' \in {"null", "freed"} /\ m_retcode' \in {"success", "error"}
  BY <1>1, <1>3 DEF DisconnectHandles, OdbcTypeOK
<1>5. m_hdbc' \in {"null", "connected", "freed"} /\ m_henv' \in {"null", "live", "freed"}
  BY <1>1, <1>3 DEF ReleaseODBC, OdbcTypeOK
<1>6. <<"ConnectProcess", "connected">> \in Added
      /\ <<"ConnectProcess", "connected">> # <<"GetDataOfType", "FetchData", "GetsResult">>
      /\ <<"ConnectProcess", "connected">> # <<>>
  BY DEF Added
<1>7. /\ Ordered'
      /\ Has(todo', "BeginSP") <=> Has(todo, "BeginSP")
      /\ Has(todo', "SetQuery") <=> Has(todo, "SetQuery")
      /\ Has(todo', "ended") <=> Has(todo, "ended")
      /\ \A x \in Reading : Has(todo', x) => Has(todo, x)
      /\ At("ConnectProcess")' /\ Has(todo', "connected")
      /\ ~ At("connected")'
  BY <1>1, <1>2, <1>6, ThenFacts
<1>8. OdbcTypeOK'
  BY <1>1, <1>2, <1>4, <1>5 DEF OdbcTypeOK
<1>9. FlagInv'
  BY <1>7 DEF FlagInv
<1>10. HandlesInv'
  BY <1>4, <1>7 DEF HandlesInv
<1>11. TextInv'
  BY <1>1, <1>2, <1>4, <1>7, SameText DEF callerVars
<1> QED
  BY <1>7, <1>8, <1>9, <1>10, <1>11 DEF OdbcInv

LEMMA StepSetsConnected == ASSUME OdbcInv, SetsConnected PROVE OdbcInv'
<1>1. OdbcTypeOK /\ Ordered /\ FlagInv /\ HandlesInv /\ TextInv
  BY DEF OdbcInv
<1>2. /\ At("connected") /\ todo # <<>> /\ Head(todo) = "connected" /\ Then(<<>>)
      /\ bIsConnected' = result
      /\ UNCHANGED <<m_henv, m_hdbc, m_hstmt, m_retcode, m_siParamNo, m_pszQuery, result,
                     stage, asked, hungUp>>
  BY DEF SetsConnected, At, handleVars, textVars, callerVars
<1>3. /\ Ordered'
      /\ Has(todo', "BeginSP") <=> Has(todo, "BeginSP")
      /\ Has(todo', "SetQuery") <=> Has(todo, "SetQuery")
      /\ Has(todo', "ended") <=> Has(todo, "ended")
      /\ \A x \in Reading : Has(todo', x) => Has(todo, x)
      /\ ~ At("connected")'
  BY <1>1, <1>2, MoreAdded, ThenFacts
<1>4. OdbcTypeOK'
  BY <1>1, <1>2 DEF OdbcTypeOK
<1>5. FlagInv'
  BY <1>1, <1>2, <1>3 DEF FlagInv
<1>6. ~ At("ConnectProcess") /\ ~ At("AllocatesStatement")
  BY <1>2 DEF At
<1>7. HandlesInv'
  BY <1>1, <1>2, <1>6 DEF HandlesInv
<1>8. TextInv'
  BY <1>1, <1>2, <1>3, SameText DEF callerVars
<1> QED
  BY <1>3, <1>4, <1>5, <1>7, <1>8 DEF OdbcInv

LEMMA StepFreesStatement == ASSUME OdbcInv, FreesStatement PROVE OdbcInv'
<1>1. OdbcTypeOK /\ Ordered /\ FlagInv /\ HandlesInv /\ TextInv
  BY DEF OdbcInv
<1>2. /\ todo # <<>> /\ Head(todo) = "FreesStatement"
      /\ UNCHANGED <<m_henv, m_hdbc, bIsConnected, m_siParamNo, m_pszQuery, result,
                     stage, asked, hungUp>>
  BY DEF FreesStatement, At, textVars, callerVars
<1>3. m_hstmt' \in {"null", "live", "freed"} /\ m_retcode' \in {"success", "noData", "error"}
  BY <1>1 DEF FreesStatement, OdbcTypeOK
<1>4. \/ Then(<<>>) /\ m_hstmt' \in {"null"} /\ m_hstmt' = m_hstmt
      \/ Then(<<>>) /\ m_hstmt = "live" /\ m_hstmt' = "freed"
      \/ CheckError(m_henv, <<>>) /\ m_hstmt' = m_hstmt
  BY DEF FreesStatement
<1>5. PICK steps \in {<<>>, <<"false">>, <<"Reconnect">>, <<"Reconnect", "false">>} :
         /\ Then(steps)
         /\ \/ m_hstmt' = m_hstmt
            \/ steps = <<>> /\ m_hstmt = "live" /\ m_hstmt' = "freed"
  BY <1>4, CheckErrorThen
<1>6. /\ Ordered'
      /\ Has(todo', "BeginSP") <=> Has(todo, "BeginSP")
      /\ Has(todo', "SetQuery") <=> Has(todo, "SetQuery")
      /\ Has(todo', "ended") <=> Has(todo, "ended")
      /\ \A x \in Reading : Has(todo', x) => Has(todo, x)
      /\ Has(todo, "connected") => Has(todo', "connected")
      /\ ~ At("connected")'
      /\ steps = <<>> => At("AllocatesStatement")'
  BY <1>1, <1>2, <1>5, MoreAdded, ThenFacts
<1>7. OdbcTypeOK'
  BY <1>1, <1>2, <1>3 DEF OdbcTypeOK
<1>8. FlagInv'
  BY <1>1, <1>2, <1>6 DEF FlagInv
<1>9. ~ At("ConnectProcess") /\ ~ At("AllocatesStatement")
  BY <1>2 DEF At
<1>10. HandlesInv'
  BY <1>1, <1>2, <1>5, <1>6, <1>9 DEF HandlesInv
<1>11. TextInv'
  BY <1>1, <1>2, <1>5, <1>6, SameText DEF callerVars
<1> QED
  BY <1>6, <1>7, <1>8, <1>10, <1>11 DEF OdbcInv

LEMMA StepAllocatesStatement == ASSUME OdbcInv, AllocatesStatement PROVE OdbcInv'
<1>1. OdbcTypeOK /\ Ordered /\ FlagInv /\ HandlesInv /\ TextInv
  BY DEF OdbcInv
<1>2. /\ todo # <<>> /\ Head(todo) = "AllocatesStatement"
      /\ UNCHANGED <<m_henv, m_hdbc, bIsConnected, m_siParamNo, m_pszQuery, result,
                     stage, asked, hungUp>>
  BY DEF AllocatesStatement, At, textVars, callerVars
<1>3. m_hstmt' \in {"null", "live", "freed"} /\ m_retcode' \in {"success", "noData", "error"}
  BY <1>1 DEF AllocatesStatement, OdbcTypeOK
<1>4. \/ Then(<<>>) /\ m_hdbc = "connected" /\ m_hstmt' = "live"
      \/ /\ CheckError(m_henv, <<>>)
         /\ m_hstmt' = IF m_hdbc \in {"null", "freed"} THEN m_hstmt ELSE "null"
  BY DEF AllocatesStatement
<1>5. PICK steps \in {<<>>, <<"false">>, <<"Reconnect">>, <<"Reconnect", "false">>} :
         /\ Then(steps)
         /\ \/ m_hdbc = "connected" /\ m_hstmt' = "live"
            \/ m_hstmt' = IF m_hdbc \in {"null", "freed"} THEN m_hstmt ELSE "null"
  BY <1>4, CheckErrorThen
<1>6. /\ Ordered'
      /\ Has(todo', "BeginSP") <=> Has(todo, "BeginSP")
      /\ Has(todo', "SetQuery") <=> Has(todo, "SetQuery")
      /\ Has(todo', "ended") <=> Has(todo, "ended")
      /\ \A x \in Reading : Has(todo', x) => Has(todo, x)
      /\ Has(todo, "connected") => Has(todo', "connected")
      /\ ~ At("connected")'
      /\ Has(todo', "BeginSP") \/ Has(todo', "SetQuery")
  BY <1>1, <1>2, <1>5, MoreAdded, ThenFacts
<1>7. OdbcTypeOK'
  BY <1>1, <1>2, <1>3 DEF OdbcTypeOK
<1>8. FlagInv'
  BY <1>1, <1>2, <1>6 DEF FlagInv
<1>9. ~ At("ConnectProcess")
  BY <1>2 DEF At
<1>10. HandlesInv'
  BY <1>1, <1>2, <1>3, <1>5, <1>9 DEF HandlesInv
<1>11. TextInv'
  BY <1>1, <1>2, <1>6, SameText DEF callerVars
<1> QED
  BY <1>6, <1>7, <1>8, <1>10, <1>11 DEF OdbcInv

LEMMA OnePiece == ASSUME NEW piece \in QueryPieces
                  PROVE  <<piece>> \in Seq(QueryPieces) /\ Len(<<piece>>) = 1
OBVIOUS

LEMMA StepBeginsText == ASSUME OdbcInv, BeginsText PROVE OdbcInv'
<1>1. OdbcTypeOK /\ Ordered /\ FlagInv /\ HandlesInv /\ TextInv
  BY DEF OdbcInv
<1>2. /\ At("BeginSP") /\ todo # <<>> /\ Head(todo) = "BeginSP" /\ Then(<<>>)
      /\ m_siParamNo' = 0 /\ m_pszQuery' = <<"{call">>
      /\ UNCHANGED <<m_henv, m_hdbc, m_hstmt, m_retcode, bIsConnected, result, stage, asked, hungUp>>
  BY DEF BeginsText, At, handleVars, callerVars
<1>3. /\ Ordered'
      /\ Has(todo', "SetQuery") <=> Has(todo, "SetQuery")
      /\ Has(todo', "ended") <=> Has(todo, "ended")
      /\ \A x \in Reading : Has(todo', x) => Has(todo, x)
      /\ Has(todo, "connected") => Has(todo', "connected")
      /\ ~ At("connected")'
  BY <1>1, <1>2, MoreAdded, ThenFacts
<1>4. stage = "building" /\ asked = 0
  BY <1>1, <1>2, HeadPending DEF TextInv
<1>5. Len(m_pszQuery)' = 1 /\ m_pszQuery' \in Seq(QueryPieces)
  <2>1. <<"{call">> \in Seq(QueryPieces) /\ Len(<<"{call">>) = 1
    <3>1. "{call" \in QueryPieces
      BY DEF QueryPieces
    <3> QED
      BY <3>1, OnePiece
  <2> QED
    BY <1>2, <2>1
<1>6. OdbcTypeOK'
  <2>1. Len(m_pszQuery)' <= MaxParams + 2 /\ 0 \in 0 .. MaxParams + 1
    BY <1>5, OdbcAssumption
  <2> QED
    BY <1>1, <1>2, <2>1 DEF OdbcTypeOK
<1>7. FlagInv'
  BY <1>1, <1>2, <1>3 DEF FlagInv
<1>8. ~ At("ConnectProcess") /\ ~ At("AllocatesStatement")
  BY <1>2 DEF At
<1>9. HandlesInv'
  BY <1>1, <1>2, <1>8 DEF HandlesInv
<1>10. CallText' = <<"{call">>
  <2>1. asked' = 0
    BY <1>2, <1>4
  <2> QED
    BY <2>1, CallTextGrows DEF CallText
<1>11. TextInv'
  <2>1. m_siParamNo' <= asked' /\ Len(m_pszQuery)' <= asked' + 1 /\ m_siParamNo' = asked'
    <3>1. m_siParamNo' = 0 /\ asked' = 0
      BY <1>2, <1>4
    <3> QED
      BY <1>5, <3>1
  <2>2. m_pszQuery' = CallText'
    BY <1>2, <1>10
  <2>3. /\ stage' = "building" /\ asked' = 0 /\ m_pszQuery' \in Seq(QueryPieces)
        /\ ~ Has(todo', "SetQuery") /\ \A x \in Reading : ~ Has(todo', x)
    BY <1>1, <1>2, <1>3, <1>4, <1>5 DEF TextInv
  <2> QED
    BY <2>1, <2>2, <2>3 DEF TextInv
<1> QED
  BY <1>3, <1>6, <1>7, <1>9, <1>11 DEF OdbcInv

LEMMA StepCopiesQuery == ASSUME OdbcInv, CopiesQuery PROVE OdbcInv'
<1>1. OdbcTypeOK /\ Ordered /\ FlagInv /\ HandlesInv /\ TextInv
  BY DEF OdbcInv
<1>2. /\ At("SetQuery") /\ todo # <<>> /\ Head(todo) = "SetQuery"
      /\ UNCHANGED <<m_henv, m_hdbc, m_hstmt, m_retcode, bIsConnected, m_siParamNo, result,
                     stage, asked, hungUp>>
      /\ m_pszQuery' \in {<<"query">>, <<>>}
  BY DEF CopiesQuery, At, handleVars, callerVars
<1>3. stage = "ended" /\ asked = 0
  BY <1>1, <1>2, HeadPending DEF TextInv
<1>4. Len(m_pszQuery)' \in {0, 1} /\ m_pszQuery' \in Seq(QueryPieces)
  <2>1. <<"query">> \in Seq(QueryPieces) /\ Len(<<"query">>) = 1
    <3>1. "query" \in QueryPieces
      BY DEF QueryPieces
    <3> QED
      BY <3>1, OnePiece
  <2>2. <<>> \in Seq(QueryPieces) /\ Len(<<>>) = 0
    OBVIOUS
  <2> QED
    BY <1>2, <2>1, <2>2
<1>5. OdbcTypeOK'
  <2>1. Len(m_pszQuery)' <= MaxParams + 2
    BY <1>4, OdbcAssumption
  <2> QED
    BY <1>1, <1>2, <2>1 DEF OdbcTypeOK
<1>6. ~ At("ConnectProcess") /\ ~ At("AllocatesStatement")
  BY <1>2 DEF At
<1>7. HandlesInv'
  BY <1>1, <1>2, <1>6 DEF HandlesInv
<1>8. CASE Then(<<>>) /\ m_pszQuery' = <<"query">>
  <2>1. /\ Ordered'
        /\ Has(todo', "BeginSP") <=> Has(todo, "BeginSP")
        /\ \A x \in Reading : Has(todo', x) => Has(todo, x)
        /\ Has(todo, "connected") => Has(todo', "connected")
        /\ ~ At("connected")'
    BY <1>1, <1>2, <1>8, MoreAdded, ThenFacts
  <2>2. FlagInv'
    BY <1>1, <1>2, <2>1 DEF FlagInv
  <2>3. TextInv'
    BY <1>1, <1>2, <1>3, <1>4, <1>8, <2>1 DEF TextInv, Reading
  <2> QED
    BY <1>5, <1>7, <2>1, <2>2, <2>3 DEF OdbcInv
<1>9. CASE todo' = <<"ended">>
  <2>1. Len(todo') = 1 /\ todo'[1] = "ended" /\ todo' \in Seq(OdbcSteps) /\ 1 \in 1 .. 1
    BY <1>9 DEF OdbcSteps
  <2>2. \A i \in 1 .. Len(todo') : todo'[i] = "ended"
    BY <2>1
  <2>3. Ordered'
    BY <2>1, <2>2 DEF Ordered, Pairs
  <2>4. Has(todo', "ended")
    BY <2>1 DEF Has
  <2>5. \A x : x # "ended" => ~ Has(todo', x)
    BY <2>2 DEF Has
  <2>6. ~ At("connected") /\ ~ At("connected")'
    BY <1>2, <2>1 DEF At
  <2>7. bIsConnected /\ ~ hungUp => m_hdbc = "connected"
    <3>1. Len(todo) \in Nat \ {0} /\ todo[1] = "SetQuery" /\ 1 \in 1 .. Len(todo)
      BY <1>1, <1>2 DEF Ordered
    <3>2. Len(todo) = 1
      BY <1>1, <3>1 DEF Ordered, Pairs
    <3>3. \A i \in 1 .. 1 : i = 1
      OBVIOUS
    <3>4. ~ Has(todo, "connected")
      BY <3>1, <3>2, <3>3 DEF Has
    <3> QED
      BY <1>1, <3>4 DEF FlagInv
  <2>8. FlagInv'
    BY <1>2, <2>6, <2>7 DEF FlagInv
  <2>9. TextInv'
    BY <1>1, <1>2, <1>3, <1>4, <2>4, <2>5 DEF TextInv, Reading
  <2> QED
    BY <1>5, <1>7, <2>3, <2>8, <2>9 DEF OdbcInv
<1> QED
  BY <1>8, <1>9 DEF CopiesQuery

LEMMA StepDisconnect == ASSUME OdbcInv, Disconnect PROVE OdbcInv'
<1>1. OdbcTypeOK /\ Ordered /\ FlagInv /\ HandlesInv /\ TextInv
  BY DEF OdbcInv
<1>2. /\ todo = <<>> /\ todo' = <<>> /\ hungUp' = TRUE /\ stage' = "none"
      /\ UNCHANGED <<m_henv, bIsConnected, m_siParamNo, m_pszQuery, result, asked>>
  BY DEF Disconnect, Idle, textVars
<1>3. /\ m_hstmt' \in {"null", "freed"} /\ m_retcode' \in {"success", "error"}
      /\ m_hdbc' \in {"allocated", m_hdbc}
  BY <1>1 DEF Disconnect, DisconnectHandles, OdbcTypeOK
<1>4. ~ At("connected")' /\ (\A x : ~ Has(todo', x)) /\ Ordered'
  BY <1>2 DEF At, Has, Ordered, Pairs
<1>5. OdbcTypeOK'
  BY <1>1, <1>2, <1>3 DEF OdbcTypeOK
<1>6. FlagInv'
  BY <1>2, <1>4 DEF FlagInv
<1>7. HandlesInv'
  BY <1>2, <1>3 DEF HandlesInv
<1>8. TextInv'
  BY <1>1, <1>2, <1>3, <1>4 DEF TextInv
<1> QED
  BY <1>4, <1>5, <1>6, <1>7, <1>8 DEF OdbcInv

Started == {<<"ConnectProcess", "connected">>,
            <<"FreesStatement", "AllocatesStatement", "BeginSP">>,
            <<"Reconnect", "FreesStatement", "AllocatesStatement", "BeginSP">>,
            <<"FreesStatement", "AllocatesStatement", "SetQuery">>,
            <<"Binds">>, <<"Executes">>, <<"FetchData">>, <<"NextRecordSet">>,
            <<"GetData">>, <<"GetDataOfType">>, <<"FetchData", "GetsResult">>}

LEMMA StartedSteps ==
  ASSUME NEW steps \in Started
  PROVE  /\ steps \in Seq(OdbcSteps) /\ Pairs(steps)
         /\ steps # <<>> /\ Head(steps) # "connected" /\ ~ Has(steps, "ended")
         /\ Has(steps, "BeginSP") => steps[Len(steps)] = "BeginSP"
         /\ Has(steps, "SetQuery") => steps[Len(steps)] = "SetQuery"
         /\ steps \in {<<"Binds">>, <<"Executes">>} =>
              \A x \in {"BeginSP", "SetQuery"} \cup Reading : ~ Has(steps, x)
         /\ \A x \in Reading : Has(steps, x) =>
              steps \in {<<"FetchData">>, <<"GetData">>, <<"FetchData", "GetsResult">>}
<1> DEFINE Good(q) ==
         /\ q \in Seq(OdbcSteps) /\ Pairs(q)
         /\ q # <<>> /\ Head(q) # "connected" /\ ~ Has(q, "ended")
         /\ Has(q, "BeginSP") => q[Len(q)] = "BeginSP"
         /\ Has(q, "SetQuery") => q[Len(q)] = "SetQuery"
         /\ q \in {<<"Binds">>, <<"Executes">>} =>
              \A x \in {"BeginSP", "SetQuery"} \cup Reading : ~ Has(q, x)
         /\ \A x \in Reading : Has(q, x) =>
              q \in {<<"FetchData">>, <<"GetData">>, <<"FetchData", "GetsResult">>}
<1>1. Good(<<"ConnectProcess", "connected">>)
  BY DEF OdbcSteps, Pairs, Has, Reading
<1>2. Good(<<"FreesStatement", "AllocatesStatement", "BeginSP">>)
  BY DEF OdbcSteps, Pairs, Has, Reading
<1>3. Good(<<"Reconnect", "FreesStatement", "AllocatesStatement", "BeginSP">>)
  BY DEF OdbcSteps, Pairs, Has, Reading
<1>4. Good(<<"FreesStatement", "AllocatesStatement", "SetQuery">>)
  BY DEF OdbcSteps, Pairs, Has, Reading
<1>5. Good(<<"Binds">>) /\ Good(<<"Executes">>)
  BY DEF OdbcSteps, Pairs, Has, Reading
<1>6. Good(<<"FetchData">>) /\ Good(<<"NextRecordSet">>)
  BY DEF OdbcSteps, Pairs, Has, Reading
<1>7. Good(<<"GetData">>) /\ Good(<<"GetDataOfType">>)
  BY DEF OdbcSteps, Pairs, Has, Reading
<1>8. Good(<<"FetchData", "GetsResult">>)
  BY DEF OdbcSteps, Pairs, Has, Reading
<1> HIDE DEF Good
<1>9. Good(steps)
  BY <1>1, <1>2, <1>3, <1>4, <1>5, <1>6, <1>7, <1>8 DEF Started
<1> QED
  BY <1>9 DEF Good

(* A call begins: nothing was pending, the handles stay as they are.          *)
LEMMA StartKeeps ==
  ASSUME OdbcInv, Idle, NEW steps \in Started, todo' = steps,
         UNCHANGED <<handleVars, m_retcode, bIsConnected, result, hungUp>>
  PROVE  /\ Ordered' /\ FlagInv' /\ HandlesInv'
         /\ ~ Has(todo', "ended")
<1>1. OdbcTypeOK /\ FlagInv /\ HandlesInv
  BY DEF OdbcInv
<1>2. (\A x : ~ Has(todo, x)) /\ \A x : ~ At(x)
  BY IdleNothingPending
<1>3. UNCHANGED <<m_henv, m_hdbc, m_hstmt, bIsConnected, result, hungUp>>
  BY DEF handleVars
<1>4. Ordered' /\ ~ Has(todo', "ended") /\ ~ At("connected")'
  BY StartedSteps DEF Ordered, At
<1>5. FlagInv'
  BY <1>1, <1>2, <1>3, <1>4 DEF FlagInv
<1>6. HandlesInv'
  BY <1>1, <1>2, <1>3 DEF HandlesInv
<1> QED
  BY <1>4, <1>5, <1>6

LEMMA StepStartsQuietly ==
  ASSUME OdbcInv, SetNumberedParam \/ ExecSQL \/ Reads
  PROVE  OdbcInv'
<1>1. OdbcTypeOK /\ Ordered /\ FlagInv /\ HandlesInv /\ TextInv
  BY DEF OdbcInv
<1>2. /\ Idle /\ stage \in {"ended", "executed"} /\ stage' \in {"ended", "executed"}
      /\ UNCHANGED <<handleVars, m_retcode, bIsConnected, m_siParamNo, m_pszQuery, result,
                     asked, hungUp>>
  BY DEF SetNumberedParam, ExecSQL, Reads, Asks, Start, Idle, textVars, callerVars
<1>3. PICK steps \in {<<"Binds">>, <<"Executes">>, <<"FetchData">>, <<"NextRecordSet">>,
                      <<"GetData">>, <<"GetDataOfType">>, <<"FetchData", "GetsResult">>} :
         /\ todo' = steps
         /\ steps \in {<<"Binds">>, <<"Executes">>} \/ stage' = "executed"
  <2>1. SetNumberedParam => todo' = <<"Binds">>
    BY DEF SetNumberedParam, Start
  <2>2. ExecSQL => todo' = <<"Executes">>
    BY DEF ExecSQL, Asks, Start
  <2>3. Reads => /\ stage' = "executed"
                 /\ todo' \in {<<"FetchData">>, <<"NextRecordSet">>, <<"GetData">>,
                               <<"GetDataOfType">>, <<"FetchData", "GetsResult">>}
    BY DEF Reads, Asks, Start
  <2> QED
    BY <2>1, <2>2, <2>3
<1>4. steps \in Started
  BY DEF Started
<1>5. Ordered' /\ FlagInv' /\ HandlesInv' /\ ~ Has(todo', "ended")
  BY <1>2, <1>3, <1>4, StartKeeps
<1>6. \A x : ~ Has(todo, x)
  BY <1>2, IdleNothingPending
<1>7. ~ Has(todo', "BeginSP") /\ ~ Has(todo', "SetQuery")
  BY <1>3 DEF Has
<1>8. \A x \in Reading : Has(todo', x) => stage' = "executed"
  BY <1>3, <1>4, StartedSteps
<1>9. OdbcTypeOK'
  BY <1>1, <1>2 DEF OdbcTypeOK, handleVars
<1>10. TextInv'
  <2>1. UNCHANGED <<m_hstmt, m_pszQuery, asked, CallText>>
    BY <1>2 DEF handleVars, CallText
  <2>2. m_hstmt = "live" =>
          m_pszQuery \in {<<"query">>, CallText \o <<IF asked = 0 THEN "}" ELSE ")}">>}
    BY <1>1, <1>2, <1>6 DEF TextInv
  <2>3. m_pszQuery \in Seq(QueryPieces)
    BY <1>1 DEF TextInv
  <2> QED
    BY <1>2, <1>5, <1>7, <1>8, <2>1, <2>2, <2>3 DEF TextInv
<1> QED
  BY <1>5, <1>9, <1>10 DEF OdbcInv

LEMMA StepConnect == ASSUME OdbcInv, Connect PROVE OdbcInv'
<1>1. OdbcTypeOK /\ Ordered /\ FlagInv /\ HandlesInv /\ TextInv
  BY DEF OdbcInv
<1>2. /\ Idle /\ todo' = <<"ConnectProcess", "connected">> /\ stage' = "none"
      /\ UNCHANGED <<handleVars, m_retcode, bIsConnected, m_siParamNo, m_pszQuery, result,
                     asked, hungUp>>
  BY DEF Connect, Start, Idle, textVars
<1>3. <<"ConnectProcess", "connected">> \in Started
  BY DEF Started
<1>4. Ordered' /\ FlagInv' /\ HandlesInv' /\ ~ Has(todo', "ended")
  BY <1>2, <1>3, StartKeeps
<1>5. /\ ~ Has(todo', "BeginSP") /\ ~ Has(todo', "SetQuery")
      /\ \A x \in Reading : ~ Has(todo', x)
  BY <1>2 DEF Has, Reading
<1>6. OdbcTypeOK'
  BY <1>1, <1>2 DEF OdbcTypeOK, handleVars
<1>7. m_pszQuery' \in Seq(QueryPieces)
  BY <1>1, <1>2 DEF TextInv
<1>8. TextInv'
  BY <1>2, <1>5, <1>7 DEF TextInv
<1> QED
  BY <1>4, <1>6, <1>8 DEF OdbcInv

(* What the calls that prepare a statement leave to do.                       *)
LEMMA PrepareSteps ==
  /\ \A last \in OdbcSteps :
       <<"FreesStatement", "AllocatesStatement">> \o <<last>>
         = <<"FreesStatement", "AllocatesStatement", last>>
  /\ <<>> \o <<"FreesStatement", "AllocatesStatement">> \o <<"BeginSP">>
       = <<"FreesStatement", "AllocatesStatement", "BeginSP">>
  /\ <<"Reconnect">> \o <<"FreesStatement", "AllocatesStatement">> \o <<"BeginSP">>
       = <<"Reconnect", "FreesStatement", "AllocatesStatement", "BeginSP">>
<1> DEFINE fa == <<"FreesStatement", "AllocatesStatement">>
           rfa == <<"Reconnect", "FreesStatement", "AllocatesStatement">>
           rfab == <<"Reconnect", "FreesStatement", "AllocatesStatement", "BeginSP">>
           r == <<"Reconnect">>
<1>1. /\ fa \in Seq(OdbcSteps) /\ Len(fa) = 2
      /\ fa[1] = "FreesStatement" /\ fa[2] = "AllocatesStatement"
  BY DEF OdbcSteps
<1>2. /\ rfa \in Seq(OdbcSteps) /\ Len(rfa) = 3 /\ rfa[1] = "Reconnect"
      /\ rfa[2] = "FreesStatement" /\ rfa[3] = "AllocatesStatement"
  BY DEF OdbcSteps
<1>3. /\ rfab \in Seq(OdbcSteps) /\ Len(rfab) = 4 /\ rfab[1] = "Reconnect"
      /\ rfab[2] = "FreesStatement" /\ rfab[3] = "AllocatesStatement" /\ rfab[4] = "BeginSP"
  BY DEF OdbcSteps
<1>4. r \in Seq(OdbcSteps) /\ Len(r) = 1 /\ r[1] = "Reconnect"
  BY DEF OdbcSteps
<1>5. ASSUME NEW last \in OdbcSteps
      PROVE  fa \o <<last>> = <<"FreesStatement", "AllocatesStatement", last>>
  <2> DEFINE a == fa \o <<last>>  b == <<"FreesStatement", "AllocatesStatement", last>>
             z == <<last>>
  <2>1. z \in Seq(OdbcSteps) /\ Len(z) = 1 /\ z[1] = last
    OBVIOUS
  <2>2. b \in Seq(OdbcSteps) /\ Len(b) = 3
        /\ b[1] = "FreesStatement" /\ b[2] = "AllocatesStatement" /\ b[3] = last
    BY DEF OdbcSteps
  <2>3. a \in Seq(OdbcSteps) /\ Len(a) = 3 /\ a[1] = fa[1] /\ a[2] = fa[2] /\ a[3] = z[1]
    <3> HIDE DEF fa, z
    <3>1. fa \o z \in Seq(OdbcSteps) /\ Len(fa \o z) = Len(fa) + Len(z)
          /\ \A i \in 1 .. Len(fa) + Len(z) :
               (fa \o z)[i] = IF i <= Len(fa) THEN fa[i] ELSE z[i - Len(fa)]
      BY <1>1, <2>1, ConcatProperties
    <3>2. a = fa \o z
      BY DEF z
    <3> HIDE DEF a
    <3> QED
      BY <1>1, <2>1, <3>1, <3>2
  <2>4. \A i \in 1 .. 3 : i = 1 \/ i = 2 \/ i = 3
    OBVIOUS
  <2> HIDE DEF a, b, z, fa
  <2>5. \A i \in 1 .. Len(a) : a[i] = b[i]
    BY <1>1, <2>1, <2>2, <2>3, <2>4
  <2>6. a = b
    BY <2>2, <2>3, <2>5, SeqEqual
  <2> QED
    BY <2>6 DEF a, b
<1>6. r \o fa = rfa
  <2> HIDE DEF r, fa, rfa
  <2>1. r \o fa \in Seq(OdbcSteps) /\ Len(r \o fa) = Len(r) + Len(fa)
        /\ \A i \in 1 .. Len(r) + Len(fa) :
             (r \o fa)[i] = IF i <= Len(r) THEN r[i] ELSE fa[i - Len(r)]
    BY <1>1, <1>4, ConcatProperties
  <2>2. Len(r \o fa) = 3 /\ (r \o fa)[1] = r[1] /\ (r \o fa)[2] = fa[1] /\ (r \o fa)[3] = fa[2]
    BY <1>1, <1>4, <2>1
  <2>3. \A i \in 1 .. 3 : i = 1 \/ i = 2 \/ i = 3
    OBVIOUS
  <2>4. \A i \in 1 .. Len(rfa) : (r \o fa)[i] = rfa[i]
    BY <1>1, <1>2, <1>4, <2>2, <2>3
  <2> QED
    BY <1>2, <2>1, <2>2, <2>4, SeqEqual
<1>7. rfa \o <<"BeginSP">> = rfab
  <2> DEFINE z == <<"BeginSP">>
  <2>1. z \in Seq(OdbcSteps) /\ Len(z) = 1 /\ z[1] = "BeginSP"
    BY DEF OdbcSteps
  <2> HIDE DEF rfa, rfab, z
  <2>2. rfa \o z \in Seq(OdbcSteps) /\ Len(rfa \o z) = Len(rfa) + Len(z)
        /\ \A i \in 1 .. Len(rfa) + Len(z) :
             (rfa \o z)[i] = IF i <= Len(rfa) THEN rfa[i] ELSE z[i - Len(rfa)]
    BY <1>2, <2>1, ConcatProperties
  <2>3. /\ Len(rfa \o z) = 4 /\ (rfa \o z)[1] = rfa[1] /\ (rfa \o z)[2] = rfa[2]
        /\ (rfa \o z)[3] = rfa[3] /\ (rfa \o z)[4] = z[1]
    BY <1>2, <2>1, <2>2
  <2>4. \A i \in 1 .. 4 : i = 1 \/ i = 2 \/ i = 3 \/ i = 4
    OBVIOUS
  <2>5. \A i \in 1 .. Len(rfab) : (rfa \o z)[i] = rfab[i]
    BY <1>2, <1>3, <2>1, <2>3, <2>4
  <2>6. rfa \o z = rfab
    BY <1>3, <2>2, <2>3, <2>5, SeqEqual
  <2> QED
    BY <2>6 DEF z
<1>8. <<>> \o fa = fa
  <2> HIDE DEF fa
  <2> QED
    BY <1>1, ConcatEmptySeq
<1>9. "BeginSP" \in OdbcSteps
  BY DEF OdbcSteps
<1> QED
  BY <1>5, <1>6, <1>7, <1>8, <1>9

LEMMA StepBegins ==
  ASSUME OdbcInv, BeginSP \/ SetQuery
  PROVE  OdbcInv'
<1>1. OdbcTypeOK /\ Ordered /\ FlagInv /\ HandlesInv /\ TextInv
  BY DEF OdbcInv
<1>2. /\ Idle /\ asked' = 0 /\ stage' \in {"building", "ended"}
      /\ UNCHANGED <<handleVars, m_retcode, bIsConnected, m_siParamNo, m_pszQuery, result, hungUp>>
  BY DEF BeginSP, SetQuery, Start, Idle, textVars
<1>4. \/ /\ stage' = "building"
         /\ \E p \in {<<>>, <<"Reconnect">>} :
              todo' = p \o <<"FreesStatement", "AllocatesStatement">> \o <<"BeginSP">>
      \/ /\ stage' = "ended"
         /\ todo' = <<"FreesStatement", "AllocatesStatement">> \o <<"SetQuery">>
  <2>1. BeginSP => /\ stage' = "building"
                   /\ \E p \in {<<>>, <<"Reconnect">>} :
                        todo' = p \o <<"FreesStatement", "AllocatesStatement">> \o <<"BeginSP">>
    <3>1. ASSUME BeginSP, NEW p \in {<<>>, <<"Reconnect">>},
                 p = IF bIsConnected THEN <<>> ELSE <<"Reconnect">>
          PROVE  stage' = "building"
                 /\ todo' = p \o <<"FreesStatement", "AllocatesStatement">> \o <<"BeginSP">>
      BY <3>1 DEF BeginSP, Start, Prepare
    <3> QED
      BY <3>1
  <2>2. SetQuery => /\ stage' = "ended"
                    /\ todo' = <<"FreesStatement", "AllocatesStatement">> \o <<"SetQuery">>
    BY DEF SetQuery, Start, Prepare
  <2> QED
    BY <2>1, <2>2
<1>5. PICK steps \in Started :
         /\ todo' = steps
         /\ \/ /\ stage' = "building"
               /\ steps \in {<<"FreesStatement", "AllocatesStatement", "BeginSP">>,
                  <<"Reconnect", "FreesStatement", "AllocatesStatement", "BeginSP">>}
            \/ /\ stage' = "ended"
               /\ steps = <<"FreesStatement", "AllocatesStatement", "SetQuery">>
  BY <1>4, PrepareSteps DEF Started
<1>6. Ordered' /\ FlagInv' /\ HandlesInv' /\ ~ Has(todo', "ended")
  BY <1>2, <1>5, StartKeeps
<1>7. /\ stage' = "building" => Has(todo', "BeginSP") /\ ~ Has(todo', "SetQuery")
      /\ stage' = "ended" => Has(todo', "SetQuery") /\ ~ Has(todo', "BeginSP")
      /\ \A x \in Reading : ~ Has(todo', x)
  <2>1. CASE steps = <<"FreesStatement", "AllocatesStatement", "BeginSP">>
    BY <1>5, <2>1 DEF Has, Reading
  <2>2. CASE steps = <<"Reconnect", "FreesStatement", "AllocatesStatement", "BeginSP">>
    BY <1>5, <2>2 DEF Has, Reading
  <2>3. CASE steps = <<"FreesStatement", "AllocatesStatement", "SetQuery">>
    BY <1>5, <2>3 DEF Has, Reading
  <2> QED
    BY <1>5, <2>1, <2>2, <2>3
<1>8. OdbcTypeOK'
  BY <1>1, <1>2, OdbcAssumption DEF OdbcTypeOK, handleVars
<1>9. m_pszQuery' \in Seq(QueryPieces)
  BY <1>1, <1>2 DEF TextInv
<1>10. TextInv'
  BY <1>2, <1>7, <1>9 DEF TextInv
<1> QED
  BY <1>6, <1>8, <1>10 DEF OdbcInv

LEMMA StepSetParam == ASSUME OdbcInv, SetParam PROVE OdbcInv'
<1>1. OdbcTypeOK /\ Ordered /\ FlagInv /\ HandlesInv /\ TextInv
  BY DEF OdbcInv
<1> DEFINE mark == IF m_siParamNo = 0 THEN "( ?" ELSE ", ?"
<1>2. /\ Idle /\ todo' = <<"Binds">> /\ stage = "building" /\ stage' = "building"
      /\ asked < MaxParams /\ asked' = asked + 1 /\ m_siParamNo' = m_siParamNo + 1
      /\ m_pszQuery' = Append(m_pszQuery, mark)
      /\ UNCHANGED <<handleVars, m_retcode, bIsConnected, result, hungUp>>
  BY DEF SetParam, Start, Idle
<1>3. <<"Binds">> \in Started
  BY DEF Started
<1>4. Ordered' /\ FlagInv' /\ HandlesInv' /\ ~ Has(todo', "ended")
  BY <1>2, <1>3, StartKeeps
<1>5. /\ ~ Has(todo', "BeginSP") /\ ~ Has(todo', "SetQuery")
      /\ \A x \in Reading : ~ Has(todo', x)
  BY <1>2, <1>3, StartedSteps
<1>6. \A x : ~ Has(todo, x)
  BY <1>2, IdleNothingPending
<1>7. /\ asked \in Nat /\ MaxParams \in Nat /\ m_siParamNo \in Nat /\ m_siParamNo <= asked
      /\ m_pszQuery \in Seq(QueryPieces) /\ Len(m_pszQuery) \in Nat
      /\ Len(m_pszQuery) <= asked + 1
  <2>1. asked \in Nat /\ MaxParams \in Nat /\ m_siParamNo \in Nat
    BY <1>1, OdbcAssumption DEF OdbcTypeOK
  <2>2. /\ m_siParamNo <= asked /\ Len(m_pszQuery) <= asked + 1
        /\ m_pszQuery \in Seq(QueryPieces)
    BY <1>1, <1>2, <1>6 DEF TextInv
  <2> QED
    BY <2>1, <2>2
<1>8. mark \in QueryPieces
  BY DEF QueryPieces
<1>9. m_pszQuery' \in Seq(QueryPieces) /\ Len(m_pszQuery') = Len(m_pszQuery) + 1
  <2> HIDE DEF mark
  <2> QED
    BY <1>2, <1>7, <1>8, AppendProperties
<1>10. OdbcTypeOK'
  <2>1. /\ m_siParamNo' \in 0 .. MaxParams + 1 /\ asked' \in 0 .. MaxParams
        /\ Len(m_pszQuery)' <= MaxParams + 2
    <3>1. /\ m_siParamNo' = m_siParamNo + 1 /\ asked' = asked + 1 /\ asked < MaxParams
          /\ Len(m_pszQuery)' = Len(m_pszQuery) + 1
      BY <1>2, <1>9
    <3> QED
      BY <1>7, <3>1
  <2> QED
    BY <1>1, <1>2, <2>1 DEF OdbcTypeOK, handleVars
<1>11. m_hstmt' = "live" => m_siParamNo' = asked' /\ m_pszQuery' = CallText'
  <2> SUFFICES ASSUME m_hstmt = "live" PROVE m_siParamNo' = asked' /\ m_pszQuery' = CallText'
    BY <1>2 DEF handleVars
  <2>1. m_siParamNo = asked /\ m_pszQuery = CallText
    BY <1>1, <1>2, <1>6 DEF TextInv
  <2>2. CallText' = <<"{call">> \o Marks(asked + 1)
    BY <1>2 DEF CallText
  <2>3. CallText' = Append(CallText, IF asked = 0 THEN "( ?" ELSE ", ?")
    BY <1>7, <2>2, CallTextGrows DEF CallText
  <2> QED
    BY <1>2, <2>1, <2>3
<1>12. TextInv'
  <2>1. m_siParamNo' <= asked' /\ Len(m_pszQuery)' <= asked' + 1
    <3>1. /\ m_siParamNo' = m_siParamNo + 1 /\ asked' = asked + 1
          /\ Len(m_pszQuery)' = Len(m_pszQuery) + 1
      BY <1>2, <1>9
    <3> QED
      BY <1>7, <3>1
  <2> QED
    BY <1>2, <1>5, <1>9, <1>11, <2>1 DEF TextInv
<1> QED
  BY <1>4, <1>10, <1>12 DEF OdbcInv

LEMMA StepEndSP == ASSUME OdbcInv, EndSP PROVE OdbcInv'
<1>1. OdbcTypeOK /\ Ordered /\ FlagInv /\ HandlesInv /\ TextInv
  BY DEF OdbcInv
<1> DEFINE mark == IF m_siParamNo = 0 THEN "}" ELSE ")}"
<1>2. /\ Idle /\ todo = <<>> /\ todo' = <<>> /\ stage = "building" /\ stage' = "ended"
      /\ m_pszQuery' = Append(m_pszQuery, mark)
      /\ UNCHANGED <<m_henv, m_hdbc, m_hstmt, m_retcode, bIsConnected, m_siParamNo, result,
                     asked, hungUp>>
  BY DEF EndSP, Idle, handleVars
<1>3. (\A x : ~ Has(todo, x) /\ ~ Has(todo', x) /\ ~ At(x)) /\ ~ At("connected")'
  <2>1. \A x : ~ Has(todo, x) /\ ~ At(x)
    BY <1>2, IdleNothingPending
  <2> QED
    BY <1>2, <2>1 DEF Has, At
<1>4. Ordered' /\ FlagInv' /\ HandlesInv'
  <2>1. Ordered'
    <3>1. todo' = todo
      BY <1>2
    <3> QED
      BY <1>1, <3>1 DEF Ordered
  <2>2. FlagInv'
    BY <1>1, <1>2, <1>3 DEF FlagInv
  <2>3. HandlesInv'
    BY <1>1, <1>2, <1>3 DEF HandlesInv
  <2> QED
    BY <2>1, <2>2, <2>3
<1>5. /\ asked \in 0 .. MaxParams /\ MaxParams \in Nat
      /\ m_pszQuery \in Seq(QueryPieces) /\ Len(m_pszQuery) \in Nat
      /\ Len(m_pszQuery) <= asked + 1
  <2>1. asked \in 0 .. MaxParams /\ MaxParams \in Nat
    BY <1>1, OdbcAssumption DEF OdbcTypeOK
  <2>2. Len(m_pszQuery) <= asked + 1 /\ m_pszQuery \in Seq(QueryPieces)
    BY <1>1, <1>2, <1>3 DEF TextInv
  <2> QED
    BY <2>1, <2>2
<1>6. mark \in QueryPieces
  BY DEF QueryPieces
<1>7. /\ m_pszQuery' \in Seq(QueryPieces) /\ Len(m_pszQuery') = Len(m_pszQuery) + 1
      /\ m_pszQuery' = m_pszQuery \o <<mark>>
  <2> HIDE DEF mark
  <2> QED
    BY <1>2, <1>5, <1>6, AppendProperties, AppendIsConcat
<1>8. OdbcTypeOK'
  <2>1. Len(m_pszQuery)' <= MaxParams + 2
    <3>1. Len(m_pszQuery)' = Len(m_pszQuery) + 1
      BY <1>7
    <3> QED
      BY <1>5, <3>1
  <2> QED
    BY <1>1, <1>2, <2>1 DEF OdbcTypeOK
<1>9. m_hstmt' = "live" => m_pszQuery' = CallText' \o <<IF asked' = 0 THEN "}" ELSE ")}">>
  <2> SUFFICES ASSUME m_hstmt = "live"
               PROVE  m_pszQuery' = CallText' \o <<IF asked' = 0 THEN "}" ELSE ")}">>
    BY <1>2
  <2>1. m_siParamNo = asked /\ m_pszQuery = CallText
    BY <1>1, <1>2, <1>3 DEF TextInv
  <2>2. CallText' = CallText /\ asked' = asked
    BY <1>2 DEF CallText
  <2> QED
    BY <1>7, <2>1, <2>2
<1>10. TextInv'
  BY <1>2, <1>3, <1>7, <1>9 DEF TextInv
<1> QED
  BY <1>4, <1>8, <1>10 DEF OdbcInv

LEMMA OdbcNextInv == OdbcInv /\ [OdbcNext]_odbcVars => OdbcInv'
<1> SUFFICES ASSUME OdbcInv, [OdbcNext]_odbcVars PROVE OdbcInv'
  OBVIOUS
<1>1. ASSUME OdbcNext PROVE OdbcInv'
  BY <1>1, StepReturnFalse, StepDriver, StepGetData, StepGetsResult, StepConnectProcess,
     StepReconnect, StepSetsConnected, StepFreesStatement, StepAllocatesStatement,
     StepBeginsText, StepCopiesQuery, StepDisconnect, StepStartsQuietly, StepConnect,
     StepBegins, StepSetParam, StepEndSP DEF OdbcNext
<1>2. ASSUME UNCHANGED odbcVars PROVE OdbcInv'
  <2>1. UNCHANGED <<m_henv, m_hdbc, m_hstmt, m_retcode, bIsConnected, m_siParamNo, m_pszQuery,
                    result, todo, stage, asked, hungUp>>
    BY <1>2 DEF odbcVars, handleVars, textVars, callerVars
  <2>2. OdbcTypeOK /\ Ordered /\ FlagInv /\ HandlesInv /\ TextInv
    BY DEF OdbcInv
  <2>3. OdbcTypeOK'
    BY <2>1, <2>2 DEF OdbcTypeOK
  <2>4. Ordered'
    BY <2>1, <2>2 DEF Ordered
  <2>5. FlagInv'
    BY <2>1, <2>2 DEF FlagInv, At
  <2>6. HandlesInv'
    BY <2>1, <2>2 DEF HandlesInv, At
  <2>7. TextInv'
    BY <2>1, <2>2, SameText DEF callerVars
  <2> QED
    BY <2>3, <2>4, <2>5, <2>6, <2>7 DEF OdbcInv
<1> QED
  BY <1>1, <1>2

LEMMA OdbcInvImplies ==
  OdbcInv => OdbcTypeOK /\ StatementWellFormed /\ ConnectedIsTrue /\ NoFreedHandle
<1> SUFFICES ASSUME OdbcInv
             PROVE  OdbcTypeOK /\ StatementWellFormed /\ ConnectedIsTrue /\ NoFreedHandle
  OBVIOUS
<1>1. Idle => \A x : ~ Has(todo, x) /\ ~ At(x)
  BY IdleNothingPending
<1>2. ConnectedIsTrue
  BY <1>1 DEF OdbcInv, FlagInv, ConnectedIsTrue
<1>3. NoFreedHandle
  BY <1>1 DEF OdbcInv, HandlesInv, NoFreedHandle
<1>4. StatementWellFormed
  <2>1. CallText \o <<IF asked = 0 THEN "}" ELSE ")}">>
          = <<"{call">> \o Marks(asked) \o <<IF asked = 0 THEN "}" ELSE ")}">>
    BY DEF CallText
  <2>2. TextInv
    BY DEF OdbcInv
  <2> SUFFICES ASSUME Idle, stage \in {"ended", "executed"}, m_hstmt = "live"
               PROVE  m_pszQuery \in {<<"query">>, CallText \o <<IF asked = 0 THEN "}" ELSE ")}">>}
    BY <2>1 DEF StatementWellFormed
  <2> QED
    BY <1>1, <2>2 DEF TextInv
<1> QED
  BY <1>2, <1>3, <1>4 DEF OdbcInv

LEMMA OdbcInductive == OdbcSpec => []OdbcInv
BY OdbcInitInv, OdbcNextInv, PTL DEF OdbcSpec

(* RichODBC: its fields keep to their values, and its text to the buffer it   *)
(* is written to, however deep the reconnects are nested.                     *)
THEOREM OdbcTypes == OdbcSpec => []OdbcTypeOK
BY OdbcInductive, OdbcInvImplies, PTL

(* RichODBC::BeginSP to EndSP: with a live handle, the statement that ExecSQL *)
(* executes is the one the caller put together, whenever a reconnect happened *)
(* in between.                                                                *)
THEOREM StatementIsWellFormed == OdbcSpec => []StatementWellFormed
BY OdbcInductive, OdbcInvImplies, PTL

(* RichODBC::Reconnect: between two calls bIsConnected is not TRUE without a  *)
(* connection, unless the caller hung up.                                     *)
THEOREM ConnectedFlagIsTrue == OdbcSpec => []ConnectedIsTrue
BY OdbcInductive, OdbcInvImplies, PTL

(* RichODBC::ReleaseODBC: between two calls no field keeps a handle that was  *)
(* freed, unless the caller hung up.                                          *)
THEOREM NoHandleIsFreed == OdbcSpec => []NoFreedHandle
BY OdbcInductive, OdbcInvImplies, PTL
-----------------------------------------------------------------------------
ByteRecords == [of : {"field", "length", "zero"} \X Nat, byte : Nat]

(* What a field takes in the buffer: for some kinds the length in front, then *)
(* the bytes of the field.                                                    *)
HasLength(i) == fields[i].kind \in {"String", "WStringArray"}
FrontSize(i) == IF HasLength(i) THEN IntSize ELSE 0
FieldSize(i) == IF fields[i].kind = "Int" THEN IntSize
                ELSE IF fields[i].kind = "Int64" THEN Int64Size
                ELSE fields[i].count * WcharSize
Number(i) == IF fields[i].kind = "String" THEN FieldSize(i) ELSE fields[i].count

LengthAtPos(i, pos) ==
  \A k \in 1 .. IntSize : bytes[pos + k] = [of |-> <<"length", Number(i)>>, byte |-> k]
FieldAtPos(i, pos) ==
  \A k \in 1 .. FieldSize(i) : bytes[pos + k] = [of |-> <<"field", i>>, byte |-> k]

(* The fields that were pushed stand one behind the other: field i begins at  *)
(* p[i].                                                                      *)
FieldPositions(p) ==
  /\ p \in [1 .. pushed + 1 -> 0 .. curLength]
  /\ p[1] = 0
  /\ \A i \in 1 .. pushed :
       /\ p[i + 1] = p[i] + FrontSize(i) + FieldSize(i)
       /\ HasLength(i) => LengthAtPos(i, p[i])
       /\ FieldAtPos(i, p[i] + FrontSize(i))

(* Behind them comes nothing, or the length of the field whose push failed,   *)
(* and that field is not empty.                                               *)
EndOfBytes(p) ==
  \/ curLength = p[pushed + 1]
  \/ /\ writer # "pushes" /\ pushed < Len(fields) /\ HasLength(pushed + 1)
     /\ curLength = p[pushed + 1] + IntSize
     /\ LengthAtPos(pushed + 1, p[pushed + 1])
     /\ FieldSize(pushed + 1) > 0

BufferTypes ==
  /\ fields \in Seq(FieldKinds) /\ bytes \in [1 .. maxLength -> ByteRecords]
  /\ curLength \in 0 .. maxLength /\ pushed \in 0 .. Len(fields)
  /\ writer \in {"pushes", "failed", "reads"} /\ got \in Seq(Seq(ByteRecords))
  /\ thrown \in BOOLEAN /\ Len(got) <= pushed

ReaderInv(p) ==
  /\ ~ thrown => curPos = p[Len(got) + 1]
  /\ thrown => /\ Len(got) = pushed /\ pushed < Len(fields) /\ writer = "reads"
               /\ curPos \in 0 .. curLength
  /\ \A i \in 1 .. Len(got) : got[i] = Expected(i)
  /\ writer # "reads" => got = <<>> /\ curPos = 0 /\ ~ thrown

DataBufferInv == /\ BufferTypes
                 /\ \E p \in [1 .. pushed + 1 -> 0 .. curLength] :
                      FieldPositions(p) /\ EndOfBytes(p) /\ ReaderInv(p)

LEMMA FieldFacts ==
  ASSUME BufferTypes, NEW i \in 1 .. Len(fields)
  PROVE  /\ fields[i].kind \in {"Int", "Int64", "String", "WStringArray", "WString"}
         /\ FieldSize(i) \in Nat /\ FrontSize(i) \in Nat /\ Number(i) \in Nat
         /\ IntSize \in Nat \ {0} /\ fields[i].count * WcharSize \in Nat
         /\ ~ HasLength(i) => FieldSize(i) > 0
         /\ HasLength(i) => FieldSize(i) = fields[i].count * WcharSize
<1>1. fields[i] \in FieldKinds
  BY DEF BufferTypes
<1>2. /\ fields[i].kind \in {"Int", "Int64", "String", "WStringArray", "WString"}
      /\ fields[i].count \in Nat
      /\ fields[i].kind = "WString" => fields[i].count # 0
  <2>1. TextLengths \subseteq Nat
    BY DataBufferAssumption
  <2>2. CASE fields[i] \in [kind : {"Int", "Int64"}, count : {0}]
    BY <2>2
  <2>3. CASE fields[i] \in [kind : {"String", "WStringArray"}, count : TextLengths]
    BY <2>1, <2>3
  <2>4. CASE fields[i] \in [kind : {"WString"}, count : TextLengths \ {0}]
    BY <2>1, <2>4
  <2> QED
    BY <1>1, <2>2, <2>3, <2>4 DEF FieldKinds
<1>3. {IntSize, Int64Size, WcharSize, maxLength, MaxCharacters} \subseteq Nat \ {0}
  BY DataBufferAssumption
<1>4. \A a, b \in Nat : a * b \in Nat /\ (a > 0 /\ b > 0 => a * b > 0)
  OBVIOUS
<1>5. fields[i].count * WcharSize \in Nat
  BY <1>2, <1>3, <1>4
<1>6. fields[i].kind = "WString" => fields[i].count * WcharSize > 0
  BY <1>2, <1>3, <1>4
<1> QED
  BY <1>2, <1>3, <1>5, <1>6 DEF FieldSize, FrontSize, Number, HasLength

LEMMA CopyMemoryKeeps ==
  ASSUME BufferTypes, NEW piece, piece \in Seq(ByteRecords), Fits(piece), CopyMemory(piece)
  PROVE  /\ bytes' \in [1 .. maxLength -> ByteRecords]
         /\ curLength' = curLength + Len(piece) /\ curLength' \in 0 .. maxLength
         /\ \A k \in 1 .. Len(piece) : bytes'[curLength + k] = piece[k]
         /\ \A k \in 1 .. curLength : bytes'[k] = bytes[k]
<1>1. /\ maxLength \in Nat /\ curLength \in Nat /\ curLength <= maxLength /\ Len(piece) \in Nat
      /\ Len(piece) <= maxLength - curLength /\ DOMAIN piece = 1 .. Len(piece)
      /\ curLength' = curLength + Len(piece)
  BY DataBufferAssumption DEF BufferTypes, Fits, CopyMemory
<1>2. bytes' = [i \in 1 .. maxLength |-> IF i - curLength \in DOMAIN piece
                                        THEN piece[i - curLength] ELSE bytes[i]]
  BY DEF CopyMemory
<1>3. \A i \in 1 .. maxLength : bytes'[i] \in ByteRecords
  BY <1>1, <1>2 DEF BufferTypes
<1>4. bytes' \in [1 .. maxLength -> ByteRecords]
  BY <1>2, <1>3
<1>5. \A k \in 1 .. Len(piece) : bytes'[curLength + k] = piece[k]
  <2> SUFFICES ASSUME NEW k \in 1 .. Len(piece) PROVE bytes'[curLength + k] = piece[k]
    OBVIOUS
  <2>1. curLength + k \in 1 .. maxLength /\ (curLength + k) - curLength = k /\ k \in DOMAIN piece
    BY <1>1
  <2> QED
    BY <1>2, <2>1
<1>6. \A k \in 1 .. curLength : bytes'[k] = bytes[k]
  <2> SUFFICES ASSUME NEW k \in 1 .. curLength PROVE bytes'[k] = bytes[k]
    OBVIOUS
  <2>1. k \in 1 .. maxLength /\ k - curLength \notin DOMAIN piece
    BY <1>1
  <2> QED
    BY <1>2, <2>1
<1> QED
  BY <1>1, <1>4, <1>5, <1>6

LengthThenContent(n, i, size) == Length(n) \o Content(i, size)

LEMMA BytesToPush ==
  ASSUME NEW i \in Nat, NEW size \in Nat, NEW n \in Nat
  PROVE  /\ Content(i, size) \in Seq(ByteRecords) /\ Len(Content(i, size)) = size
         /\ \A k \in 1 .. size : Content(i, size)[k] = [of |-> <<"field", i>>, byte |-> k]
         /\ Length(n) \in Seq(ByteRecords) /\ Len(Length(n)) = IntSize
         /\ \A k \in 1 .. IntSize : Length(n)[k] = [of |-> <<"length", n>>, byte |-> k]
         /\ LengthThenContent(n, i, size) \in Seq(ByteRecords)
         /\ Len(LengthThenContent(n, i, size)) = IntSize + size
         /\ \A k \in 1 .. IntSize :
              LengthThenContent(n, i, size)[k] = [of |-> <<"length", n>>, byte |-> k]
         /\ \A k \in 1 .. size : LengthThenContent(n, i, size)[IntSize + k]
                                = [of |-> <<"field", i>>, byte |-> k]
<1>1. IntSize \in Nat
  BY DataBufferAssumption
<1>2. ASSUME NEW m \in Nat, NEW x \in {"field", "length", "zero"}, NEW y \in Nat
      PROVE  /\ BytesOf(<<x, y>>, m) \in Seq(ByteRecords) /\ Len(BytesOf(<<x, y>>, m)) = m
             /\ \A k \in 1 .. m : BytesOf(<<x, y>>, m)[k] = [of |-> <<x, y>>, byte |-> k]
  <2>1. \A k \in 1 .. m : [of |-> <<x, y>>, byte |-> k] \in ByteRecords
    BY DEF ByteRecords
  <2> QED
    BY <2>1 DEF BytesOf
<1> DEFINE c == Content(i, size)  l == Length(n)
<1>3. /\ c \in Seq(ByteRecords) /\ Len(c) = size
      /\ \A k \in 1 .. size : c[k] = [of |-> <<"field", i>>, byte |-> k]
  BY <1>2 DEF Content
<1>4. /\ l \in Seq(ByteRecords) /\ Len(l) = IntSize
      /\ \A k \in 1 .. IntSize : l[k] = [of |-> <<"length", n>>, byte |-> k]
  BY <1>1, <1>2 DEF Length
<1> HIDE DEF c, l
<1>5. /\ l \o c \in Seq(ByteRecords) /\ Len(l \o c) = Len(l) + Len(c)
      /\ \A k \in 1 .. Len(l) + Len(c) : (l \o c)[k] = IF k <= Len(l) THEN l[k] ELSE c[k - Len(l)]
  BY <1>3, <1>4, ConcatProperties
<1>6. \A k \in 1 .. IntSize : k \in 1 .. IntSize + size /\ k <= IntSize
  BY <1>1
<1>7. \A k \in 1 .. size : /\ IntSize + k \in 1 .. IntSize + size /\ ~ (IntSize + k <= IntSize)
                          /\ (IntSize + k) - IntSize = k
  BY <1>1
<1>8. \A k \in 1 .. IntSize : (l \o c)[k] = l[k]
  BY <1>3, <1>4, <1>5, <1>6
<1>9. \A k \in 1 .. size : (l \o c)[IntSize + k] = c[k]
  BY <1>3, <1>4, <1>5, <1>7, SMTT(30)
<1>10. /\ l \o c \in Seq(ByteRecords) /\ Len(l \o c) = IntSize + size
       /\ \A k \in 1 .. IntSize : (l \o c)[k] = [of |-> <<"length", n>>, byte |-> k]
       /\ \A k \in 1 .. size : (l \o c)[IntSize + k] = [of |-> <<"field", i>>, byte |-> k]
  BY <1>3, <1>4, <1>5, <1>8, <1>9
<1> QED
  BY <1>3, <1>4, <1>10 DEF c, l, LengthThenContent

(* What a push does, for every kind of field: all of it, the length alone, or *)
(* nothing.                                                                   *)
PushesAll(i) ==
  \E piece \in Seq(ByteRecords) :
    /\ Fits(piece) /\ CopyMemory(piece) /\ pushed' = i /\ writer' = writer
    /\ Len(piece) = FrontSize(i) + FieldSize(i)
    /\ HasLength(i) => \A k \in 1 .. IntSize :
                         piece[k] = [of |-> <<"length", Number(i)>>, byte |-> k]
    /\ \A k \in 1 .. FieldSize(i) :
         piece[FrontSize(i) + k] = [of |-> <<"field", i>>, byte |-> k]
PushesLength(i) ==
  \E piece \in Seq(ByteRecords) :
    /\ Fits(piece) /\ CopyMemory(piece) /\ pushed' = pushed /\ writer' = "failed"
    /\ Len(piece) = IntSize /\ HasLength(i) /\ FieldSize(i) > 0
    /\ \A k \in 1 .. IntSize : piece[k] = [of |-> <<"length", Number(i)>>, byte |-> k]

LEMMA PushForms ==
  ASSUME BufferTypes, Push
  PROVE  /\ pushed + 1 \in 1 .. Len(fields) /\ writer = "pushes"
         /\ UNCHANGED <<fields, curPos, got, thrown>>
         /\ PushesAll(pushed + 1) \/ PushesLength(pushed + 1) \/ PushFails
<1> DEFINE n == fields[pushed + 1].count * WcharSize
<1>1. /\ writer = "pushes" /\ pushed < Len(fields)
      /\ UNCHANGED <<fields, curPos, got, thrown>>
  BY DEF Push, readerVars
<1>2. pushed \in Nat /\ Len(fields) \in Nat
  BY DEF BufferTypes
<1>3. PICK i \in 1 .. Len(fields) : i = pushed + 1
  BY <1>1, <1>2
<1>4. /\ fields[i].kind \in {"Int", "Int64", "String", "WStringArray", "WString"}
      /\ FieldSize(i) \in Nat /\ FrontSize(i) \in Nat /\ Number(i) \in Nat
      /\ IntSize \in Nat \ {0} /\ i \in Nat
  BY <1>3, FieldFacts
<1>5. ASSUME ~ HasLength(i), pushdata(Content(i, FieldSize(i)))
      PROVE  PushesAll(i) \/ PushFails
  <2>1. CASE PushFails
    BY <2>1
  <2>2. CASE PushSucceeds(Content(i, FieldSize(i)))
    <3> DEFINE piece == Content(i, FieldSize(i))
    <3>1. /\ piece \in Seq(ByteRecords) /\ Len(piece) = FieldSize(i)
          /\ \A k \in 1 .. FieldSize(i) : piece[k] = [of |-> <<"field", i>>, byte |-> k]
      BY <1>4, BytesToPush
    <3>2. Fits(piece) /\ CopyMemory(piece) /\ pushed' = i /\ writer' = writer
      BY <1>3, <2>2 DEF PushSucceeds
    <3> HIDE DEF piece
    <3>3. FrontSize(i) = 0
      BY <1>5 DEF FrontSize
    <3>4. \A k \in 1 .. FieldSize(i) :
            piece[FrontSize(i) + k] = [of |-> <<"field", i>>, byte |-> k]
      BY <3>1, <3>3
    <3>5. Len(piece) = FrontSize(i) + FieldSize(i)
      BY <1>4, <3>1, <3>3
    <3> QED
      BY <1>5, <3>1, <3>2, <3>4, <3>5 DEF PushesAll
  <2> QED
    BY <1>5, <2>1, <2>2 DEF pushdata
<1>6. ASSUME HasLength(i), pushAfterLength(Number(i), Content(i, FieldSize(i)))
      PROVE  PushesAll(i) \/ PushesLength(i) \/ PushFails
  <2> DEFINE all == LengthThenContent(Number(i), i, FieldSize(i))  l == Length(Number(i))
  <2>1. /\ all \in Seq(ByteRecords) /\ Len(all) = IntSize + FieldSize(i)
        /\ \A k \in 1 .. IntSize : all[k] = [of |-> <<"length", Number(i)>>, byte |-> k]
        /\ \A k \in 1 .. FieldSize(i) : all[IntSize + k] = [of |-> <<"field", i>>, byte |-> k]
    <3>1. i \in Nat /\ FieldSize(i) \in Nat /\ Number(i) \in Nat
      BY <1>4
    <3>2. LengthThenContent(Number(i), i, FieldSize(i)) \in Seq(ByteRecords)
      BY <3>1, BytesToPush
    <3>3. Len(LengthThenContent(Number(i), i, FieldSize(i))) = IntSize + FieldSize(i)
      BY <3>1, BytesToPush
    <3>4. \A k \in 1 .. IntSize : LengthThenContent(Number(i), i, FieldSize(i))[k] = [of |-> <<"length", Number(i)>>, byte |-> k]
      BY <3>1, BytesToPush, ZenonT(40)
    <3>5. \A k \in 1 .. FieldSize(i) : LengthThenContent(Number(i), i, FieldSize(i))[IntSize + k] = [of |-> <<"field", i>>, byte |-> k]
      BY <3>1, BytesToPush, ZenonT(40)
    <3> QED
      BY <3>2, <3>3, <3>4, <3>5
  <2>2. /\ l \in Seq(ByteRecords) /\ Len(l) = IntSize
        /\ \A k \in 1 .. IntSize : l[k] = [of |-> <<"length", Number(i)>>, byte |-> k]
    BY <1>4, BytesToPush
  <2>3. \/ PushSucceeds(all)
        \/ Fits(l) /\ ~ Fits(all) /\ CopyMemory(l) /\ writer' = "failed" /\ UNCHANGED pushed
        \/ PushFails
    BY <1>6 DEF pushAfterLength, LengthThenContent
  <2> HIDE DEF all, l
  <2>4. FrontSize(i) = IntSize
    BY <1>6 DEF FrontSize
  <2>5. CASE PushSucceeds(all)
    <3>1. Fits(all) /\ CopyMemory(all) /\ pushed' = i /\ writer' = writer
      BY <1>3, <2>5 DEF PushSucceeds
    <3> QED
      BY <2>1, <2>4, <3>1 DEF PushesAll
  <2>6. CASE Fits(l) /\ ~ Fits(all) /\ CopyMemory(l) /\ writer' = "failed" /\ UNCHANGED pushed
    <3>1. FieldSize(i) > 0
      BY <1>4, <2>1, <2>2, <2>6 DEF Fits
    <3> QED
      BY <1>6, <2>2, <2>6, <3>1 DEF PushesLength
  <2> QED
    BY <2>3, <2>5, <2>6
<1>7. PushesAll(i) \/ PushesLength(i) \/ PushFails
  <2>1. CASE fields[i].kind = "Int" /\ pushdata(Content(i, IntSize))
    BY <1>5, <2>1 DEF FieldSize, HasLength
  <2>2. CASE fields[i].kind = "Int64" /\ pushdata(Content(i, Int64Size))
    BY <1>5, <2>2 DEF FieldSize, HasLength
  <2>3. CASE fields[i].kind = "WString" /\ pushdata(Content(i, fields[i].count * WcharSize))
    BY <1>5, <2>3 DEF FieldSize, HasLength
  <2>4. CASE /\ fields[i].kind = "String"
             /\ pushAfterLength(fields[i].count * WcharSize,
                                Content(i, fields[i].count * WcharSize))
    BY <1>6, <2>4 DEF FieldSize, HasLength, Number
  <2>5. CASE /\ fields[i].kind = "WStringArray"
             /\ pushAfterLength(fields[i].count, Content(i, fields[i].count * WcharSize))
    BY <1>6, <2>5 DEF FieldSize, HasLength, Number
  <2> QED
    BY <1>3, <2>1, <2>2, <2>3, <2>4, <2>5 DEF Push
<1> QED
  BY <1>1, <1>3, <1>7

(* The bytes of the fields that were pushed before stay where they are.       *)
LEMMA KeptFields ==
  ASSUME BufferTypes, NEW p, FieldPositions(p), fields' = fields,
         \A k \in 1 .. curLength : bytes'[k] = bytes[k],
         NEW i \in 1 .. pushed
  PROVE  /\ p[i] \in Nat /\ p[i + 1] \in Nat /\ p[i + 1] = p[i] + FrontSize(i)' + FieldSize(i)'
         /\ HasLength(i)' => LengthAtPos(i, p[i])'
         /\ FieldAtPos(i, p[i] + FrontSize(i))'
<1>1. /\ HasLength(i)' = HasLength(i) /\ FrontSize(i)' = FrontSize(i)
      /\ FieldSize(i)' = FieldSize(i) /\ Number(i)' = Number(i)
  BY DEF HasLength, FrontSize, FieldSize, Number
<1>2. /\ pushed \in Nat /\ Len(fields) \in Nat /\ pushed <= Len(fields) /\ curLength \in Nat
      /\ i \in 1 .. pushed + 1 /\ i + 1 \in 1 .. pushed + 1 /\ i \in 1 .. Len(fields)
  BY DEF BufferTypes
<1>3. /\ FieldSize(i) \in Nat /\ FrontSize(i) \in Nat /\ IntSize \in Nat
      /\ HasLength(i) => FrontSize(i) = IntSize
  BY <1>2, FieldFacts DEF FrontSize
<1>4. /\ p[i] \in Nat /\ p[i + 1] \in Nat /\ p[i + 1] <= curLength
      /\ p[i + 1] = p[i] + FrontSize(i) + FieldSize(i)
  BY <1>2 DEF FieldPositions
<1>5. ASSUME HasLength(i) PROVE LengthAtPos(i, p[i])'
  <2>1. LengthAtPos(i, p[i])
    BY <1>5 DEF FieldPositions
  <2>2. \A k \in 1 .. IntSize : p[i] + k \in 1 .. curLength
    BY <1>2, <1>3, <1>4, <1>5
  <2> QED
    BY <1>1, <2>1, <2>2 DEF LengthAtPos
<1>6. FieldAtPos(i, p[i] + FrontSize(i))'
  <2>1. FieldAtPos(i, p[i] + FrontSize(i))
    BY DEF FieldPositions
  <2>2. \A k \in 1 .. FieldSize(i) : p[i] + FrontSize(i) + k \in 1 .. curLength
    BY <1>2, <1>3, <1>4
  <2> QED
    BY <1>1, <2>1, <2>2 DEF FieldAtPos
<1> QED
  BY <1>1, <1>4, <1>5, <1>6

LEMMA PushStep == ASSUME DataBufferInv, Push PROVE DataBufferInv'
<1>1. BufferTypes
  BY DEF DataBufferInv
<1>2. PICK p \in [1 .. pushed + 1 -> 0 .. curLength] :
         FieldPositions(p) /\ EndOfBytes(p) /\ ReaderInv(p)
  BY DEF DataBufferInv
<1>3. /\ pushed + 1 \in 1 .. Len(fields) /\ writer = "pushes"
      /\ fields' = fields /\ curPos' = curPos /\ got' = got /\ thrown' = thrown
      /\ PushesAll(pushed + 1) \/ PushesLength(pushed + 1) \/ PushFails
  BY <1>1, PushForms
<1>4. PICK i \in 1 .. Len(fields) : i = pushed + 1
  BY <1>3
<1>5. /\ curLength = p[i] /\ got = <<>> /\ curPos = 0 /\ ~ thrown
      /\ p[1] = 0 /\ pushed \in Nat /\ Len(fields) \in Nat /\ curLength \in Nat
  BY <1>1, <1>2, <1>3, <1>4 DEF BufferTypes, EndOfBytes, ReaderInv, FieldPositions
<1>6. /\ FieldSize(i) \in Nat /\ FrontSize(i) \in Nat /\ Number(i) \in Nat /\ IntSize \in Nat
      /\ HasLength(i) => FrontSize(i) = IntSize
      /\ ~ HasLength(i) => FrontSize(i) = 0
  BY <1>1, <1>4, FieldFacts DEF FrontSize
<1>7. /\ HasLength(i)' = HasLength(i) /\ FrontSize(i)' = FrontSize(i)
      /\ FieldSize(i)' = FieldSize(i) /\ Number(i)' = Number(i)
  BY <1>3 DEF HasLength, FrontSize, FieldSize, Number
<1>8. CASE PushesAll(i)
  <2>1. PICK piece \in Seq(ByteRecords) :
           /\ Fits(piece) /\ CopyMemory(piece) /\ pushed' = i /\ writer' = writer
           /\ Len(piece) = FrontSize(i) + FieldSize(i)
           /\ HasLength(i) => \A k \in 1 .. IntSize :
                                piece[k] = [of |-> <<"length", Number(i)>>, byte |-> k]
           /\ \A k \in 1 .. FieldSize(i) :
                piece[FrontSize(i) + k] = [of |-> <<"field", i>>, byte |-> k]
    BY <1>8 DEF PushesAll
  <2>2. /\ bytes' \in [1 .. maxLength -> ByteRecords]
        /\ curLength' = curLength + Len(piece) /\ curLength' \in 0 .. maxLength
        /\ \A k \in 1 .. Len(piece) : bytes'[curLength + k] = piece[k]
        /\ \A k \in 1 .. curLength : bytes'[k] = bytes[k]
    BY <1>1, <2>1, CopyMemoryKeeps
  <2>3. curLength' \in Nat /\ curLength' >= curLength
        /\ curLength' = p[i] + FrontSize(i) + FieldSize(i)
    BY <1>5, <1>6, <2>1, <2>2, SMTT(30)
  <2>4. PICK r : r = [j \in 1 .. i + 1 |-> IF j <= i THEN p[j] ELSE curLength']
    OBVIOUS
  <2>5. /\ r \in [1 .. pushed' + 1 -> 0 .. curLength'] /\ r[1] = p[1] /\ r[i + 1] = curLength'
        /\ r[i] = p[i] /\ \A j \in 1 .. pushed : r[j] = p[j] /\ r[j + 1] = p[j + 1]
    <3>1. pushed' = i /\ i = pushed + 1 /\ i \in Nat
      BY <1>4, <2>1
    <3>2. \A j \in 1 .. i : p[j] \in 0 .. curLength
      BY <1>4
    <3>3. \A j \in 1 .. i + 1 : r[j] \in 0 .. curLength'
      BY <1>5, <2>3, <2>4, <3>1, <3>2
    <3>4. r \in [1 .. pushed' + 1 -> 0 .. curLength']
      BY <2>4, <3>1, <3>3
    <3> QED
      BY <1>5, <2>4, <3>1, <3>4
  <2>6. LengthAtPos(i, p[i])' \/ ~ HasLength(i)
    <3> SUFFICES ASSUME HasLength(i), NEW k \in 1 .. IntSize
                 PROVE  bytes'[p[i] + k] = [of |-> <<"length", Number(i)'>>, byte |-> k]
      BY DEF LengthAtPos
    <3>1. k \in 1 .. Len(piece)
      BY <1>6, <2>1
    <3> QED
      BY <1>5, <1>7, <2>1, <2>2, <3>1
  <2>7. FieldAtPos(i, p[i] + FrontSize(i))'
    <3> SUFFICES ASSUME NEW k \in 1 .. FieldSize(i)
                 PROVE  bytes'[p[i] + FrontSize(i) + k] = [of |-> <<"field", i>>, byte |-> k]
      BY <1>7 DEF FieldAtPos
    <3>1. FrontSize(i) + k \in 1 .. Len(piece)
      BY <1>6, <2>1
    <3>2. p[i] + FrontSize(i) + k = curLength + (FrontSize(i) + k)
      BY <1>5, <1>6
    <3> QED
      BY <2>1, <2>2, <3>1, <3>2
  <2>8. FieldPositions(r)'
    <3> SUFFICES ASSUME NEW j \in 1 .. i
                 PROVE  /\ r[j + 1] = r[j] + FrontSize(j)' + FieldSize(j)'
                        /\ HasLength(j)' => LengthAtPos(j, r[j])'
                        /\ FieldAtPos(j, r[j] + FrontSize(j))'
      BY <1>5, <2>1, <2>5 DEF FieldPositions
    <3>1. CASE j = i
      BY <1>7, <2>3, <2>5, <2>6, <2>7, <3>1
    <3>2. CASE j # i
      <4>1. j \in 1 .. pushed
        BY <1>4, <1>5, <3>2
      <4>2. /\ p[j + 1] = p[j] + FrontSize(j)' + FieldSize(j)'
            /\ HasLength(j)' => LengthAtPos(j, p[j])'
            /\ FieldAtPos(j, p[j] + FrontSize(j))'
        BY <1>1, <1>2, <1>3, <2>2, <4>1, KeptFields
      <4> QED
        BY <2>5, <4>1, <4>2
    <3> QED
      BY <3>1, <3>2
  <2>9. EndOfBytes(r)'
    BY <2>1, <2>5 DEF EndOfBytes
  <2>10. BufferTypes'
    BY <1>1, <1>3, <1>4, <1>5, <2>1, <2>2 DEF BufferTypes
  <2>11. ReaderInv(r)'
    <3>1. Len(got') = 0 /\ got' = <<>> /\ curPos' = 0 /\ ~ thrown' /\ r[1] = 0
      BY <1>3, <1>5, <2>5
    <3> QED
      BY <3>1 DEF ReaderInv
  <2> QED
    BY <2>5, <2>8, <2>9, <2>10, <2>11 DEF DataBufferInv
<1>9. CASE PushesLength(i)
  <2>1. PICK piece \in Seq(ByteRecords) :
           /\ Fits(piece) /\ CopyMemory(piece) /\ pushed' = pushed /\ writer' = "failed"
           /\ Len(piece) = IntSize /\ HasLength(i) /\ FieldSize(i) > 0
           /\ \A k \in 1 .. IntSize : piece[k] = [of |-> <<"length", Number(i)>>, byte |-> k]
    BY <1>9 DEF PushesLength
  <2>2. /\ bytes' \in [1 .. maxLength -> ByteRecords]
        /\ curLength' = curLength + Len(piece) /\ curLength' \in 0 .. maxLength
        /\ \A k \in 1 .. Len(piece) : bytes'[curLength + k] = piece[k]
        /\ \A k \in 1 .. curLength : bytes'[k] = bytes[k]
    BY <1>1, <2>1, CopyMemoryKeeps
  <2>3. p \in [1 .. pushed' + 1 -> 0 .. curLength']
    <3>1. curLength' \in Nat /\ curLength' >= curLength
      BY <1>5, <1>6, <2>1, <2>2
    <3>2. \A x \in 0 .. curLength : x \in 0 .. curLength'
      BY <1>5, <3>1
    <3> QED
      BY <2>1, <3>2
  <2>4. LengthAtPos(i, p[i])'
    <3> SUFFICES ASSUME NEW k \in 1 .. IntSize
                 PROVE  bytes'[p[i] + k] = [of |-> <<"length", Number(i)'>>, byte |-> k]
      BY DEF LengthAtPos
    <3> QED
      BY <1>5, <1>7, <2>1, <2>2
  <2>5. FieldPositions(p)'
    <3> SUFFICES ASSUME NEW j \in 1 .. pushed
                 PROVE  /\ p[j + 1] = p[j] + FrontSize(j)' + FieldSize(j)'
                        /\ HasLength(j)' => LengthAtPos(j, p[j])'
                        /\ FieldAtPos(j, p[j] + FrontSize(j))'
      BY <1>5, <2>1, <2>3 DEF FieldPositions
    <3> QED
      BY <1>1, <1>2, <1>3, <2>2, KeptFields
  <2>6. EndOfBytes(p)'
    <3>1. /\ writer' # "pushes" /\ pushed' < Len(fields') /\ pushed' + 1 = i
          /\ curLength' = p[i] + IntSize
      BY <1>3, <1>4, <1>5, <2>1, <2>2
    <3>2. HasLength(i)' /\ FieldSize(i)' > 0
      BY <1>7, <2>1
    <3> QED
      BY <2>4, <3>1, <3>2 DEF EndOfBytes
  <2>7. BufferTypes'
    BY <1>1, <1>3, <1>4, <1>5, <2>1, <2>2 DEF BufferTypes
  <2>8. ReaderInv(p)'
    <3>1. Len(got') = 0 /\ got' = <<>> /\ curPos' = 0 /\ ~ thrown' /\ p[1] = 0
      BY <1>3, <1>5
    <3> QED
      BY <3>1 DEF ReaderInv
  <2> QED
    BY <2>3, <2>5, <2>6, <2>7, <2>8 DEF DataBufferInv
<1>10. CASE PushFails
  <2>1. /\ writer' = "failed"
        /\ UNCHANGED <<fields, pushed, bytes, curLength, curPos, got, thrown>>
    BY <1>3, <1>10 DEF PushFails
  <2>2. BufferTypes'
    BY <1>1, <2>1 DEF BufferTypes
  <2>3. FieldPositions(p)'
    BY <1>2, <2>1 DEF FieldPositions, LengthAtPos, FieldAtPos, HasLength, FrontSize, FieldSize, Number
  <2>4. EndOfBytes(p)'
    BY <1>4, <1>5, <2>1 DEF EndOfBytes
  <2>5. ReaderInv(p)'
    <3>1. Len(got') = 0 /\ got' = <<>> /\ curPos' = 0 /\ ~ thrown' /\ p[1] = 0
      BY <1>5, <2>1
    <3> QED
      BY <3>1 DEF ReaderInv
  <2> QED
    BY <1>2, <2>1, <2>2, <2>3, <2>4, <2>5 DEF DataBufferInv
<1> QED
  BY <1>3, <1>4, <1>8, <1>9, <1>10

Shown(i) == IF ~ HasLength(i) \/ FieldSize(i) <= MaxCharacters * WcharSize
            THEN FieldSize(i) ELSE MaxCharacters * WcharSize

LEMMA ShownFacts ==
  ASSUME BufferTypes, NEW i \in 1 .. Len(fields)
  PROVE  /\ Expected(i) = Content(i, Shown(i))
         /\ Shown(i) \in Nat /\ Shown(i) <= FieldSize(i)
         /\ MaxCharacters * WcharSize \in Nat
<1>1. MaxCharacters * WcharSize \in Nat
  <2>1. MaxCharacters \in Nat /\ WcharSize \in Nat
    BY DataBufferAssumption
  <2>2. \A a, b \in Nat : a * b \in Nat
    OBVIOUS
  <2> QED
    BY <2>1, <2>2
<1>2. /\ fields[i].kind \in {"Int", "Int64", "String", "WStringArray", "WString"}
      /\ FieldSize(i) \in Nat /\ fields[i].count * WcharSize \in Nat
  BY FieldFacts
<1>3. Shown(i) \in Nat /\ Shown(i) <= FieldSize(i)
  BY <1>1, <1>2 DEF Shown
<1>4. Shown(i) = IF fields[i].kind = "Int" THEN IntSize
                 ELSE IF fields[i].kind = "Int64" THEN Int64Size
                 ELSE IF fields[i].kind = "WString"
                         \/ fields[i].count * WcharSize <= MaxCharacters * WcharSize
                      THEN fields[i].count * WcharSize ELSE MaxCharacters * WcharSize
  BY <1>1, <1>2 DEF Shown, HasLength, FieldSize
<1>5. Expected(i) = Content(i, Shown(i))
  BY <1>4 DEF Expected
<1> QED
  BY <1>1, <1>3, <1>5

LEMMA ReadsContent ==
  ASSUME BufferTypes, NEW i \in 1 .. Len(fields), NEW pos \in Nat, NEW m \in Nat,
         m <= FieldSize(i), FieldAtPos(i, pos), pos + FieldSize(i) <= curLength
  PROVE  SubSeq(bytes, pos + 1, pos + m) = Content(i, m)
<1>1. /\ i \in Nat /\ FieldSize(i) \in Nat /\ curLength \in Nat /\ maxLength \in Nat
      /\ curLength <= maxLength
  BY FieldFacts, DataBufferAssumption DEF BufferTypes
<1> DEFINE c == Content(i, m)  t == SubSeq(bytes, pos + 1, pos + m)
<1>2. /\ c \in Seq(ByteRecords) /\ Len(c) = m
      /\ \A k \in 1 .. m : c[k] = [of |-> <<"field", i>>, byte |-> k]
  BY <1>1, BytesToPush
<1>3. \A k \in pos + 1 .. pos + m : bytes[k] \in ByteRecords
  <2>1. \A k \in pos + 1 .. pos + m : k \in 1 .. maxLength
    BY <1>1
  <2> QED
    BY <2>1 DEF BufferTypes
<1>4. /\ t \in Seq(ByteRecords)
      /\ Len(t) = IF pos + 1 <= pos + m THEN (pos + m) - (pos + 1) + 1 ELSE 0
      /\ \A k \in 1 .. (pos + m) - (pos + 1) + 1 : t[k] = bytes[(pos + 1) + k - 1]
  <2>1. pos + 1 \in Int /\ pos + m \in Int
    OBVIOUS
  <2> QED
    BY <1>3, <2>1, SubSeqProperties
<1> HIDE DEF c, t
<1>5. Len(t) = m
  <2>1. (IF pos + 1 <= pos + m THEN (pos + m) - (pos + 1) + 1 ELSE 0) = m
    OBVIOUS
  <2> QED
    BY <1>4, <2>1
<1>6. ASSUME NEW k \in 1 .. m PROVE t[k] = c[k]
  <2>1. /\ k \in 1 .. (pos + m) - (pos + 1) + 1 /\ (pos + 1) + k - 1 = pos + k
        /\ k \in 1 .. FieldSize(i)
    BY <1>1
  <2>2. t[k] = bytes[pos + k]
    BY <1>4, <2>1
  <2>3. bytes[pos + k] = [of |-> <<"field", i>>, byte |-> k]
    BY <2>1 DEF FieldAtPos
  <2> QED
    BY <1>2, <2>2, <2>3
<1>7. t = c
  BY <1>2, <1>4, <1>5, <1>6, SeqEqual
<1> QED
  BY <1>7 DEF c, t

LEMMA ReadForms ==
  ASSUME BufferTypes, Read, NEW i \in 1 .. Len(fields), i = Len(got) + 1
  PROVE  /\ UNCHANGED <<fields, pushed, writer, bytes, curLength>>
         /\ \/ ~ HasLength(i) /\ ReadBytes(curPos, FieldSize(i), FieldSize(i))
            \/ HasLength(i) /\ Left(curPos) < IntSize /\ Throws(curPos)
            \/ /\ HasLength(i) /\ Left(curPos) >= IntSize
               /\ LengthAtPos(i, curPos) =>
                    ReadBytes(curPos + IntSize, FieldSize(i), MaxCharacters * WcharSize)
<1>1. /\ fields[i].count * WcharSize \in Nat /\ IntSize \in Nat \ {0}
      /\ fields[i].count * WcharSize * 1 = fields[i].count * WcharSize
  <2>1. fields[i].count * WcharSize \in Nat /\ IntSize \in Nat \ {0}
    BY FieldFacts
  <2>2. \A a \in Nat : a * 1 = a
    OBVIOUS
  <2> QED
    BY <2>1, <2>2
<1>2. LengthAtPos(i, curPos) => LengthAt(curPos) = Number(i)
  <2> SUFFICES ASSUME LengthAtPos(i, curPos) PROVE LengthAt(curPos) = Number(i)
    OBVIOUS
  <2>1. bytes[curPos + 1] = [of |-> <<"length", Number(i)>>, byte |-> 1]
    <3>1. 1 \in 1 .. IntSize
      BY <1>1
    <3> QED
      BY <3>1 DEF LengthAtPos
  <2> QED
    BY <2>1 DEF LengthAt
<1>3. UNCHANGED <<fields, pushed, writer, bytes, curLength>>
  BY DEF Read, writerVars
<1>4. CASE fields[i].kind = "Int" /\ ReadBytes(curPos, IntSize, IntSize)
  BY <1>3, <1>4 DEF HasLength, FieldSize
<1>5. CASE fields[i].kind = "Int64" /\ ReadBytes(curPos, Int64Size, Int64Size)
  BY <1>3, <1>5 DEF HasLength, FieldSize
<1>6. CASE /\ fields[i].kind = "WString"
           /\ ReadBytes(curPos, fields[i].count * WcharSize, fields[i].count * WcharSize)
  BY <1>3, <1>6 DEF HasLength, FieldSize
<1>7. CASE fields[i].kind = "String" /\ ReadAfterLength(1)
  <2>1. HasLength(i) /\ (LengthAtPos(i, curPos) => LengthAt(curPos) * 1 = FieldSize(i))
    BY <1>1, <1>2, <1>7 DEF HasLength, FieldSize, Number
  <2>2. \/ Left(curPos) < IntSize /\ Throws(curPos)
        \/ /\ Left(curPos) >= IntSize
           /\ ReadBytes(curPos + IntSize, LengthAt(curPos) * 1, MaxCharacters * WcharSize)
    BY <1>7 DEF ReadAfterLength
  <2> QED
    BY <1>3, <2>1, <2>2
<1>8. CASE fields[i].kind = "WStringArray" /\ ReadAfterLength(WcharSize)
  <2>1. HasLength(i) /\ (LengthAtPos(i, curPos) => LengthAt(curPos) * WcharSize = FieldSize(i))
    BY <1>1, <1>2, <1>8 DEF HasLength, FieldSize, Number
  <2>2. \/ Left(curPos) < IntSize /\ Throws(curPos)
        \/ /\ Left(curPos) >= IntSize
           /\ ReadBytes(curPos + IntSize, LengthAt(curPos) * WcharSize,
                        MaxCharacters * WcharSize)
    BY <1>8 DEF ReadAfterLength
  <2> QED
    BY <1>3, <2>1, <2>2
<1> QED
  BY <1>4, <1>5, <1>6, <1>7, <1>8 DEF Read

LEMMA ReadStep == ASSUME DataBufferInv, Read PROVE DataBufferInv'
<1>1. BufferTypes
  BY DEF DataBufferInv
<1>2. PICK p \in [1 .. pushed + 1 -> 0 .. curLength] :
         FieldPositions(p) /\ EndOfBytes(p) /\ ReaderInv(p)
  BY DEF DataBufferInv
<1>3. /\ writer = "reads" /\ ~ thrown /\ Len(got) < Len(fields) /\ Len(got) \in Nat
      /\ Len(got) <= pushed /\ pushed \in Nat /\ pushed <= Len(fields) /\ Len(fields) \in Nat
      /\ curLength \in Nat /\ maxLength \in Nat /\ curLength <= maxLength
  BY <1>1, DataBufferAssumption DEF Read, BufferTypes
<1>4. PICK i \in 1 .. Len(fields) : i = Len(got) + 1
  BY <1>3
<1>5. /\ curPos = p[i] /\ i \in 1 .. pushed + 1 /\ p[i] \in Nat /\ p[i] <= curLength
  <2>1. i \in 1 .. pushed + 1
    BY <1>3, <1>4
  <2> QED
    BY <1>2, <1>3, <1>4, <2>1 DEF ReaderInv, FieldPositions
<1>6. /\ UNCHANGED <<fields, pushed, writer, bytes, curLength>>
      /\ \/ ~ HasLength(i) /\ ReadBytes(curPos, FieldSize(i), FieldSize(i))
         \/ HasLength(i) /\ Left(curPos) < IntSize /\ Throws(curPos)
         \/ /\ HasLength(i) /\ Left(curPos) >= IntSize
            /\ LengthAtPos(i, curPos) =>
                 ReadBytes(curPos + IntSize, FieldSize(i), MaxCharacters * WcharSize)
  BY <1>1, <1>4, ReadForms
<1>7. /\ FieldSize(i) \in Nat /\ FrontSize(i) \in Nat /\ IntSize \in Nat \ {0}
      /\ ~ HasLength(i) => FieldSize(i) > 0 /\ FrontSize(i) = 0
      /\ HasLength(i) => FrontSize(i) = IntSize
  BY <1>1, FieldFacts DEF FrontSize
<1>8. /\ Expected(i) = Content(i, Shown(i)) /\ Shown(i) \in Nat /\ Shown(i) <= FieldSize(i)
      /\ MaxCharacters * WcharSize \in Nat
  BY <1>1, ShownFacts
<1>9. FieldPositions(p)' /\ EndOfBytes(p)'
  BY <1>2, <1>6 DEF FieldPositions, EndOfBytes, LengthAtPos, FieldAtPos, HasLength, FrontSize,
     FieldSize, Number
<1>10. \A j : Expected(j)' = Expected(j)
  BY <1>6 DEF Expected
<1>11. \A j \in 1 .. Len(got) : got[j] = Expected(j)
  BY <1>2 DEF ReaderInv
<1>12. CASE i <= pushed
  <2>1. /\ p[i + 1] = p[i] + FrontSize(i) + FieldSize(i)
        /\ HasLength(i) => LengthAtPos(i, p[i])
        /\ FieldAtPos(i, p[i] + FrontSize(i))
        /\ p[i + 1] \in Nat /\ p[i + 1] <= curLength
    <3>1. i \in 1 .. pushed /\ i + 1 \in 1 .. pushed + 1
      BY <1>3, <1>12
    <3> QED
      BY <1>2, <1>3, <3>1 DEF FieldPositions
  <2>2. PICK pos \in Nat : pos = p[i] + FrontSize(i)
    BY <1>5, <1>7
  <2>3. pos + FieldSize(i) = p[i + 1] /\ pos + FieldSize(i) <= curLength /\ FieldAtPos(i, pos)
    BY <2>1, <2>2
  <2>4. \E room \in Nat :
          /\ ReadBytes(pos, FieldSize(i), room)
          /\ Shown(i) = IF FieldSize(i) > room THEN room ELSE FieldSize(i)
    <3>1. CASE ~ HasLength(i)
      <4>1. pos = curPos /\ ReadBytes(pos, FieldSize(i), FieldSize(i))
        BY <1>5, <1>6, <1>7, <2>2, <3>1
      <4>2. Shown(i) = FieldSize(i)
        BY <3>1 DEF Shown
      <4> QED
        BY <1>7, <4>1, <4>2
    <3>2. CASE HasLength(i)
      <4>1. pos = curPos + IntSize /\ ~ (Left(curPos) < IntSize) /\ LengthAtPos(i, curPos)
        BY <1>3, <1>5, <1>7, <2>1, <2>2, <2>3, <3>2, SMTT(30) DEF Left
      <4>2. ReadBytes(pos, FieldSize(i), MaxCharacters * WcharSize)
        BY <1>6, <3>2, <4>1
      <4>3. Shown(i) = IF FieldSize(i) > MaxCharacters * WcharSize
                       THEN MaxCharacters * WcharSize ELSE FieldSize(i)
        BY <1>7, <1>8, <3>2 DEF Shown
      <4> QED
        BY <1>8, <4>2, <4>3
    <3> QED
      BY <3>1, <3>2
  <2>5. /\ got' = Append(got, SubSeq(bytes, pos + 1, pos + Shown(i)))
        /\ curPos' = pos + FieldSize(i) /\ thrown' = thrown
    <3>1. ~ (Left(pos) < FieldSize(i))
      BY <1>3, <1>7, <2>3 DEF Left
    <3> QED
      BY <2>4, <3>1 DEF ReadBytes, Skips
  <2>6. got' = Append(got, Expected(i))
    BY <1>1, <1>8, <2>3, <2>5, ReadsContent
  <2>7. Expected(i) \in Seq(ByteRecords)
    BY <1>8, BytesToPush
  <2>8. /\ got' \in Seq(Seq(ByteRecords)) /\ Len(got') = Len(got) + 1
        /\ \A j \in 1 .. Len(got) : got'[j] = got[j]
        /\ got'[Len(got) + 1] = Expected(i)
    <3>1. got \in Seq(Seq(ByteRecords))
      BY <1>1 DEF BufferTypes
    <3> QED
      BY <2>6, <2>7, <3>1, AppendProperties
  <2>9. BufferTypes'
    <3>1. Len(got') <= pushed
      BY <1>3, <1>4, <1>12, <2>8
    <3> QED
      BY <1>1, <1>6, <2>5, <2>8, <3>1 DEF BufferTypes
  <2>10. ReaderInv(p)'
    <3>1. curPos' = p[i + 1] /\ ~ thrown' /\ Len(got') + 1 = i + 1 /\ writer' = "reads"
      BY <1>3, <1>4, <1>6, <2>3, <2>5, <2>8
    <3>2. ASSUME NEW j \in 1 .. Len(got') PROVE got'[j] = Expected(j)'
      <4>1. j \in 1 .. Len(got) \/ j = i
        BY <1>3, <1>4, <2>8
      <4> QED
        BY <1>4, <1>10, <1>11, <2>8, <4>1
    <3> QED
      BY <3>1, <3>2 DEF ReaderInv
  <2> QED
    BY <1>2, <1>6, <1>9, <2>9, <2>10 DEF DataBufferInv
<1>13. CASE i = pushed + 1
  <2>1. Len(got) = pushed /\ pushed < Len(fields)
    BY <1>3, <1>4, <1>13
  <2>2. \E pos \in 0 .. curLength : Throws(pos)
    <3>1. CASE curLength = p[pushed + 1]
      <4>1. Left(curPos) = 0
        BY <1>3, <1>5, <1>13, <3>1 DEF Left
      <4>2. \/ ~ HasLength(i) /\ FieldSize(i) > 0
               /\ ReadBytes(curPos, FieldSize(i), FieldSize(i))
            \/ Throws(curPos)
        BY <1>6, <1>7, <4>1
      <4>3. Throws(curPos)
        BY <1>7, <4>1, <4>2 DEF ReadBytes
      <4> QED
        BY <1>3, <1>5, <4>3
    <3>2. CASE /\ HasLength(pushed + 1) /\ curLength = p[pushed + 1] + IntSize
               /\ LengthAtPos(pushed + 1, p[pushed + 1]) /\ FieldSize(pushed + 1) > 0
      <4>1. PICK pos \in 0 .. curLength : pos = curPos + IntSize /\ pos = curLength
        BY <1>3, <1>5, <1>7, <1>13, <3>2
      <4>2. /\ HasLength(i) /\ LengthAtPos(i, curPos) /\ FieldSize(i) > 0
            /\ Left(curPos) = IntSize /\ Left(pos) = 0
        BY <1>3, <1>5, <1>7, <1>13, <3>2, <4>1 DEF Left
      <4>3. ReadBytes(pos, FieldSize(i), MaxCharacters * WcharSize)
        BY <1>6, <1>7, <4>1, <4>2
      <4>4. Throws(pos)
        BY <1>7, <4>2, <4>3 DEF ReadBytes
      <4> QED
        BY <4>4
    <3> QED
      BY <1>2, <3>1, <3>2 DEF EndOfBytes
  <2>3. thrown' = TRUE /\ curPos' \in 0 .. curLength /\ got' = got
    BY <2>2 DEF Throws
  <2>4. BufferTypes'
    BY <1>1, <1>6, <2>3 DEF BufferTypes
  <2>5. ReaderInv(p)'
    <3>1. /\ thrown' = TRUE /\ Len(got') = pushed' /\ pushed' < Len(fields')
          /\ writer' = "reads" /\ curPos' \in 0 .. curLength'
      BY <1>3, <1>6, <2>1, <2>3
    <3>2. \A j \in 1 .. Len(got') : got'[j] = Expected(j)'
      BY <1>10, <1>11, <2>3
    <3> QED
      BY <3>1, <3>2 DEF ReaderInv
  <2> QED
    BY <1>2, <1>6, <1>9, <2>4, <2>5 DEF DataBufferInv
<1> QED
  BY <1>3, <1>5, <1>12, <1>13

LEMMA HandOnStep == ASSUME DataBufferInv, HandOn PROVE DataBufferInv'
<1>1. BufferTypes
  BY DEF DataBufferInv
<1>2. PICK p \in [1 .. pushed + 1 -> 0 .. curLength] :
         FieldPositions(p) /\ EndOfBytes(p) /\ ReaderInv(p)
  BY DEF DataBufferInv
<1>3. /\ writer' = "reads"
      /\ UNCHANGED <<fields, pushed, bytes, curLength, curPos, got, thrown>>
  BY DEF HandOn, readerVars
<1>4. BufferTypes'
  BY <1>1, <1>3 DEF BufferTypes
<1>5. FieldPositions(p)'
  BY <1>2, <1>3 DEF FieldPositions, LengthAtPos, FieldAtPos, HasLength, FrontSize, FieldSize, Number
<1>6. EndOfBytes(p)'
  BY <1>2, <1>3 DEF EndOfBytes, LengthAtPos, HasLength, FieldSize, Number
<1>7. ReaderInv(p)'
  <2>1. \A j : Expected(j)' = Expected(j)
    BY <1>3 DEF Expected
  <2> QED
    BY <1>2, <1>3, <2>1 DEF ReaderInv
<1> QED
  BY <1>2, <1>3, <1>4, <1>5, <1>6, <1>7 DEF DataBufferInv

(* An empty buffer, with its reader at the beginning.                         *)
EmptyBuffer ==
  /\ fields \in Seq(FieldKinds) /\ pushed = 0 /\ writer = "pushes" /\ bytes = ZeroMemory
  /\ curLength = 0 /\ curPos = 0 /\ got = <<>> /\ thrown = FALSE

LEMMA EmptyBufferInv == EmptyBuffer => DataBufferInv
<1> SUFFICES ASSUME EmptyBuffer PROVE DataBufferInv
  OBVIOUS
<1>0. /\ fields \in Seq(FieldKinds) /\ pushed = 0 /\ writer = "pushes" /\ bytes = ZeroMemory
      /\ curLength = 0 /\ curPos = 0 /\ got = <<>> /\ thrown = FALSE
  BY DEF EmptyBuffer
<1>1. maxLength \in Nat
  BY DataBufferAssumption
<1>2. bytes \in [1 .. maxLength -> ByteRecords]
  BY <1>0, <1>1 DEF ZeroMemory, BytesOf, ByteRecords
<1>3. /\ got \in Seq(Seq(ByteRecords)) /\ Len(got) = 0 /\ 0 \in 0 .. maxLength
      /\ Len(fields) \in Nat /\ 0 \in 0 .. Len(fields)
  BY <1>0, <1>1
<1>4. BufferTypes
  <2>1. Len(got) <= pushed /\ pushed \in 0 .. Len(fields) /\ curLength \in 0 .. maxLength
    BY <1>0, <1>3
  <2> QED
    BY <1>0, <1>2, <1>3, <2>1 DEF BufferTypes
<1>5. PICK p : p = [j \in 1 .. 0 + 1 |-> 0]
  OBVIOUS
<1>6. p \in [1 .. pushed + 1 -> 0 .. curLength] /\ p[1] = 0
  BY <1>0, <1>5
<1>7. FieldPositions(p)
  BY <1>0, <1>6 DEF FieldPositions
<1>8. EndOfBytes(p)
  BY <1>0, <1>6 DEF EndOfBytes
<1>9. ReaderInv(p)
  BY <1>0, <1>3, <1>6 DEF ReaderInv
<1> QED
  BY <1>4, <1>6, <1>7, <1>8, <1>9 DEF DataBufferInv

LEMMA DataBufferInitInv == DataBufferInit => DataBufferInv
<1> SUFFICES ASSUME DataBufferInit PROVE DataBufferInv
  OBVIOUS
<1>1. fields \in Seq(FieldKinds)
  <2>1. \A m \in Nat : [1 .. m -> FieldKinds] \subseteq Seq(FieldKinds)
    OBVIOUS
  <2>2. \E m \in 0 .. MaxFields : fields \in [1 .. m -> FieldKinds]
    BY DEF DataBufferInit, SeqOf
  <2> QED
    BY <2>1, <2>2, DataBufferAssumption
<1> QED
  BY <1>1, EmptyBufferInv DEF DataBufferInit, EmptyBuffer

LEMMA ResetStep == ASSUME DataBufferInv, reset PROVE DataBufferInv'
<1>1. fields' \in Seq(FieldKinds)
  BY DEF DataBufferInv, BufferTypes, reset
<1>2. /\ pushed' = 0 /\ writer' = "pushes" /\ bytes' = ZeroMemory
      /\ curLength' = 0 /\ curPos' = 0 /\ got' = <<>> /\ thrown' = FALSE
  BY DEF reset
<1>3. EmptyBuffer'
  BY <1>1, <1>2 DEF EmptyBuffer
<1> QED
  BY <1>3, EmptyBufferInv, PTL

LEMMA DataBufferNextInv == DataBufferInv /\ [DataBufferNext]_dataBufferVars => DataBufferInv'
<1> SUFFICES ASSUME DataBufferInv, [DataBufferNext]_dataBufferVars PROVE DataBufferInv'
  OBVIOUS
<1>1. ASSUME UNCHANGED dataBufferVars PROVE DataBufferInv'
  <2>1. UNCHANGED <<fields, pushed, writer, bytes, curLength, curPos, got, thrown>>
    BY <1>1 DEF dataBufferVars, writerVars, readerVars
  <2>2. BufferTypes'
    BY <2>1 DEF DataBufferInv, BufferTypes
  <2>3. PICK p \in [1 .. pushed + 1 -> 0 .. curLength] :
           FieldPositions(p) /\ EndOfBytes(p) /\ ReaderInv(p)
    BY DEF DataBufferInv
  <2>4. FieldPositions(p)'
    BY <2>1, <2>3 DEF FieldPositions, LengthAtPos, FieldAtPos, HasLength, FrontSize, FieldSize, Number
  <2>5. EndOfBytes(p)'
    BY <2>1, <2>3 DEF EndOfBytes, LengthAtPos, HasLength, FieldSize, Number
  <2>6. ReaderInv(p)'
    <3>1. \A j : Expected(j)' = Expected(j)
      BY <2>1 DEF Expected
    <3> QED
      BY <2>1, <2>3, <3>1 DEF ReaderInv
  <2> QED
    BY <2>1, <2>2, <2>3, <2>4, <2>5, <2>6 DEF DataBufferInv
<1> QED
  BY <1>1, PushStep, HandOnStep, ResetStep, ReadStep DEF DataBufferNext

LEMMA DataBufferInvImplies == DataBufferInv => DataBufferTypeOK /\ FieldsInSync
<1> SUFFICES ASSUME DataBufferInv PROVE DataBufferTypeOK /\ FieldsInSync
  OBVIOUS
<1>1. BufferTypes
  BY DEF DataBufferInv
<1>2. PICK p \in [1 .. pushed + 1 -> 0 .. curLength] :
         FieldPositions(p) /\ EndOfBytes(p) /\ ReaderInv(p)
  BY DEF DataBufferInv
<1>3. curPos \in 0 .. curLength
  <2>1. Len(got) + 1 \in 1 .. pushed + 1
    BY <1>1 DEF BufferTypes
  <2>2. p[Len(got) + 1] \in 0 .. curLength
    BY <1>2, <2>1
  <2> QED
    BY <1>1, <1>2, <2>2 DEF ReaderInv, BufferTypes
<1>4. DataBufferTypeOK
  BY <1>1, <1>3 DEF BufferTypes, DataBufferTypeOK
<1>5. DOMAIN got = 1 .. Len(got)
  BY <1>1 DEF BufferTypes
<1>6. FieldsInSync
  BY <1>1, <1>2, <1>5 DEF BufferTypes, ReaderInv, FieldsInSync
<1> QED
  BY <1>4, <1>6

LEMMA DataBufferInductive == DataBufferSpec => []DataBufferInv
BY DataBufferInitInv, DataBufferNextInv, PTL DEF DataBufferSpec

(* DataBuffer: positions and lengths stay inside the buffer.                  *)
THEOREM DataBufferTypes == DataBufferSpec => []DataBufferTypeOK
BY DataBufferInductive, DataBufferInvImplies, PTL

(* ReadOnlyDataBuffer gives back the fields that were pushed completely, each *)
(* with its own bytes, and throws at the field whose push failed, for any     *)
(* buffer, any sizes and any list of fields.                                  *)
THEOREM FieldsStayInSync == DataBufferSpec => []FieldsInSync
BY DataBufferInductive, DataBufferInvImplies, PTL
-----------------------------------------------------------------------------
(* A behaviour of the library is one of each class.                           *)
LEMMA EachClass ==
  Spec => /\ OdbcSpec /\ PoolSpec /\ QueueSpec
          /\ ServiceThreadsSpec /\ DataBufferSpec /\ StreamSpec
<1>1. Init => /\ OdbcInit /\ PoolInit /\ QueueInit /\ ServiceThreadsInit
              /\ DataBufferInit /\ StreamInit
  BY DEF Init
<1>2. [Next]_vars => [OdbcNext]_odbcVars
  BY DEF Next, vars
<1>3. [Next]_vars => [PoolNext]_poolVars
  BY DEF Next, vars
<1>4. [Next]_vars => [QueueNext]_queueVars
  BY DEF Next, vars
<1>5. [Next]_vars => [ServiceThreadsNext]_serviceThreadVars
  BY DEF Next, vars
<1>6. [Next]_vars => [DataBufferNext]_dataBufferVars
  BY DEF Next, vars
<1>7. [Next]_vars => [StreamNext]_streamVars
  BY DEF Next, vars
<1> QED
  BY <1>1, <1>2, <1>3, <1>4, <1>5, <1>6, <1>7, PTL DEF Spec, OdbcSpec, PoolSpec,
     QueueSpec, ServiceThreadsSpec, DataBufferSpec, StreamSpec

(* The fields of every class keep to their types and bounds.                  *)
THEOREM LibraryTypes == Spec => []TypeOK
BY EachClass, OdbcTypes, PoolTypes, QueueInductive, ThreadTypes, DataBufferTypes,
   StreamTypes, PTL DEF QueueIInv, TypeOK
=============================================================================
