----------------------- MODULE TraditionalMemoryPool -----------------------
(* TraditionalMemoryPool.h: blocks of a few sizes, kept in one list for each  *)
(* size when they are not in use.  Every method holds m_EntireSynch from its  *)
(* first look at a list to its end.  A block knows nothing of its size:       *)
(* whoever releases it says how large it was.                                 *)
EXTENDS Integers, Sequences

CONSTANTS Block,    \* the blocks that `new` may return
          BlockSize \* the sizes, in the order in which the methods compare

ASSUME PoolAssumption ==
         /\ BlockSize \in Seq(Nat \ {0}) /\ BlockSize # <<>>
         /\ \A i, j \in DOMAIN BlockSize : i < j => BlockSize[i] < BlockSize[j]

VARIABLES pool,      \* the list of each size
          allocated, \* the size of each block, 0 before it exists
          held       \* the callers: the size that each asked for, 0 if not held

poolVars == <<pool, allocated, held>>

Lists == DOMAIN BlockSize
Sizes == 1 .. BlockSize[Len(BlockSize)]

PoolInit == /\ pool = [i \in Lists |-> <<>>]
            /\ allocated = [b \in Block |-> 0]
            /\ held = [b \in Block |-> 0]

(* The first comparison that is true.                                         *)
ListFor(size) ==
  CHOOSE i \in Lists : /\ BlockSize[i] >= size
                       /\ \A j \in Lists : j < i => BlockSize[j] < size

Reuses_keepsBlock(i, size) ==
  /\ pool[i] # <<>>
  /\ held' = [held EXCEPT ![Head(pool[i])] = size]
  /\ UNCHANGED <<pool, allocated>>

Reuses(i, size) ==
  /\ pool[i] # <<>>
  /\ held' = [held EXCEPT ![Head(pool[i])] = size]
  /\ pool' = [pool EXCEPT ![i] = Tail(pool[i])]
  /\ UNCHANGED allocated

Allocates_asAsked(i, size) ==
  /\ pool[i] = <<>>
  /\ \E b \in Block :
       /\ allocated[b] = 0
       /\ allocated' = [allocated EXCEPT ![b] = size]
       /\ held' = [held EXCEPT ![b] = size]
  /\ UNCHANGED pool

Allocates(i, size) ==
  /\ pool[i] = <<>>
  /\ \E b \in Block :
       /\ allocated[b] = 0
       /\ allocated' = [allocated EXCEPT ![b] = BlockSize[i]]
       /\ held' = [held EXCEPT ![b] = size]
  /\ UNCHANGED pool

(* Sizes that are not in `Sizes` are refused.                                 *)
Retreive == \E size \in Sizes : \/ Reuses(ListFor(size), size)
                                \/ Allocates(ListFor(size), size)

(* By its holder, with the size it asked for.                                 *)
Release == \E b \in Block :
  /\ held[b] # 0
  /\ pool' = [pool EXCEPT ![ListFor(held[b])] = Append(pool[ListFor(held[b])], b)]
  /\ held' = [held EXCEPT ![b] = 0]
  /\ UNCHANGED allocated

PoolNext == Retreive \/ Release

PoolSpec == PoolInit /\ [][PoolNext]_poolVars
-----------------------------------------------------------------------------
PoolTypeOK == /\ pool \in [Lists -> Seq(Block)]
              /\ allocated \in [Block -> {0} \cup {BlockSize[i] : i \in Lists}]
              /\ held \in [Block -> {0} \cup Sizes]

InList(b, i) == \E k \in DOMAIN pool[i] : pool[i][k] = b

(* As long as callers release a block once, with the size they asked for: a   *)
(* block is in no list while it is held, and otherwise at most once in one,   *)
(* that of its size; and it is as large as its holder asked for.              *)
PoolOwnership ==
  /\ \A b \in Block : held[b] # 0 => held[b] <= allocated[b]
  /\ \A i \in Lists : \A k \in DOMAIN pool[i] :
       held[pool[i][k]] = 0 /\ allocated[pool[i][k]] = BlockSize[i]
  /\ \A i \in Lists : \A k, l \in DOMAIN pool[i] : pool[i][k] = pool[i][l] => k = l
=============================================================================
