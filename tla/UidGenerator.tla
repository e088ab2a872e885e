---------------------------- MODULE UidGenerator ----------------------------
(* ULONG_PTRGenerator (MGServerLib/Maths.h) as AsynchSocket uses it: every    *)
(* socket object takes its assockUid here when it is constructed, and the     *)
(* application gives the uid back through releaseSocketUniqueId once it has   *)
(* forgotten the connection.  Both calls run under assockuidGenLock, so each  *)
(* is one step.  The generator itself does not know which numbers are out:    *)
(* `held` is history, the numbers that were retrieved and not yet released.   *)
(* Numbers are unbounded here; the code's ULONG_PTR would wrap after 2^32 or  *)
(* 2^64 numbers were held at the same time.                                   *)
EXTENDS Naturals, Sequences, FiniteSets, Functions

CONSTANTS start,     \* currentNumber before the first retrieve
          multiple,  \* distance of two consecutive new numbers
          MaxHeld    \* bound: numbers held at the same time

ASSUME GeneratorAssumption ==
         /\ start \in Nat
         /\ multiple \in Nat \ {0}

VARIABLES currentNumber, reuseList, held

vars == <<currentNumber, reuseList, held>>

Init == /\ currentNumber = start
        /\ reuseList = <<>>
        /\ held = {}

retrieve_keepsFront(n) ==
  \/ /\ reuseList = <<>>
     /\ n = currentNumber + multiple
     /\ currentNumber' = n
     /\ UNCHANGED reuseList
  \/ /\ reuseList # <<>>
     /\ n = Head(reuseList)
     /\ UNCHANGED <<currentNumber, reuseList>>

(* A number that came back is reused, oldest first; otherwise the counter     *)
(* advances.                                                                  *)
retrieve(n) ==
  \/ /\ reuseList = <<>>
     /\ n = currentNumber + multiple
     /\ currentNumber' = n
     /\ UNCHANGED reuseList
  \/ /\ reuseList # <<>>
     /\ n = Head(reuseList)
     /\ reuseList' = Tail(reuseList)
     /\ UNCHANGED currentNumber

(* releaseASSOCKUID leaves bValid at its default, false: the list is not      *)
(* searched for a number that is already there.                               *)
release(n) ==
  /\ reuseList' = Append(reuseList, n)
  /\ UNCHANGED currentNumber

Retrieve == /\ Cardinality(held) < MaxHeld
            /\ \E n \in 0 .. currentNumber + multiple :
                  retrieve(n) /\ held' = held \cup {n}

(* What the code asks of its callers: only a number one holds is released.    *)
Release == \E n \in held : release(n) /\ held' = held \ {n}

Next == Retrieve \/ Release

Spec == Init /\ [][Next]_vars
-----------------------------------------------------------------------------
(* Types.  No number in circulation is 0, which Run takes for "no key".       *)
TypeOK == /\ currentNumber \in Nat
          /\ reuseList \in Seq(Nat \ {0})
          /\ held \in SUBSET (Nat \ {0})

(* The reuse list has no number twice and none that is still held, and no     *)
(* number was ever issued beyond the counter: this is what makes a uid name   *)
(* one socket although the generator keeps no record of what it handed out.   *)
NoDoubleOwner ==
  /\ IsInjective(reuseList)
  /\ Range(reuseList) \cap held = {}
  /\ \A n \in held \cup Range(reuseList) : n <= currentNumber
=============================================================================
