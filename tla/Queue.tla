------------------------------- MODULE Queue -------------------------------
(* Queue.h, with Waiter of Synchronized.h: a queue that is also an event on   *)
(* which consumers wait.  Every method but those of the event holds           *)
(* entireSynch for its whole length.  push sets the event only if the queue   *)
(* was empty, and the event wakes one consumer and resets itself.             *)
EXTENDS Integers, Sequences

CONSTANTS Consumers, Elements, MaxPops

ASSUME QueueAssumption == MaxPops \in Nat \ {0}

VARIABLES data,
          awakeningEvent,
          place,     \* of each consumer
          unpushed   \* elements that producers have still to push

queueVars == <<data, awakeningEvent, place, unpushed>>

QueueInit == /\ data = <<>>
             /\ awakeningEvent = FALSE
             /\ place = [c \in Consumers |-> "wait"]
             /\ unpushed = Elements

push_testsBefore == \E node \in unpushed :
  /\ data' = Append(data, node)
  /\ awakeningEvent' = (awakeningEvent \/ Len(data) = 1)
  /\ unpushed' = unpushed \ {node}
  /\ UNCHANGED place

push == \E node \in unpushed :
  /\ data' = Append(data, node)
  /\ awakeningEvent' = (awakeningEvent \/ Len(data') = 1)
  /\ unpushed' = unpushed \ {node}
  /\ UNCHANGED place

clear == /\ data' = <<>>
         /\ UNCHANGED <<awakeningEvent, place, unpushed>>

(* wait ends when the event is set, which resets it, or after a timeout.      *)
wait(c) ==
  /\ place[c] = "wait"
  /\ awakeningEvent' = FALSE
  /\ place' = [place EXCEPT ![c] = "drain"]
  /\ UNCHANGED <<data, unpushed>>

(* A consumer looks whether the queue is empty, and pops if it is not; by     *)
(* then another one may have emptied it, and pop leaves its output alone.     *)
empty(c) ==
  /\ place[c] = "drain"
  /\ place' = [place EXCEPT ![c] = IF data = <<>> THEN "wait" ELSE "pop"]
  /\ UNCHANGED <<data, awakeningEvent, unpushed>>

pop(c) ==
  /\ place[c] = "pop"
  /\ data' = IF data = <<>> THEN data ELSE Tail(data)
  /\ place' = [place EXCEPT ![c] = "drain"]
  /\ UNCHANGED <<awakeningEvent, unpushed>>

(* Or it takes several at once, until it gets fewer than it asked for.        *)
pops(c) ==
  /\ place[c] = "drain"
  /\ data' = SubSeq(data, MaxPops + 1, Len(data))
  /\ place' = [place EXCEPT ![c] = IF Len(data) < MaxPops THEN "wait" ELSE "drain"]
  /\ UNCHANGED <<awakeningEvent, unpushed>>

QueueNext == \/ push \/ clear
             \/ \E c \in Consumers : wait(c) \/ empty(c) \/ pop(c) \/ pops(c)

QueueSpec == QueueInit /\ [][QueueNext]_queueVars
-----------------------------------------------------------------------------
QueueTypeOK == /\ data \in Seq(Elements) /\ unpushed \subseteq Elements
               /\ awakeningEvent \in BOOLEAN
               /\ place \in [Consumers -> {"wait", "drain", "pop"}]

(* Consumers that go on until they found the queue empty do not sleep while   *)
(* there is something in it: either the event is set, or one of them is on    *)
(* its way, although several elements set the event once and a wake-up may    *)
(* go to a consumer that finds nothing.                                       *)
NobodySleepsOnWork ==
  data # <<>> => awakeningEvent \/ \E c \in Consumers : place[c] # "wait"
=============================================================================
