------------------------------- MODULE Thread -------------------------------
(* Thread.cpp: an object that begins a thread of the operating system on its  *)
(* loop.  The loop reads m_IsStarted of the object each time round, and Stop  *)
(* only clears it; m_Handle names the thread begun last, and WaitFor waits    *)
(* for that one.  Nothing else ties the life of the object to its threads.    *)
EXTENDS Naturals

CONSTANTS ThreadObjects,
          MaxThreads    \* bound: threads begun in a behaviour

ASSUME ThreadAssumption == MaxThreads \in Nat

(* INVALID_HANDLE_VALUE, or the 0 that _beginthreadex returns when it fails.  *)
NoThread == 0
NoObject == "no object"

VARIABLES m_IsStarted, m_Handle,
          deleted,     \* objects that were destroyed
          begun,       \* threads 1 .. begun were begun, in this order
          parameter,   \* of each thread: the object given to handleRunner
          at,          \* of each thread: its place in the loop
          suspended    \* threads that SuspendThread keeps from running

threadVars == <<m_IsStarted, m_Handle, deleted, begun, parameter, at, suspended>>

Begun == 1 .. begun
Running == {x \in Begun : at[x] # "ended"}

ThreadInit == /\ m_IsStarted = [o \in ThreadObjects |-> FALSE]
              /\ m_Handle = [o \in ThreadObjects |-> NoThread]
              /\ deleted = {}
              /\ begun = 0
              /\ parameter = [x \in 1 .. MaxThreads |-> NoObject]
              /\ at = [x \in 1 .. MaxThreads |-> "test"]
              /\ suspended = {}

(* _beginthreadex: the new thread runs from its first test, or there is none. *)
Begins(o) == /\ begun < MaxThreads
             /\ begun' = begun + 1
             /\ m_Handle' = [m_Handle EXCEPT ![o] = begun']
             /\ parameter' = [parameter EXCEPT ![begun'] = o]

BeginFails(o) == /\ m_Handle' = [m_Handle EXCEPT ![o] = NoThread]
                 /\ UNCHANGED <<begun, parameter>>

ThreadStart_always(o) ==
  /\ m_IsStarted' = [m_IsStarted EXCEPT ![o] = TRUE]
  /\ Begins(o) \/ BeginFails(o)
  /\ UNCHANGED <<deleted, at, suspended>>

(* A started object is left alone (ERROR_ALREADY_THREAD).  The flag is set    *)
(* before the thread begins, and stays when it could not.                     *)
ThreadStart(o) ==
  \/ m_IsStarted[o] /\ UNCHANGED threadVars
  \/ /\ ~ m_IsStarted[o]
     /\ m_IsStarted' = [m_IsStarted EXCEPT ![o] = TRUE]
     /\ Begins(o) \/ BeginFails(o)
     /\ UNCHANGED <<deleted, at, suspended>>

ThreadStop(o) == /\ m_IsStarted' = [m_IsStarted EXCEPT ![o] = FALSE]
                 /\ UNCHANGED <<m_Handle, deleted, begun, parameter, at, suspended>>

(* Returns when the thread begun last has ended; at once without a handle.    *)
ThreadWaitFor(o) == m_Handle[o] \notin Running /\ UNCHANGED threadVars

(* The destructor: Join, which is Stop, and CloseHandle.                      *)
ThreadDelete(o) == /\ m_IsStarted' = [m_IsStarted EXCEPT ![o] = FALSE]
                   /\ deleted' = deleted \cup {o}
                   /\ UNCHANGED <<m_Handle, begun, parameter, at, suspended>>

(* Bound: a thread is suspended once before it is resumed.                    *)
ThreadSuspend(o) == /\ m_Handle[o] \in Running \ suspended
                    /\ suspended' = suspended \cup {m_Handle[o]}
                    /\ UNCHANGED <<m_IsStarted, m_Handle, deleted, begun, parameter, at>>

ThreadResume(o) == /\ suspended' = suspended \ {m_Handle[o]}
                   /\ UNCHANGED <<m_IsStarted, m_Handle, deleted, begun, parameter, at>>

(* A step of a thread in its loop.                                            *)
Moves(x, from, to) == /\ x \in Begun \ suspended
                      /\ at[x] = from
                      /\ at' = [at EXCEPT ![x] = to]
                      /\ UNCHANGED <<m_IsStarted, m_Handle, deleted, begun, parameter,
                                     suspended>>

(* The head of the loop.  What IsStart finds in a deleted object is anything. *)
LoopTest(x) ==
  \/ Moves(x, "test", "wait") /\ (m_IsStarted[parameter[x]] \/ parameter[x] \in deleted)
  \/ Moves(x, "test", "ended") /\ ~ m_IsStarted[parameter[x]]

ThreadTypeOK ==
  /\ m_IsStarted \in [ThreadObjects -> BOOLEAN]
  /\ begun \in 0 .. MaxThreads
  /\ m_Handle \in [ThreadObjects -> Begun \cup {NoThread}]
  /\ parameter \in [1 .. MaxThreads -> ThreadObjects \cup {NoObject}]
  /\ \A x \in Begun : parameter[x] \in ThreadObjects
  /\ at \in [1 .. MaxThreads -> {"test", "wait", "work", "ended"}]
  /\ suspended \subseteq Begun /\ deleted \subseteq ThreadObjects
=============================================================================
