--------------------------- MODULE ServiceThreads ---------------------------
(* The threads of a server: AsynchIOService::start, stop and destructor over  *)
(* its workers and their loop Run; and an Acceptor, a Thread by itself, with  *)
(* its loop.  What a worker does with a completion is in AsynchIOService.     *)
(*                                                                            *)
(* The owner of a service has start, stop and delete and no way to wait, so   *)
(* it calls them as it likes, one at a time.  The owner of the Acceptor has   *)
(* the methods of Thread, and waits after Stop before it does anything else.  *)
EXTENDS Thread

CONSTANTS ServiceWorkers,   \* the Thread objects that the constructor makes
          MGAcceptor        \* the Acceptor

ASSUME ServiceThreadsAssumption ==
         /\ ServiceWorkers # {}        \* "conThread must over than 0"
         /\ MGAcceptor \notin ServiceWorkers
         /\ ThreadObjects = ServiceWorkers \cup {MGAcceptor}

VARIABLES call, remaining,  \* of the service under way, the workers it has to do
          waited            \* the owner of the Acceptor has not stopped it since
                            \* it waited
serviceThreadVars == <<threadVars, call, remaining, waited>>

ServiceThreadsInit == ThreadInit /\ call = "none" /\ remaining = {} /\ waited = TRUE
-----------------------------------------------------------------------------
(* The service.                                                               *)
Calls(method) == /\ call = "none"
                 /\ ServiceWorkers \cap deleted = {}
                 /\ call' = method
                 /\ remaining' = ServiceWorkers
                 /\ UNCHANGED <<threadVars, waited>>

ForEach(method, w) == /\ call = method
                      /\ w \in remaining
                      /\ remaining' = remaining \ {w}
                      /\ call' = IF remaining' = {} THEN "none" ELSE method
                      /\ UNCHANGED waited

start(w) == ForEach("start", w) /\ ThreadStart(w)
stop(w) == ForEach("stop", w) /\ ThreadStop(w)
destroy(w) == ForEach("destroy", w) /\ ThreadDelete(w)

IsWorker(x) == x \in Begun /\ parameter[x] \in ServiceWorkers

(* GetQueuedCompletionStatus: a completion, or after 500 ms none.  A port     *)
(* that is closed ends the wait with an error.                                *)
TimesOut_never(x) == FALSE /\ UNCHANGED <<threadVars, call, remaining, waited>>
TimesOut(x) == /\ IsWorker(x) /\ Moves(x, "wait", "test")
               /\ UNCHANGED <<call, remaining, waited>>
GetsCompletion(x) == /\ IsWorker(x) /\ Moves(x, "wait", "work")
                     /\ UNCHANGED <<call, remaining, waited>>
-----------------------------------------------------------------------------
(* The Acceptor.  accept waits until a connection comes or the call fails.    *)
AcceptFails(x) == /\ x \in Begun /\ parameter[x] = MGAcceptor
                  /\ Moves(x, "wait", "test")
                  /\ UNCHANGED <<call, remaining, waited>>
Accepts(x) == /\ x \in Begun /\ parameter[x] = MGAcceptor
              /\ Moves(x, "wait", "work")
              /\ UNCHANGED <<call, remaining, waited>>

(* registerSocket of the Acceptor returns, or what a worker did with its      *)
(* completion is done.                                                        *)
WorkDone(x) == Moves(x, "work", "test") /\ UNCHANGED <<call, remaining, waited>>
Tests(x) == LoopTest(x) /\ UNCHANGED <<call, remaining, waited>>

Starts == ThreadStart(MGAcceptor) /\ UNCHANGED waited
Stops == ThreadStop(MGAcceptor) /\ waited' = FALSE
Waits == ~ waited /\ ThreadWaitFor(MGAcceptor) /\ waited' = TRUE
Deletes == ~ m_IsStarted[MGAcceptor] /\ ThreadDelete(MGAcceptor) /\ UNCHANGED waited

AcceptorOwner == /\ MGAcceptor \notin deleted
                 /\ \/ waited /\ (Starts \/ Deletes)
                    \/ Stops \/ Waits
                    \/ /\ ThreadSuspend(MGAcceptor) \/ ThreadResume(MGAcceptor)
                       /\ UNCHANGED waited
                 /\ UNCHANGED <<call, remaining>>
-----------------------------------------------------------------------------
ServiceThreadsNext ==
  \/ \E method \in {"start", "stop", "destroy"} : Calls(method)
  \/ \E w \in ServiceWorkers : start(w) \/ stop(w) \/ destroy(w)
  \/ \E x \in 1 .. MaxThreads : \/ Tests(x) \/ TimesOut(x) \/ GetsCompletion(x)
                                \/ AcceptFails(x) \/ Accepts(x) \/ WorkDone(x)
  \/ AcceptorOwner

ServiceThreadsSpec == ServiceThreadsInit /\ [][ServiceThreadsNext]_serviceThreadVars

(* Threads run, a wait of 500 ms ends, and so does what is done with a        *)
(* completion.  Nothing is assumed of completions, connections and owners.    *)
ServiceThreadsFairness ==
  \A x \in 1 .. MaxThreads : /\ WF_serviceThreadVars(Tests(x))
                             /\ WF_serviceThreadVars(TimesOut(x))
                             /\ WF_serviceThreadVars(WorkDone(x))
-----------------------------------------------------------------------------
ServiceThreadsTypeOK == /\ ThreadTypeOK
                        /\ call \in {"none", "start", "stop", "destroy"}
                        /\ remaining \subseteq ServiceWorkers
                        /\ waited \in BOOLEAN

(* Thread.cpp: an owner that waits after Stop has at most one thread on the   *)
(* object, the one that m_Handle names, also when it starts it again or       *)
(* beginning one failed; and none runs on it once it is deleted.              *)
OneAcceptLoop ==
  \A x \in Running : parameter[x] = MGAcceptor =>
    /\ m_Handle[MGAcceptor] = x
    /\ MGAcceptor \notin deleted
    /\ waited => m_IsStarted[MGAcceptor]

ServiceStopped == \A w \in ServiceWorkers : w \notin deleted /\ ~ m_IsStarted[w]

(* AsynchIOService::stop: unless the service is started again or deleted, all *)
(* of its loops end, those that an earlier stop and start doubled as well:    *)
(* this is why Run does not wait without a timeout.                           *)
StoppedServiceEnds ==
  ServiceStopped ~> (~ ServiceStopped \/ \A x \in Running : ~ IsWorker(x))
=============================================================================
