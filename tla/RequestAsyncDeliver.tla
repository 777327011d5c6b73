------------------------- MODULE RequestAsyncDeliver -------------------------
(***************************************************************************)
(* The proxy's RequestAsyncDeliver: one client hands requests to a pool of *)
(* threads through a bounded queue and waits until all of them have run.   *)
(*                                                                         *)
(* The queue is the one of BoundedConcurrentQueue, used here as the FIFO   *)
(* it implements.  m_nDeliverCount, m_mutex and m_cond are detailed: a     *)
(* request is counted before it is in the queue, and the thread that ran   *)
(* it counts it back.  A client in m_cond.wait leaves it by a broadcast    *)
(* only, for the condition knows no spurious wakeup, and has nothing more  *)
(* to do then, so the broadcast lets it return.                            *)
(*                                                                         *)
(* What running a request means is left to the module that extends this    *)
(* one: its actions lead a thread from "running" to "ran".                 *)
(***************************************************************************)
EXTENDS Integers, Sequences, FiniteSets

CONSTANTS
    Threads,   \* the threads of m_threadPool, each in a Task::run
    Requests,  \* what there is to deliver
    NULL,      \* the null pointer that ends a Task
    QueueSize

ASSUME ThreadsAssumption == IsFiniteSet(Threads)
ASSUME NullAssumption == NULL \notin Requests
ASSUME SizeAssumption == QueueSize \in Nat \ {0}

VARIABLES
    queue,        \* m_queue
    deliverCount, \* m_nDeliverCount
    client,       \* where the client is
    toDeliver,    \* the requests it has still to deliver; in stop, the null pointers
    task,         \* [Threads -> where Task::run is]
    pReq          \* [Threads -> the request each has]

deliverVars == <<queue, deliverCount, client, toDeliver, task, pReq>>

DeliverInit ==
    /\ queue = <<>>
    /\ deliverCount = 0
    /\ client = "idle"
    /\ toDeliver = <<>>
    /\ task = [t \in Threads |-> "waiting"]
    /\ pReq = [t \in Threads |-> NULL]

TaskGoto(t, place) == task' = [task EXCEPT ![t] = place]

-----------------------------------------------------------------------------
(* The client                                                              *)

\* the client has the requests rs to deliver
Begin(rs) ==
    /\ client' = "delivering"
    /\ toDeliver' = rs
    /\ UNCHANGED <<queue, deliverCount, task, pReq>>

\* deliver: ++m_nDeliverCount under m_mutex
Count ==
    /\ client = "delivering"
    /\ toDeliver # <<>>
    /\ deliverCount' = deliverCount + 1
    /\ client' = "counted"
    /\ UNCHANGED <<queue, toDeliver, task, pReq>>

\* deliver: m_queue.enqueue(pReq)
Enqueue ==
    /\ client = "counted"
    /\ Len(queue) < QueueSize
    /\ queue' = Append(queue, Head(toDeliver))
    /\ toDeliver' = Tail(toDeliver)
    /\ client' = "delivering"
    /\ UNCHANGED <<deliverCount, task, pReq>>

\* waitFinish: one test of the counter, not a loop
WaitFinish ==
    /\ client = "delivering"
    /\ toDeliver = <<>>
    /\ client' = IF deliverCount > 0 THEN "waiting" ELSE "finished"
    /\ UNCHANGED <<queue, deliverCount, toDeliver, task, pReq>>

-----------------------------------------------------------------------------
(* Task::run                                                               *)

WaitDequeue(t) ==
    /\ task[t] = "waiting"
    /\ queue # <<>>
    /\ queue' = Tail(queue)
    /\ pReq' = [pReq EXCEPT ![t] = Head(queue)]
    /\ TaskGoto(t, IF Head(queue) = NULL THEN "ended" ELSE "running")
    /\ UNCHANGED <<deliverCount, client, toDeliver>>

\* mutant: the client goes one request too soon
DeliveredTooSoon(t) ==
    /\ task[t] = "ran"
    /\ TaskGoto(t, "waiting")
    /\ pReq' = [pReq EXCEPT ![t] = NULL]
    /\ deliverCount' = deliverCount - 1
    /\ client' = IF deliverCount' <= 1 /\ client = "waiting" THEN "finished" ELSE client
    /\ UNCHANGED <<queue, toDeliver>>

\* mutant: no broadcast at zero
DeliveredSilently(t) ==
    /\ task[t] = "ran"
    /\ TaskGoto(t, "waiting")
    /\ pReq' = [pReq EXCEPT ![t] = NULL]
    /\ deliverCount' = deliverCount - 1
    /\ client' = IF deliverCount' < 0 /\ client = "waiting" THEN "finished" ELSE client
    /\ UNCHANGED <<queue, toDeliver>>

\* delivered(): count back, and let the client go when it was the last request
Delivered(t) ==
    /\ task[t] = "ran"
    /\ TaskGoto(t, "waiting")
    /\ pReq' = [pReq EXCEPT ![t] = NULL]
    /\ deliverCount' = deliverCount - 1
    /\ client' = IF deliverCount' <= 0 /\ client = "waiting" THEN "finished" ELSE client
    /\ UNCHANGED <<queue, toDeliver>>

-----------------------------------------------------------------------------
(* stop(), once the client is idle                                         *)

\* one null pointer for each Task
Stop ==
    /\ client = "idle"
    /\ client' = "stopping"
    /\ toDeliver' = [i \in 1..Cardinality(Threads) |-> NULL]
    /\ UNCHANGED <<queue, deliverCount, task, pReq>>

EnqueueNull ==
    /\ client = "stopping"
    /\ toDeliver # <<>>
    /\ Len(queue) < QueueSize
    /\ queue' = Append(queue, Head(toDeliver))
    /\ toDeliver' = Tail(toDeliver)
    /\ UNCHANGED <<deliverCount, client, task, pReq>>

\* m_queue.waitEmpty(), m_threadPool.joinAll()
JoinAll ==
    /\ client = "stopping"
    /\ toDeliver = <<>>
    /\ queue = <<>>
    /\ \A t \in Threads : task[t] = "ended"
    /\ client' = "stopped"
    /\ UNCHANGED <<queue, deliverCount, toDeliver, task, pReq>>

-----------------------------------------------------------------------------
(* With requests that run in one step, to prove what holds whatever they do *)

BeginAny ==
    /\ client \in {"idle", "finished"}
    /\ \E rs \in Seq(Requests) : Begin(rs)

RunAny(t) ==
    /\ task[t] = "running"
    /\ TaskGoto(t, "ran")
    /\ UNCHANGED <<queue, deliverCount, client, toDeliver, pReq>>

\* waitFinish returns
Finish ==
    /\ client = "finished"
    /\ client' = "idle"
    /\ UNCHANGED <<queue, deliverCount, toDeliver, task, pReq>>

DeliverNext ==
    \/ BeginAny \/ Count \/ Enqueue \/ WaitFinish \/ Finish
    \/ Stop \/ EnqueueNull \/ JoinAll
    \/ \E t \in Threads : WaitDequeue(t) \/ RunAny(t) \/ Delivered(t)

DeliverSpec == DeliverInit /\ [][DeliverNext]_deliverVars

\* Nothing is on its way: no request is counted, queued or being run.
NothingOnItsWay ==
    /\ queue = <<>>
    /\ deliverCount = 0
    /\ \A t \in Threads : task[t] = "waiting"

\* When waitFinish returns, every request that was delivered has run: no thread
\* is still at one, or has one ahead (RequestAsyncDeliver::waitFinish tests the counter
\* once and delivered() broadcasts at zero).
FinishMeansRan == client = "finished" => NothingOnItsWay

=============================================================================
