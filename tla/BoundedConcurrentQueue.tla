----------------------- MODULE BoundedConcurrentQueue -----------------------
(***************************************************************************)
(* utility/BoundedConcurrentQueue.h with the thread/Condition it waits on. *)
(*                                                                         *)
(* Every operation runs under the queue's m_mutex, and all kinds of waiter *)
(* share ONE Condition, a FIFO of the waiters' Events.  A critical section *)
(* (from taking m_mutex to releasing it, by return or inside               *)
(* Condition::wait) is one step: nothing it touches can be read without    *)
(* m_mutex, except the wait queue, from which a timed-out waiter removes   *)
(* itself under the Condition's own mutex; that removal is a step too.     *)
(***************************************************************************)
EXTENDS Naturals, Sequences, FiniteSets

CONSTANTS
    Threads,    \* the threads that use the queue
    Elements,   \* the values that travel through it
    NoElement,  \* "no value": neither argument nor result
    Capacity,   \* m_nCapacity
    MayCall     \* [Threads -> the operations its code calls]

Operations == {"enqueue", "waitDequeue", "tryDequeue", "waitEmpty",
               "waitNotEmpty", "wakeup", "clear"}

ASSUME ThreadAssumption == IsFiniteSet(Threads) /\ Threads # {}
ASSUME CapacityAssumption == Capacity \in Nat \ {0}
ASSUME ElementAssumption == NoElement \notin Elements
ASSUME CallAssumption == MayCall \in [Threads -> SUBSET Operations]

VARIABLES
    elements,   \* m_elements
    waitQueue,  \* m_cond.m_waitQueue, an Event named by the thread that waits on it
    call,       \* [Threads -> the operation a thread is in, or "none"]
    status,     \* [Threads -> where the thread is inside that operation]
    operand     \* [Threads -> the argument of enqueue, then the value returned]

vars == <<elements, waitQueue, call, status, operand>>

(***************************************************************************)
(* status[t]:                                                              *)
(*   "out"      not in an operation of the queue                           *)
(*   "ready"    about to take m_mutex and test the operation's condition   *)
(*   "blocked"  inside Condition::wait or tryWait, its Event not set       *)
(*   "timedOut" its tryWait gave up, but the thread has not yet removed    *)
(*              its Event from the wait queue                              *)
(***************************************************************************)
Statuses == {"out", "ready", "blocked", "timedOut"}

Init ==
    /\ elements = <<>>
    /\ waitQueue = <<>>
    /\ call = [t \in Threads |-> "none"]
    /\ status = [t \in Threads |-> "out"]
    /\ operand = [t \in Threads |-> NoElement]

-----------------------------------------------------------------------------
(* Condition                                                               *)

\* status after thread t moves to s and the Events of the threads in set are
\* set.  A timed-out thread no longer looks at its Event.
SetEvents(t, s, set) ==
    status' = [u \in Threads |->
                  IF u = t THEN s
                  ELSE IF u \in set /\ status[u] = "blocked" THEN "ready"
                  ELSE status[u]]

\* signal() as the last statement of an operation of t
SignalAndReturn(t) ==
    \/ /\ waitQueue = <<>>
       /\ SetEvents(t, "out", {})
       /\ UNCHANGED waitQueue
    \/ /\ waitQueue # <<>>
       /\ SetEvents(t, "out", {Head(waitQueue)})
       /\ waitQueue' = Tail(waitQueue)

\* return without a signal
JustReturn(t) ==
    /\ status' = [status EXCEPT ![t] = "out"]
    /\ UNCHANGED waitQueue

\* mutant: the newest waiter is woken first
WaitInFront(t) ==
    /\ status' = [status EXCEPT ![t] = "blocked"]
    /\ waitQueue' = <<t>> \o waitQueue
    /\ UNCHANGED <<elements, call, operand>>

\* wait and tryWait: the Event is queued before anyone else can signal
Wait(t) ==
    /\ status' = [status EXCEPT ![t] = "blocked"]
    /\ waitQueue' = Append(waitQueue, t)
    /\ UNCHANGED <<elements, call, operand>>

-----------------------------------------------------------------------------
(* The operations: In(t, op) is the code just after the mutex is taken.    *)

In(t, op) == call[t] = op /\ status[t] = "ready"

Finish(t, result) ==
    /\ call' = [call EXCEPT ![t] = "none"]
    /\ operand' = [operand EXCEPT ![t] = result]

\* mutant: an enqueue with nothing to enqueue
InvokeWithoutArgument(t, op, e) ==
    /\ call[t] = "none"
    /\ op \in MayCall[t]
    /\ call' = [call EXCEPT ![t] = op]
    /\ status' = [status EXCEPT ![t] = "ready"]
    /\ operand' = [operand EXCEPT ![t] = e]
    /\ UNCHANGED <<elements, waitQueue>>

\* A thread calls an operation; only enqueue has an argument.
Invoke(t, op, e) ==
    /\ call[t] = "none"
    /\ op \in MayCall[t]
    /\ op = "enqueue" <=> e # NoElement
    /\ call' = [call EXCEPT ![t] = op]
    /\ status' = [status EXCEPT ![t] = "ready"]
    /\ operand' = [operand EXCEPT ![t] = e]
    /\ UNCHANGED <<elements, waitQueue>>

\* mutant: > for >= in the capacity test
EnqueueOffByOne(t) ==
    /\ In(t, "enqueue")
    /\ \/ /\ Len(elements) > Capacity
          /\ Wait(t)
       \/ /\ Len(elements) <= Capacity
          /\ elements' = Append(elements, operand[t])
          /\ SignalAndReturn(t)
          /\ Finish(t, operand[t])

\* void enqueue(const T&): waits, with no timeout, while the queue is full
Enqueue(t) ==
    /\ In(t, "enqueue")
    /\ \/ /\ Len(elements) >= Capacity
          /\ Wait(t)
       \/ /\ Len(elements) < Capacity
          /\ elements' = Append(elements, operand[t])
          /\ SignalAndReturn(t)
          /\ Finish(t, operand[t])

\* T waitDequeue(): waits, 500 ms at a time, while the queue is empty
WaitDequeue(t) ==
    /\ In(t, "waitDequeue")
    /\ \/ /\ elements = <<>>
          /\ Wait(t)
       \/ /\ elements # <<>>
          /\ elements' = Tail(elements)
          /\ SignalAndReturn(t)
          /\ Finish(t, Head(elements))

\* bool tryDequeue(T&): never waits; on an empty queue nobody is signalled
TryDequeue(t) ==
    /\ In(t, "tryDequeue")
    /\ \/ /\ elements = <<>>
          /\ JustReturn(t)
          /\ Finish(t, NoElement)
          /\ UNCHANGED elements
       \/ /\ elements # <<>>
          /\ elements' = Tail(elements)
          /\ SignalAndReturn(t)
          /\ Finish(t, Head(elements))

\* void waitEmpty(): waits in the same wait queue and signals nobody
WaitEmpty(t) ==
    /\ In(t, "waitEmpty")
    /\ \/ /\ elements # <<>>
          /\ Wait(t)
       \/ /\ elements = <<>>
          /\ JustReturn(t)
          /\ Finish(t, NoElement)
          /\ UNCHANGED elements

\* void waitNotEmpty()
WaitNotEmpty(t) ==
    /\ In(t, "waitNotEmpty")
    /\ \/ /\ elements = <<>>
          /\ Wait(t)
       \/ /\ elements # <<>>
          /\ JustReturn(t)
          /\ Finish(t, NoElement)
          /\ UNCHANGED elements

\* void wakeup(): broadcast
Wakeup(t) ==
    /\ In(t, "wakeup")
    /\ SetEvents(t, "out", {waitQueue[i] : i \in DOMAIN waitQueue})
    /\ waitQueue' = <<>>
    /\ Finish(t, NoElement)
    /\ UNCHANGED elements

\* void clear(): makes room and tells nobody
Clear(t) ==
    /\ In(t, "clear")
    /\ elements' = <<>>
    /\ JustReturn(t)
    /\ Finish(t, NoElement)

-----------------------------------------------------------------------------
(* Timeouts                                                                *)

\* mutant: waitEmpty waits without a timeout
TimedCallsButWaitEmpty == {"waitDequeue", "waitNotEmpty"}

TimedCalls == {"waitDequeue", "waitEmpty", "waitNotEmpty"}

\* Event::tryWait returns false after DEF_WAIT_TIME; wait() in enqueue never does
Timeout(t) ==
    /\ call[t] \in TimedCalls
    /\ status[t] = "blocked"
    /\ status' = [status EXCEPT ![t] = "timedOut"]
    /\ UNCHANGED <<elements, waitQueue, call, operand>>

\* mutant: a timed-out wait leaves its Event in the wait queue
WithdrawNothing(t) ==
    /\ status[t] = "timedOut"
    /\ status' = [status EXCEPT ![t] = "ready"]
    /\ UNCHANGED <<elements, waitQueue, call, operand>>

\* Condition::tryWait then removes the Event, unless a signal took it first
Withdraw(t) ==
    /\ status[t] = "timedOut"
    /\ status' = [status EXCEPT ![t] = "ready"]
    /\ \/ \E i \in DOMAIN waitQueue :
             /\ waitQueue[i] = t
             /\ waitQueue' = SubSeq(waitQueue, 1, i - 1)
                               \o SubSeq(waitQueue, i + 1, Len(waitQueue))
       \/ /\ \A i \in DOMAIN waitQueue : waitQueue[i] # t
          /\ UNCHANGED waitQueue
    /\ UNCHANGED <<elements, call, operand>>

-----------------------------------------------------------------------------

\* What a thread does once it has called: its code and the clock
Step(t) ==
    \/ Enqueue(t) \/ WaitDequeue(t) \/ TryDequeue(t) \/ WaitEmpty(t)
    \/ WaitNotEmpty(t) \/ Wakeup(t) \/ Clear(t)
    \/ Timeout(t) \/ Withdraw(t)

Next ==
    \E t \in Threads :
        \/ \E op \in MayCall[t], e \in Elements \cup {NoElement} : Invoke(t, op, e)
        \/ Step(t)

Spec == Init /\ [][Next]_vars

\* The scheduler runs a thread that can run, a mutex does not starve one of its
\* contenders for ever, and timed waits expire.  Nobody is obliged to call.
Fairness == \A t \in Threads : WF_vars(Step(t))

FairSpec == Spec /\ Fairness

-----------------------------------------------------------------------------
(* Properties                                                              *)

HasArgument == \A t \in Threads : call[t] = "enqueue" => operand[t] \in Elements

TypeOK ==
    /\ elements \in Seq(Elements)
    /\ waitQueue \in Seq(Threads)
    /\ call \in [Threads -> Operations \cup {"none"}]
    /\ status \in [Threads -> Statuses]
    /\ operand \in [Threads -> Elements \cup {NoElement}]
    /\ HasArgument

Waiting(t) == \E i \in DOMAIN waitQueue : waitQueue[i] = t

\* Events live on the stacks of the threads that wait.  Signal must never write
\* to the Event of a thread that has left Condition::wait, set one Event twice,
\* or miss a thread that sleeps: the wait queue holds exactly the Events of the
\* threads inside a wait, each at most once (those that timed out may be gone).
EventsAlive ==
    \A i \in DOMAIN waitQueue : status[waitQueue[i]] \in {"blocked", "timedOut"}
EventsDistinct ==
    \A i, j \in DOMAIN waitQueue : waitQueue[i] = waitQueue[j] => i = j
SleepersQueued ==
    \A t \in Threads : status[t] = "blocked" => Waiting(t)

NoDanglingEvent == EventsAlive /\ EventsDistinct /\ SleepersQueued

Stranded(t) == /\ call[t] = "enqueue"
               /\ status[t] = "blocked"
               /\ Len(elements) < Capacity

\* Where one thread does all the dequeuing and no other kind of waiter shares
\* the condition: if a producer sleeps although there is room, some other
\* producer is up, about to enqueue and to pass the signal on.
SignalsReachProducers ==
    \A t \in Threads : Stranded(t) => \E u \in Threads : In(u, "enqueue")

Dequeued(t) ==
    /\ elements # <<>> /\ elements' = Tail(elements)
    /\ WaitDequeue(t) \/ TryDequeue(t)

\* DequeuesReachProducers: as long as elements keep being taken out, every producer that
\* sleeps is woken or finds the queue full: signals go to the oldest waiter.
DequeuesReachProducers ==
    []<><<\E t \in Threads : Dequeued(t)>>_vars => \A t \in Threads : []<>(~Stranded(t))

\* A consumer, or a thread in waitEmpty, stays inside for ever only if the
\* queue is empty (has elements) again and again: a wake-up that a signal to
\* the wrong waiter loses is made up for by the timeout.
TimedWaitersRecover ==
    \A t \in Threads :
        /\ <>[](call[t] = "waitDequeue") => []<>(elements = <<>>)
        /\ <>[](call[t] = "waitEmpty") => []<>(elements # <<>>)
        /\ <>[](call[t] = "waitNotEmpty") => []<>(elements = <<>>)

\* Every operation is one atomic step of a bounded FIFO, taken when its
\* condition holds: nothing lost, nothing returned twice, oldest first.
Abstract == INSTANCE BoundedFifo WITH fifo <- elements, pending <- call

ImplementsFifo == Abstract!Spec

=============================================================================
