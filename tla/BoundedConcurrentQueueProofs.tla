-------------------- MODULE BoundedConcurrentQueueProofs --------------------
(***************************************************************************)
(* Theorems about BoundedConcurrentQueue, for any number of threads, any   *)
(* elements and any capacity.                                              *)
(***************************************************************************)
EXTENDS BoundedConcurrentQueue, FiniteSetTheorems, SequenceTheorems, TLAPS

USE CapacityAssumption, ElementAssumption, CallAssumption

(***************************************************************************)
(* Sequences: what taking one position out of a sequence leaves.           *)
(***************************************************************************)

\* s without its i-th element, as Withdraw leaves it
Without(s, i) == SubSeq(s, 1, i - 1) \o SubSeq(s, i + 1, Len(s))

\* Taking out one position keeps the type, shortens the sequence by one and
\* shifts what follows; it is what Condition::dequeue(Event&) does.
LEMMA WithoutProperties ==
    ASSUME NEW S, NEW s \in Seq(S), NEW i \in 1..Len(s)
    PROVE  /\ Without(s, i) \in Seq(S)
           /\ Len(Without(s, i)) = Len(s) - 1
           /\ \A j \in 1..(Len(s) - 1) :
                 Without(s, i)[j] = IF j < i THEN s[j] ELSE s[j + 1]
<1> DEFINE front == SubSeq(s, 1, i - 1)
           back  == SubSeq(s, i + 1, Len(s))
<1>1. /\ front \in Seq(S) /\ Len(front) = i - 1
      /\ \A j \in 1..(i - 1) : front[j] = s[j]
  BY SubSeqProperties
<1>2. /\ back \in Seq(S) /\ Len(back) = Len(s) - i
      /\ \A j \in 1..(Len(s) - i) : back[j] = s[i + j]
  BY SubSeqProperties
<1> HIDE DEF front, back
<1>3. /\ front \o back \in Seq(S)
      /\ Len(front \o back) = Len(s) - 1
      /\ \A j \in 1..(Len(s) - 1) :
            (front \o back)[j] = IF j <= i - 1 THEN front[j] ELSE back[j - (i - 1)]
  <2>1. Len(front) + Len(back) = Len(s) - 1
    BY <1>1, <1>2
  <2>2. /\ front \o back \in Seq(S)
        /\ Len(front \o back) = Len(front) + Len(back)
        /\ \A j \in 1..(Len(front) + Len(back)) : (front \o back)[j] =
              IF j <= Len(front) THEN front[j] ELSE back[j - Len(front)]
    BY <1>1, <1>2, ConcatProperties
  <2> QED BY <1>1, <2>1, <2>2
<1>4. ASSUME NEW j \in 1..(Len(s) - 1)
      PROVE  (front \o back)[j] = IF j < i THEN s[j] ELSE s[j + 1]
  <2> DEFINE k == j - (i - 1)
  <2>1. /\ i \in Nat /\ j \in Nat /\ Len(s) \in Nat
        /\ (front \o back)[j] = IF j <= i - 1 THEN front[j] ELSE back[k]
    BY <1>3
  <2>2. CASE j < i
    <3>1. j \in 1..(i - 1) /\ j <= i - 1
      BY <2>1, <2>2
    <3> QED BY <3>1, <2>1, <2>2, <1>1, Zenon
  <2>3. CASE ~(j < i)
    <3>1. k \in 1..(Len(s) - i) /\ i + k = j + 1 /\ ~(j <= i - 1)
      BY <2>1, <2>3
    <3> HIDE DEF k
    <3>2. back[k] = s[i + k]
      BY <3>1, <1>2, Zenon
    <3> QED BY <3>1, <3>2, <2>1, <2>3, Zenon
  <2> QED BY <2>2, <2>3
<1> QED BY <1>3, <1>4 DEF Without, front, back

-----------------------------------------------------------------------------
(***************************************************************************)
(* Type correctness.                                                       *)
(***************************************************************************)

\* What the three ways of leaving a critical section do to the wait queue and
\* to the threads in it.
LEMMA WaiterTypes ==
    ASSUME TypeOK, NEW t \in Threads
    PROVE  /\ SignalAndReturn(t) \/ JustReturn(t) \/ Wait(t)
                 => waitQueue' \in Seq(Threads) /\ status' \in [Threads -> Statuses]
           /\ \A set : SetEvents(t, "out", set) => status' \in [Threads -> Statuses]
<1>1. ASSUME NEW set, NEW s \in Statuses, SetEvents(t, s, set)
      PROVE  status' \in [Threads -> Statuses]
  BY <1>1 DEF TypeOK, SetEvents, Statuses
<1>2. SignalAndReturn(t) => status' \in [Threads -> Statuses]
  BY <1>1 DEF SignalAndReturn, Statuses
<1>3. SignalAndReturn(t) => waitQueue' \in Seq(Threads)
  BY SMTT(60), HeadTailProperties DEF TypeOK, SignalAndReturn
<1>4. JustReturn(t) \/ Wait(t)
         => waitQueue' \in Seq(Threads) /\ status' \in [Threads -> Statuses]
  <2>1. JustReturn(t) \/ Wait(t) => status' \in [Threads -> Statuses]
    BY DEF TypeOK, JustReturn, Wait, Statuses
  <2>2. JustReturn(t) \/ Wait(t) => waitQueue' \in Seq(Threads)
    <3>1. Append(waitQueue, t) \in Seq(Threads)
      BY AppendProperties DEF TypeOK
    <3> QED BY <3>1 DEF TypeOK, JustReturn, Wait
  <2> QED BY <2>1, <2>2
<1> QED BY <1>1, <1>2, <1>3, <1>4 DEF Statuses

\* Withdraw takes one position out of the wait queue, or none.
LEMMA WithdrawTypes ==
    ASSUME TypeOK, NEW t \in Threads, Withdraw(t)
    PROVE  waitQueue' \in Seq(Threads)
<1>1. \A i \in DOMAIN waitQueue : Without(waitQueue, i) \in Seq(Threads)
  BY WithoutProperties DEF TypeOK
<1> QED BY <1>1 DEF Withdraw, Without, TypeOK

\* A call that ends leaves no pending enqueue without an argument.
LEMMA FinishTypes ==
    ASSUME TypeOK, NEW t \in Threads, NEW e \in Elements \cup {NoElement}, Finish(t, e)
    PROVE  /\ call' \in [Threads -> Operations \cup {"none"}]
           /\ operand' \in [Threads -> Elements \cup {NoElement}]
           /\ HasArgument'
<1>1. call' \in [Threads -> Operations \cup {"none"}]
  BY DEF TypeOK, Finish
<1>2. operand' \in [Threads -> Elements \cup {NoElement}]
  BY DEF TypeOK, Finish
<1>3. HasArgument'
  BY DEF TypeOK, HasArgument, Finish
<1> QED BY <1>1, <1>2, <1>3

\* Every variable keeps its type, whatever the threads call: in particular
\* only arguments of enqueue ever reach the queue.
THEOREM TypeCorrect == Spec => []TypeOK
<1>1. Init => TypeOK
  BY DEF Init, TypeOK, HasArgument, Operations, Statuses
<1>2. TypeOK /\ [Next]_vars => TypeOK'
  <2> SUFFICES ASSUME TypeOK, [Next]_vars PROVE TypeOK'
    OBVIOUS
  <2>1. ASSUME NEW t \in Threads, NEW op \in MayCall[t],
               NEW e \in Elements \cup {NoElement}, Invoke(t, op, e)
        PROVE  TypeOK'
    <3>1. op \in Operations
      OBVIOUS
    <3>2. HasArgument'
      BY <2>1, <3>1 DEF Invoke, HasArgument, TypeOK
    <3> QED BY <2>1, <3>1, <3>2 DEF Invoke, TypeOK, Statuses
  <2>2. ASSUME NEW t \in Threads, Enqueue(t) PROVE TypeOK'
    <3>1. CASE Wait(t)
      BY <3>1, <2>2, WaiterTypes DEF Wait, TypeOK, HasArgument
    <3>2. CASE /\ elements' = Append(elements, operand[t])
               /\ SignalAndReturn(t)
               /\ Finish(t, operand[t])
      <4>1. operand[t] \in Elements
        BY <2>2 DEF Enqueue, In, TypeOK, HasArgument
      <4>2. elements' \in Seq(Elements)
        BY <3>2, <4>1 DEF TypeOK
      <4> QED BY <3>2, <4>1, <4>2, WaiterTypes, FinishTypes DEF TypeOK
    <3> QED BY <2>2, <3>1, <3>2 DEF Enqueue
  <2>3. ASSUME NEW t \in Threads,
               WaitDequeue(t) \/ TryDequeue(t) \/ WaitEmpty(t) \/ WaitNotEmpty(t)
                 \/ Clear(t)
        PROVE  TypeOK'
    <3>1. CASE Wait(t)
      BY <3>1, <2>3, WaiterTypes DEF Wait, TypeOK, HasArgument
    <3>2. CASE /\ elements # <<>>
               /\ elements' = Tail(elements)
               /\ SignalAndReturn(t)
               /\ Finish(t, Head(elements))
      <4>1. Head(elements) \in Elements /\ elements' \in Seq(Elements)
        BY <3>2 DEF TypeOK
      <4> QED BY <3>2, <4>1, WaiterTypes, FinishTypes DEF TypeOK
    <3>3. CASE /\ JustReturn(t)
               /\ Finish(t, NoElement)
               /\ elements' \in {elements, <<>>}
      <4>1. elements' \in Seq(Elements)
        BY <3>3, EmptySeq DEF TypeOK
      <4> QED BY <3>3, <4>1, WaiterTypes, FinishTypes DEF TypeOK
    <3> QED BY <2>3, <3>1, <3>2, <3>3
            DEF WaitDequeue, TryDequeue, WaitEmpty, WaitNotEmpty, Clear
  <2>4. ASSUME NEW t \in Threads, Wakeup(t) PROVE TypeOK'
    <3>1. waitQueue' \in Seq(Threads) /\ elements' \in Seq(Elements)
      BY <2>4 DEF Wakeup, TypeOK
    <3> QED BY <2>4, <3>1, WaiterTypes, FinishTypes DEF Wakeup, TypeOK
  <2>5. ASSUME NEW t \in Threads, Timeout(t) PROVE TypeOK'
    BY <2>5 DEF Timeout, TypeOK, HasArgument, Statuses
  <2>6. ASSUME NEW t \in Threads, Withdraw(t) PROVE TypeOK'
    <3>1. waitQueue' \in Seq(Threads)
      BY <2>6, WithdrawTypes
    <3> QED BY <2>6, <3>1 DEF Withdraw, TypeOK, HasArgument, Statuses
  <2>7. CASE UNCHANGED vars
    BY <2>7 DEF vars, TypeOK, HasArgument
  <2> QED BY <2>1, <2>2, <2>3, <2>4, <2>5, <2>6, <2>7 DEF Next, Step
<1> QED BY <1>1, <1>2, PTL DEF Spec

-----------------------------------------------------------------------------
(***************************************************************************)
(* No dangling Event.                                                      *)
(***************************************************************************)

\* Where a thread is agrees with what it called, and only a timed wait expires.
CallsConsistent ==
    \A t \in Threads :
        /\ call[t] = "none" <=> status[t] = "out"
        /\ call[t] # "none" => call[t] \in MayCall[t]
        /\ status[t] = "timedOut" => call[t] \in TimedCalls

\* A thread is in an operation exactly while it has called one that its code calls,
\* and only the operations that wait with tryWait time out.
LEMMA CallsStayConsistent == Spec => []CallsConsistent
<1>1. Init => CallsConsistent
  BY DEF Init, CallsConsistent
<1>2. TypeOK /\ CallsConsistent /\ [Next]_vars => CallsConsistent'
  <2> SUFFICES ASSUME TypeOK, CallsConsistent, [Next]_vars PROVE CallsConsistent'
    OBVIOUS
  <2>1. ASSUME NEW t \in Threads, NEW op \in MayCall[t],
               NEW e \in Elements \cup {NoElement}, Invoke(t, op, e)
        PROVE  CallsConsistent'
    <3>1. op # "none"
      BY DEF Operations
    <3> QED BY <2>1, <3>1 DEF Invoke, CallsConsistent, TypeOK
  <2>2. ASSUME NEW t \in Threads, NEW set, NEW e, SetEvents(t, "out", set), Finish(t, e)
        PROVE  CallsConsistent'
    BY <2>2 DEF SetEvents, Finish, CallsConsistent, TypeOK
  <2>3. ASSUME NEW t \in Threads, NEW e, JustReturn(t), Finish(t, e)
        PROVE  CallsConsistent'
    BY <2>3 DEF JustReturn, Finish, CallsConsistent, TypeOK
  <2>4. ASSUME NEW t \in Threads, status[t] = "ready", Wait(t)
        PROVE  CallsConsistent'
    BY <2>4 DEF Wait, CallsConsistent, TypeOK
  <2>5. ASSUME NEW t \in Threads, Timeout(t) \/ Withdraw(t)
        PROVE  CallsConsistent'
    BY <2>5 DEF Timeout, Withdraw, CallsConsistent, TypeOK
  <2>6. ASSUME NEW t \in Threads, Step(t) PROVE CallsConsistent'
    BY <2>2, <2>3, <2>4, <2>5, <2>6
    DEF Step, Enqueue, WaitDequeue, TryDequeue, WaitEmpty, WaitNotEmpty, Clear, Wakeup,
        SignalAndReturn, In
  <2>7. CASE UNCHANGED vars
    BY <2>7 DEF vars, CallsConsistent
  <2> QED BY <2>1, <2>6, <2>7 DEF Next
<1> QED BY <1>1, <1>2, TypeCorrect, PTL DEF Spec

\* NoDanglingEvent of a wait queue q of length n and a status st
Sound(q, n, st) ==
    /\ \A i \in 1..n : st[q[i]] \in {"blocked", "timedOut"}
    /\ \A i, j \in 1..n : q[i] = q[j] => i = j
    /\ \A t \in Threads : st[t] = "blocked" => \E i \in 1..n : q[i] = t

\* Sound, of the current wait queue and statuses, is NoDanglingEvent.
LEMMA SoundIsNoDangling ==
    ASSUME TypeOK
    PROVE  NoDanglingEvent <=> Sound(waitQueue, Len(waitQueue), status)
<1>1. DOMAIN waitQueue = 1..Len(waitQueue)
  BY DEF TypeOK
<1>2. EventsAlive <=> \A i \in 1..Len(waitQueue) : status[waitQueue[i]] \in {"blocked", "timedOut"}
  BY <1>1, Zenon DEF EventsAlive
<1>3. EventsDistinct <=> \A i, j \in 1..Len(waitQueue) : waitQueue[i] = waitQueue[j] => i = j
  BY <1>1, Zenon DEF EventsDistinct
<1>4. SleepersQueued <=> \A t \in Threads :
                            status[t] = "blocked" => \E i \in 1..Len(waitQueue) : waitQueue[i] = t
  BY <1>1, Zenon DEF SleepersQueued, Waiting
<1> QED BY <1>2, <1>3, <1>4, Zenon DEF NoDanglingEvent, Sound

\* The same of the next state's.
LEMMA SoundIsNoDanglingNext ==
    ASSUME TypeOK'
    PROVE  NoDanglingEvent' <=> Sound(waitQueue', Len(waitQueue'), status')
<1>1. DOMAIN waitQueue' = 1..Len(waitQueue')
  BY DEF TypeOK
<1>2. EventsAlive' <=> \A i \in 1..Len(waitQueue') :
                          status'[waitQueue'[i]] \in {"blocked", "timedOut"}
  BY <1>1, Zenon DEF EventsAlive
<1>3. EventsDistinct' <=> \A i, j \in 1..Len(waitQueue') : waitQueue'[i] = waitQueue'[j] => i = j
  BY <1>1, Zenon DEF EventsDistinct
<1>4. SleepersQueued' <=> \A t \in Threads :
                            status'[t] = "blocked" => \E i \in 1..Len(waitQueue') : waitQueue'[i] = t
  BY <1>1, Zenon DEF SleepersQueued, Waiting
<1> QED BY <1>2, <1>3, <1>4, Zenon DEF NoDanglingEvent, Sound

\* Taking the i-th Event out and waking its thread keeps the wait queue sound,
\* if every other thread keeps its status or was not waiting and still is not.
LEMMA RemovalKeepsSound ==
    ASSUME NEW n \in Nat, NEW q, NEW st, NEW i \in 1..n, NEW r, NEW su,
           \A j \in 1..n : q[j] \in Threads,
           \A j \in 1..(n - 1) : r[j] = IF j < i THEN q[j] ELSE q[j + 1],
           Sound(q, n, st),
           su[q[i]] # "blocked",
           \A u \in Threads : u # q[i] =>
               \/ su[u] = st[u]
               \/ st[u] \notin {"blocked", "timedOut"} /\ su[u] # "blocked"
    PROVE  Sound(r, n - 1, su)
<1>1. ASSUME NEW j \in 1..(n - 1)
      PROVE  \E k \in 1..n : /\ k # i /\ r[j] = q[k] /\ k = IF j < i THEN j ELSE j + 1
  BY <1>1
<1>2. \A j \in 1..(n - 1) : su[r[j]] \in {"blocked", "timedOut"}
  <2> SUFFICES ASSUME NEW j \in 1..(n - 1)
               PROVE  su[r[j]] \in {"blocked", "timedOut"}
    OBVIOUS
  <2>1. PICK k \in 1..n : k # i /\ r[j] = q[k]
    BY <1>1
  <2>2. q[k] \in Threads /\ q[k] # q[i] /\ st[q[k]] \in {"blocked", "timedOut"}
    BY <2>1 DEF Sound
  <2> QED BY <2>1, <2>2
<1>3. \A j, k \in 1..(n - 1) : r[j] = r[k] => j = k
  BY DEF Sound
<1>4. ASSUME NEW u \in Threads, su[u] = "blocked"
      PROVE  \E j \in 1..(n - 1) : r[j] = u
  <2>1. u # q[i] /\ st[u] = "blocked"
    BY <1>4
  <2>2. PICK k \in 1..n : q[k] = u
    BY <2>1 DEF Sound
  <2>3. CASE k < i
    BY <2>2, <2>3
  <2>4. CASE k > i
    BY <2>2, <2>4
  <2> QED BY <2>1, <2>2, <2>3, <2>4
<1> QED BY <1>2, <1>3, <1>4 DEF Sound

\* A signal: the head of the wait queue leaves it and wakes.
LEMMA SignalKeepsEvents ==
    ASSUME TypeOK, TypeOK', NoDanglingEvent, NEW t \in Threads, status[t] = "ready",
           SignalAndReturn(t)
    PROVE  NoDanglingEvent'
<1>1. CASE waitQueue = <<>>
  <2>1. /\ waitQueue' = waitQueue
        /\ \A u \in Threads : status'[u] = IF u = t THEN "out" ELSE status[u]
    BY <1>1 DEF SignalAndReturn, SetEvents, TypeOK
  <2> QED BY SMTT(60), <2>1 DEF NoDanglingEvent, EventsAlive, EventsDistinct,
                      SleepersQueued, Waiting, TypeOK
<1>2. CASE waitQueue # <<>>
  <2> DEFINE h == waitQueue[1]
             n == Len(waitQueue)
  <2>1. /\ n \in Nat
        /\ 1 \in 1..n
        /\ Head(waitQueue) = h
        /\ h \in Threads
        /\ \A j \in 1..n : waitQueue[j] \in Threads
    BY <1>2 DEF TypeOK
  <2>2. /\ Len(Tail(waitQueue)) = n - 1
        /\ \A j \in 1..(n - 1) :
              Tail(waitQueue)[j] = IF j < 1 THEN waitQueue[j] ELSE waitQueue[j + 1]
    BY <1>2, HeadTailProperties DEF TypeOK
  <2>3. Sound(waitQueue, n, status)
    BY SoundIsNoDangling
  <2>4. \A u \in Threads :
           status'[u] = IF u = t THEN "out"
                        ELSE IF u = h /\ status[u] = "blocked" THEN "ready"
                        ELSE status[u]
    BY <1>2, <2>1 DEF SignalAndReturn, SetEvents, TypeOK
  <2>5. status'[h] # "blocked"
    BY <2>1, <2>4
  <2> HIDE DEF h
  <2>6. waitQueue[1] = h
    BY DEF h
  <2> HIDE DEF n
  <2>8. Sound(Tail(waitQueue), n - 1, status')
    <3>1. PICK i \in 1..n : i = 1
      BY <2>1
    <3>2. /\ status'[waitQueue[i]] # "blocked"
          /\ \A u \in Threads : u # waitQueue[i] =>
               status'[u] = IF u = t THEN "out" ELSE status[u]
      BY <2>4, <2>5, <2>6, <3>1
    <3> DEFINE r == Tail(waitQueue)
    <3>3. \A j \in 1..(n - 1) :
             r[j] = IF j < i THEN waitQueue[j] ELSE waitQueue[j + 1]
      BY <2>2, <3>1
    <3> HIDE DEF r
    <3>4. Sound(r, n - 1, status')
      BY <2>1, <2>3, <3>2, <3>3, RemovalKeepsSound
    <3> QED BY <3>4 DEF r
  <2>9. waitQueue' = Tail(waitQueue)
    BY <1>2 DEF SignalAndReturn
  <2> QED BY <2>2, <2>8, <2>9, SoundIsNoDanglingNext
<1> QED BY <1>1, <1>2

\* A wait: the thread goes to the back of the wait queue and sleeps.
LEMMA WaitKeepsEvents ==
    ASSUME TypeOK, TypeOK', NoDanglingEvent, NEW t \in Threads, status[t] = "ready",
           Wait(t)
    PROVE  NoDanglingEvent'
<1> DEFINE n == Len(waitQueue)
           q == Append(waitQueue, t)
<1>1. /\ Len(q) = n + 1
      /\ \A i \in 1..n : q[i] = waitQueue[i]
      /\ q[n + 1] = t
      /\ n \in Nat
      /\ \A i \in 1..n : waitQueue[i] \in Threads
  BY AppendProperties DEF TypeOK
<1>2. \A u \in Threads : status'[u] = IF u = t THEN "blocked" ELSE status[u]
  BY DEF Wait, TypeOK
<1>3. Sound(waitQueue, n, status)
  BY SoundIsNoDangling
<1>4. waitQueue' = q
  BY DEF Wait
<1> HIDE DEF n, q
<1>5. \A i \in 1..n : waitQueue[i] # t
  BY <1>3 DEF Sound
<1>6. \A i \in 1..(n + 1) : status'[q[i]] \in {"blocked", "timedOut"}
  BY <1>1, <1>2, <1>3 DEF Sound
<1>7. \A i, j \in 1..(n + 1) : q[i] = q[j] => i = j
  BY <1>1, <1>3, <1>5 DEF Sound
<1>8. ASSUME NEW u \in Threads, status'[u] = "blocked"
      PROVE  \E i \in 1..(n + 1) : q[i] = u
  <2>1. CASE u = t
    BY <1>1, <2>1
  <2>2. CASE u # t
    BY <1>1, <1>2, <1>3, <1>8, <2>2 DEF Sound
  <2> QED BY <2>1, <2>2
<1>9. Sound(q, n + 1, status')
  BY <1>6, <1>7, <1>8 DEF Sound
<1> QED BY <1>1, <1>4, <1>9, SoundIsNoDanglingNext

\* A timed-out thread takes its own Event out, wherever it is.
LEMMA WithdrawKeepsEvents ==
    ASSUME TypeOK, TypeOK', NoDanglingEvent, NEW t \in Threads, Withdraw(t)
    PROVE  NoDanglingEvent'
<1>1. \A u \in Threads : status'[u] = IF u = t THEN "ready" ELSE status[u]
  BY DEF Withdraw, TypeOK
<1>2. status[t] = "timedOut"
  BY DEF Withdraw
<1>3. CASE \A i \in DOMAIN waitQueue : waitQueue[i] # t
  <2>1. waitQueue' = waitQueue
    BY <1>3 DEF Withdraw
  <2> QED BY <1>1, <1>2, <1>3, <2>1
          DEF NoDanglingEvent, EventsAlive, EventsDistinct, SleepersQueued, Waiting,
              TypeOK
<1>4. ASSUME NEW i \in DOMAIN waitQueue, waitQueue[i] = t,
             waitQueue' = Without(waitQueue, i)
      PROVE  NoDanglingEvent'
  <2> DEFINE n == Len(waitQueue)
             r == Without(waitQueue, i)
  <2>1. i \in 1..n /\ n \in Nat /\ \A j \in 1..n : waitQueue[j] \in Threads
    BY DEF TypeOK
  <2>2. /\ Len(r) = n - 1
        /\ \A j \in 1..(n - 1) :
              r[j] = IF j < i THEN waitQueue[j] ELSE waitQueue[j + 1]
    BY <2>1, WithoutProperties DEF TypeOK
  <2>3. Sound(waitQueue, n, status)
    BY SoundIsNoDangling
  <2> HIDE DEF n, r
  <2>4. Sound(r, n - 1, status')
    BY <1>1, <1>4, <2>1, <2>2, <2>3, RemovalKeepsSound
  <2> QED BY <1>4, <2>2, <2>4, SoundIsNoDanglingNext DEF r
<1> QED BY <1>3, <1>4 DEF Withdraw, Without

\* The wait queue holds the Events of threads inside a wait, each once, and of
\* every sleeping thread: signal never touches a dead stack frame, and nobody
\* sleeps out of reach of it.
THEOREM EventsSound == Spec => []NoDanglingEvent
<1>1. Init => NoDanglingEvent
  BY DEF Init, NoDanglingEvent, EventsAlive, EventsDistinct, SleepersQueued
<1>2. TypeOK /\ TypeOK' /\ CallsConsistent /\ NoDanglingEvent /\ [Next]_vars
         => NoDanglingEvent'
  <2> SUFFICES ASSUME TypeOK, TypeOK', CallsConsistent, NoDanglingEvent, [Next]_vars
               PROVE  NoDanglingEvent'
    OBVIOUS
  <2>1. ASSUME NEW t \in Threads, status[t] \notin {"blocked", "timedOut"},
               waitQueue' = waitQueue, NEW s \in {"ready", "out"},
               status' = [status EXCEPT ![t] = s]
        PROVE  NoDanglingEvent'
    BY <2>1 DEF NoDanglingEvent, EventsAlive, EventsDistinct, SleepersQueued, Waiting,
                TypeOK
  <2>2. ASSUME NEW t \in Threads, NEW op \in MayCall[t],
               NEW e \in Elements \cup {NoElement}, Invoke(t, op, e)
        PROVE  NoDanglingEvent'
    BY <2>1, <2>2 DEF Invoke, CallsConsistent
  <2>3. ASSUME NEW t \in Threads, Wakeup(t) PROVE NoDanglingEvent'
    <3>1. \A u \in Threads : status'[u] # "blocked"
      BY <2>3 DEF Wakeup, SetEvents, TypeOK, NoDanglingEvent, SleepersQueued, Waiting
    <3> QED BY <2>3, <3>1 DEF Wakeup, NoDanglingEvent, EventsAlive, EventsDistinct,
                              SleepersQueued
  <2>4. ASSUME NEW t \in Threads, Timeout(t) PROVE NoDanglingEvent'
    BY <2>4 DEF Timeout, TypeOK, NoDanglingEvent, EventsAlive, EventsDistinct,
                SleepersQueued, Waiting
  <2>5. CASE UNCHANGED vars
    BY <2>5 DEF vars, NoDanglingEvent, EventsAlive, EventsDistinct, SleepersQueued,
                Waiting
  <2>6. ASSUME NEW t \in Threads, status[t] = "ready",
               JustReturn(t) \/ SignalAndReturn(t) \/ Wait(t)
        PROVE  NoDanglingEvent'
    BY <2>1, <2>6, SignalKeepsEvents, WaitKeepsEvents DEF JustReturn
  <2>7. ASSUME NEW t \in Threads, Step(t) PROVE NoDanglingEvent'
    BY <2>3, <2>4, <2>6, <2>7, WithdrawKeepsEvents
    DEF Step, Enqueue, WaitDequeue, TryDequeue, WaitEmpty, WaitNotEmpty, Clear, In
  <2> QED BY <2>2, <2>5, <2>7 DEF Next
<1> QED BY <1>1, <1>2, TypeCorrect, CallsStayConsistent, PTL DEF Spec

-----------------------------------------------------------------------------
(***************************************************************************)
(* One dequeuing thread: no producer sleeps unattended next to free room.  *)
(***************************************************************************)

\* How AsyncCommitScheduler uses its queue between calls of waitCommit: c does
\* all the dequeuing, nobody clears the queue or waits for it to be empty.
SoloConsumer(c) ==
    /\ c \in Threads
    /\ MayCall[c] \subseteq {"enqueue", "waitDequeue", "tryDequeue", "wakeup"}
    /\ \A t \in Threads \ {c} : MayCall[t] \subseteq {"enqueue"}

Enqueuing == {t \in Threads : In(t, "enqueue")}

SomeProducerSleeps == \E t \in Threads : call[t] = "enqueue" /\ status[t] = "blocked"

\* While a producer sleeps, the producers that are up can fill the queue: each
\* place a dequeue has freed went with a signal to a producer.
Backed == SomeProducerSleeps => Len(elements) + Cardinality(Enqueuing) >= Capacity

\* Only finitely many producers are up, so they can be counted.
LEMMA EnqueuingFinite ==
    /\ IsFiniteSet(Enqueuing) /\ Cardinality(Enqueuing) \in Nat
    /\ IsFiniteSet(Enqueuing') /\ Cardinality(Enqueuing)' \in Nat
<1>1. Enqueuing \in SUBSET Threads /\ Enqueuing' \in SUBSET Threads
  BY DEF Enqueuing
<1> QED BY <1>1, ThreadAssumption, FS_Subset, FS_CardinalityType

\* Nobody falls asleep, nobody leaves Enqueuing, nothing is dequeued: Backed stays.
LEMMA BackedByMonotonicity ==
    ASSUME TypeOK, TypeOK', Backed, Enqueuing \subseteq Enqueuing',
           SomeProducerSleeps' => SomeProducerSleeps, Len(elements') >= Len(elements)
    PROVE  Backed'
<1>1. Cardinality(Enqueuing) <= Cardinality(Enqueuing')
  BY EnqueuingFinite, FS_Subset
<1>2. Cardinality(Enqueuing)' = Cardinality(Enqueuing')
  OBVIOUS
<1>3. Len(elements) \in Nat /\ Len(elements') \in Nat
  BY DEF TypeOK
<1> QED BY <1>1, <1>2, <1>3, EnqueuingFinite DEF Backed

\* An enqueue uses up one of the producers that were up and one free place.
LEMMA BackedAfterEnqueue ==
    ASSUME TypeOK, TypeOK', CallsConsistent, NoDanglingEvent, Backed,
           NEW t \in Threads, Enqueue(t)
    PROVE  Backed'
<1>0. Len(elements) \in Nat /\ Len(elements') \in Nat
  BY DEF TypeOK
<1>1. CASE Wait(t) /\ Len(elements) >= Capacity
  BY <1>0, <1>1, EnqueuingFinite DEF Backed, Wait
<1>2. CASE /\ elements' = Append(elements, operand[t])
           /\ SignalAndReturn(t)
           /\ Finish(t, operand[t])
  <2>1. Len(elements') = Len(elements) + 1
    BY <1>2, AppendProperties DEF TypeOK, HasArgument, Enqueue, In
  <2>2. \A u \in Threads : u # t => call'[u] = call[u]
    BY <1>2 DEF Finish, TypeOK
  <2>3. \A u \in Threads : u # t /\ status[u] = "ready" => status'[u] = "ready"
    BY <1>2 DEF SignalAndReturn, SetEvents, TypeOK
  <2>4. \A u \in Threads : status'[u] = "blocked" => u # t /\ status[u] = "blocked"
    BY <1>2 DEF SignalAndReturn, SetEvents, TypeOK
  <2>5. SomeProducerSleeps' => SomeProducerSleeps
    BY <2>2, <2>4 DEF SomeProducerSleeps
  <2>6. Enqueuing \ {t} \subseteq Enqueuing'
    BY <2>2, <2>3 DEF Enqueuing, In
  <2>7. Cardinality(Enqueuing \ {t}) >= Cardinality(Enqueuing) - 1
    <3>1. Cardinality(Enqueuing \ {t}) =
             IF t \in Enqueuing THEN Cardinality(Enqueuing) - 1 ELSE Cardinality(Enqueuing)
      BY EnqueuingFinite, FS_RemoveElement
    <3>2. Cardinality(Enqueuing) \in Nat
      BY EnqueuingFinite
    <3> QED BY <3>1, <3>2
  <2>8. Cardinality(Enqueuing \ {t}) <= Cardinality(Enqueuing')
    BY <2>6, EnqueuingFinite, FS_Subset
  <2>9. Cardinality(Enqueuing \ {t}) \in Nat
    BY EnqueuingFinite, FS_RemoveElement, FS_CardinalityType
  <2>10. Cardinality(Enqueuing') \in Nat /\ Cardinality(Enqueuing) \in Nat
    BY EnqueuingFinite
  <2> QED BY <1>0, <2>1, <2>5, <2>7, <2>8, <2>9, <2>10 DEF Backed
<1> QED BY <1>1, <1>2 DEF Enqueue

\* A dequeue by the only consumer wakes a producer if one sleeps: whoever else
\* is in the wait queue can only be a producer.
LEMMA BackedAfterDequeue ==
    ASSUME TypeOK, TypeOK', CallsConsistent, NoDanglingEvent, Backed,
           NEW c, SoloConsumer(c),
           In(c, "waitDequeue") \/ In(c, "tryDequeue"),
           elements # <<>>, elements' = Tail(elements),
           SignalAndReturn(c), Finish(c, Head(elements))
    PROVE  Backed'
<1>0. Len(elements) \in Nat /\ Len(elements') = Len(elements) - 1 /\ c \in Threads
  BY HeadTailProperties DEF TypeOK, SoloConsumer
<1>1. \A u \in Threads : u # c => call'[u] = call[u]
  BY DEF Finish, TypeOK
<1>2. CASE waitQueue = <<>>
  <2>1. \A u \in Threads : status[u] # "blocked"
    BY <1>2 DEF NoDanglingEvent, SleepersQueued, Waiting
  <2>2. ~SomeProducerSleeps'
    BY <1>2, <2>1 DEF SignalAndReturn, SetEvents, SomeProducerSleeps, TypeOK
  <2> QED BY <2>2 DEF Backed
<1>3. CASE waitQueue # <<>>
  <2> DEFINE h == Head(waitQueue)
  <2>1. h \in Threads /\ status[h] \in {"blocked", "timedOut"}
    BY <1>3 DEF TypeOK, NoDanglingEvent, EventsAlive
  <2>2. h # c
    BY <2>1 DEF In
  <2>3. call[h] = "enqueue" /\ status[h] = "blocked"
    BY <2>1, <2>2 DEF CallsConsistent, SoloConsumer, TimedCalls
  <2>4. \A u \in Threads : status'[u] = IF u = c THEN "out"
                                        ELSE IF u = h THEN "ready" ELSE status[u]
    BY <1>3, <2>3 DEF SignalAndReturn, SetEvents, TypeOK
  <2> HIDE DEF h
  <2>5. Enqueuing' = Enqueuing \cup {h}
    BY <1>0, <1>1, <2>1, <2>2, <2>3, <2>4 DEF Enqueuing, In, Finish, TypeOK
  <2>6. Cardinality(Enqueuing') = Cardinality(Enqueuing) + 1
    <3>1. h \notin Enqueuing
      BY <2>3 DEF Enqueuing, In
    <3>2. Cardinality(Enqueuing \cup {h}) = Cardinality(Enqueuing) + 1
      BY <3>1, EnqueuingFinite, FS_AddElement
    <3> QED BY <2>5, <3>2
  <2>7. SomeProducerSleeps
    BY <2>1, <2>3 DEF SomeProducerSleeps
  <2>8. Cardinality(Enqueuing) \in Nat
    BY EnqueuingFinite
  <2> QED BY <1>0, <2>6, <2>7, <2>8 DEF Backed
<1> QED BY <1>2, <1>3

\* With one dequeuing thread and no waitEmpty, a producer that sleeps next to
\* free room is never alone: another one is up and will pass the signal on.
THEOREM SoloSignalsReachProducers ==
    ASSUME NEW c, SoloConsumer(c)
    PROVE  Spec => []SignalsReachProducers
<1>1. Init => Backed
  BY DEF Init, Backed, SomeProducerSleeps
<1>2. /\ TypeOK /\ TypeOK' /\ CallsConsistent /\ NoDanglingEvent
      /\ Backed /\ [Next]_vars
      => Backed'
  <2> SUFFICES ASSUME TypeOK, TypeOK', CallsConsistent, NoDanglingEvent, Backed,
                      [Next]_vars
               PROVE  Backed'
    OBVIOUS
  <2>0. Len(elements) \in Nat /\ c \in Threads
    BY DEF TypeOK, SoloConsumer
  <2>1. ASSUME NEW t \in Threads, NEW op \in MayCall[t],
               NEW e \in Elements \cup {NoElement}, Invoke(t, op, e)
        PROVE  Backed'
    <3>1. Enqueuing \subseteq Enqueuing' /\ (SomeProducerSleeps' => SomeProducerSleeps)
      BY <2>1 DEF Invoke, Enqueuing, In, SomeProducerSleeps, TypeOK
    <3> QED BY <2>0, <2>1, <3>1, BackedByMonotonicity DEF Invoke
  <2>2. ASSUME NEW t \in Threads, In(t, "waitDequeue"), Wait(t)
        PROVE  Backed'
    <3>1. Enqueuing \subseteq Enqueuing' /\ (SomeProducerSleeps' => SomeProducerSleeps)
      BY <2>2 DEF Wait, Enqueuing, In, SomeProducerSleeps, TypeOK
    <3> QED BY <2>0, <2>2, <3>1, BackedByMonotonicity DEF Wait
  <2>3. ASSUME NEW t \in Threads, In(t, "tryDequeue"), JustReturn(t),
               Finish(t, NoElement), UNCHANGED elements
        PROVE  Backed'
    <3>1. Enqueuing \subseteq Enqueuing' /\ (SomeProducerSleeps' => SomeProducerSleeps)
      BY <2>3 DEF JustReturn, Finish, Enqueuing, In, SomeProducerSleeps, TypeOK
    <3> QED BY <2>0, <2>3, <3>1, BackedByMonotonicity
  <2>4. ASSUME NEW t \in Threads, Wakeup(t) PROVE Backed'
    <3>1. \A u \in Threads : status'[u] # "blocked"
      BY <2>4 DEF Wakeup, SetEvents, TypeOK, NoDanglingEvent, SleepersQueued, Waiting
    <3> QED BY <3>1 DEF Backed, SomeProducerSleeps
  <2>5. ASSUME NEW t \in Threads, Timeout(t) \/ Withdraw(t) PROVE Backed'
    <3>1. call[t] \in TimedCalls
      BY <2>5 DEF Timeout, Withdraw, CallsConsistent
    <3>2. Enqueuing \subseteq Enqueuing' /\ (SomeProducerSleeps' => SomeProducerSleeps)
      BY <2>5, <3>1 DEF Timeout, Withdraw, Enqueuing, In, SomeProducerSleeps, TypeOK,
                        TimedCalls
    <3> QED BY <2>0, <2>5, <3>2, BackedByMonotonicity DEF Timeout, Withdraw
  <2>6. ASSUME NEW t \in Threads, Step(t) PROVE Backed'
    <3>1. /\ call[t] \in {"none", "enqueue", "waitDequeue", "tryDequeue", "wakeup"}
          /\ call[t] \in {"waitDequeue", "tryDequeue"} => t = c
      BY DEF CallsConsistent, SoloConsumer
    <3>2. CASE Enqueue(t)
      BY <3>2, BackedAfterEnqueue
    <3>3. CASE WaitDequeue(t) \/ TryDequeue(t)
      BY <2>2, <2>3, <3>1, <3>3, BackedAfterDequeue DEF WaitDequeue, TryDequeue, In
    <3>4. ~(WaitEmpty(t) \/ WaitNotEmpty(t) \/ Clear(t))
      BY <3>1 DEF WaitEmpty, WaitNotEmpty, Clear, In
    <3> QED BY <2>4, <2>5, <2>6, <3>2, <3>3, <3>4 DEF Step
  <2>7. CASE UNCHANGED vars
    <3>1. Enqueuing' = Enqueuing
      BY <2>7 DEF vars, Enqueuing, In
    <3>2. SomeProducerSleeps' => SomeProducerSleeps
      BY <2>7 DEF vars, SomeProducerSleeps
    <3> QED BY <2>0, <2>7, <3>1, <3>2, BackedByMonotonicity DEF vars
  <2> QED BY <2>1, <2>6, <2>7 DEF Next
<1>3. TypeOK /\ Backed => SignalsReachProducers
  <2> SUFFICES ASSUME TypeOK, Backed, NEW t \in Threads, Stranded(t)
               PROVE  \E u \in Threads : In(u, "enqueue")
    BY DEF SignalsReachProducers
  <2>1. Len(elements) + Cardinality(Enqueuing) >= Capacity /\ Len(elements) < Capacity
    BY DEF Stranded, Backed, SomeProducerSleeps
  <2>2. Cardinality(Enqueuing) # 0
    BY <2>1, EnqueuingFinite DEF TypeOK
  <2> QED BY <2>2, EnqueuingFinite, FS_EmptySet DEF Enqueuing
<1> QED BY <1>1, <1>2, <1>3, TypeCorrect, CallsStayConsistent, EventsSound, PTL DEF Spec

-----------------------------------------------------------------------------
(***************************************************************************)
(* The queue implements a bounded FIFO.                                    *)
(***************************************************************************)

\* Every critical section that returns is one step of the abstract FIFO; waits,
\* wake-ups and timeouts are invisible there.
THEOREM RefinesFifo == Spec => ImplementsFifo
<1>1. Init => Abstract!Init
  BY DEF Init, Abstract!Init
<1>2. TypeOK /\ [Next]_vars => [Abstract!Next]_(Abstract!vars)
  <2> SUFFICES ASSUME TypeOK, [Next]_vars PROVE [Abstract!Next]_(Abstract!vars)
    OBVIOUS
  <2>1. ASSUME NEW t \in Threads, NEW op \in MayCall[t],
               NEW e \in Elements \cup {NoElement}, Invoke(t, op, e)
        PROVE  Abstract!Next
    BY <2>1 DEF Invoke, Abstract!Next, Abstract!Invoke
  <2>2. ASSUME NEW t \in Threads, Wait(t) \/ Timeout(t) \/ Withdraw(t)
        PROVE  UNCHANGED Abstract!vars
    BY <2>2 DEF Wait, Timeout, Withdraw, Abstract!vars
  <2>3. ASSUME NEW t \in Threads, Enqueue(t), ~Wait(t) PROVE Abstract!Next
    BY <2>3 DEF Enqueue, In, Finish, Abstract!Next, Abstract!Put, Abstract!Return
  <2>4. ASSUME NEW t \in Threads, WaitDequeue(t) \/ TryDequeue(t), ~Wait(t)
        PROVE  Abstract!Next
    BY <2>4 DEF WaitDequeue, TryDequeue, In, Finish, Abstract!Next, Abstract!Take,
                Abstract!Miss, Abstract!Return
  <2>5. ASSUME NEW t \in Threads, WaitEmpty(t) \/ WaitNotEmpty(t), ~Wait(t)
        PROVE  Abstract!Next
    BY <2>5 DEF WaitEmpty, WaitNotEmpty, In, Finish, Abstract!Next, Abstract!Observe,
                Abstract!Return
  <2>6. ASSUME NEW t \in Threads, Wakeup(t) \/ Clear(t) PROVE Abstract!Next
    BY <2>6 DEF Wakeup, Clear, In, Finish, Abstract!Next, Abstract!Nudge,
                Abstract!Empty, Abstract!Return
  <2>7. CASE UNCHANGED vars
    BY <2>7 DEF vars, Abstract!vars
  <2> QED BY <2>1, <2>2, <2>3, <2>4, <2>5, <2>6, <2>7 DEF Next, Step
<1> QED BY <1>1, <1>2, TypeCorrect, PTL DEF Spec, ImplementsFifo, Abstract!Spec

=============================================================================
