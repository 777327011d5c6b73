---------------------- MODULE AsyncCommitSchedulerProofs ----------------------
(***************************************************************************)
(* Proofs about AsyncCommitScheduler for any clients and objects and any   *)
(* size of its queue: what is accepted is committed once and in order,     *)
(* close() leaves nothing, and what waitCommit() can miss.                 *)
(***************************************************************************)
EXTENDS AsyncCommitScheduler, SequenceTheorems, TLAPS

-----------------------------------------------------------------------------
(* The inductive invariant                                                 *)

Called(t, op) == call[t] \in {op, "none"}

\* Where a client is says which operation of the queue it may be in, and with what.
ClientInv ==
    \A t \in Clients :
        /\ pc[t] \in {"idle", "commit", "waitEmpty", "check", "close", "join", "closed"}
        /\ pc[t] \in {"idle", "check", "join", "closed"} => call[t] = "none"
        /\ pc[t] = "commit" =>
              Called(t, "enqueue") /\ (call[t] = "enqueue" => operand[t] \in Objects)
        /\ pc[t] = "waitEmpty" => Called(t, "waitEmpty")
        /\ pc[t] = "close" =>
              Called(t, "enqueue") /\ (call[t] = "enqueue" => operand[t] = Null)

\* The same of the commit thread; the flag and the mutex are its commit() of an object.
ThreadInv ==
    /\ pc[CommitThread] \in {"loop", "take", "committing", "exited"}
    /\ Called(CommitThread, "waitDequeue")
    /\ pc[CommitThread] # "take" => call[CommitThread] = "none"
    /\ pc[CommitThread] = "take" /\ call[CommitThread] = "none"
          => operand[CommitThread] \in Objects \cup {Null}
    /\ pc[CommitThread] = "committing" => operand[CommitThread] \in Objects
    /\ committing <=> pc[CommitThread] = "committing"
    /\ holder = IF committing THEN CommitThread ELSE "none"
    /\ condQueue = <<>>

\* Between the call of close() and the end there is one client in it and none elsewhere.
CloseInv ==
    /\ stopped => \E c \in Clients : /\ pc[c] \in {"close", "join", "closed"}
                                     /\ \A u \in Clients \ {c} : pc[u] = "idle"
    /\ ~stopped => \A c \in Clients : pc[c] \notin {"close", "join", "closed"}

\* The one null pointer is last in the queue, and nobody enqueues after it.
NullInv ==
    /\ \A i \in 1..Len(elements) : elements[i] = Null =>
          /\ i = Len(elements)
          /\ stopped
          /\ \A t \in Clients : call[t] # "enqueue"
    /\ pc[CommitThread] = "take" /\ call[CommitThread] = "none"
          /\ operand[CommitThread] = Null => stopped
    /\ draining => stopped

\* The commit thread ends when all is committed; at most the null pointer comes after it.
ExitInv ==
    /\ pc[CommitThread] = "exited" => stopped /\ Pending = <<>>
    /\ \A t \in Clients : pc[t] = "closed" => pc[CommitThread] = "exited"

\* What waitCommit() promised, once the queue has been found empty.
PromiseInv ==
    \A t \in Clients :
        /\ pc[t] = "waitEmpty" => promised[t] \subseteq Range(accepted)
        /\ pc[t] = "check" \/ (pc[t] = "waitEmpty" /\ call[t] = "none")
              => promised[t] \subseteq Range(committed \o InHand)

Inv == /\ TypeOK /\ ClientInv /\ ThreadInv /\ CloseInv /\ NullInv
       /\ NothingLost /\ ExitInv /\ PromiseInv

-----------------------------------------------------------------------------
(* Sequences: a queue whose null pointer, if it has one, is last           *)

\* what Pending says of any queue
ObjectsOf(s) == IF s # <<>> /\ s[Len(s)] = Null THEN SubSeq(s, 1, Len(s) - 1) ELSE s

NullIsLast(s) == \A i \in 1..Len(s) : s[i] = Null => i = Len(s)

\* What Pending leaves of such a queue is a sequence of objects.
LEMMA ObjectsAreObjects ==
    ASSUME NEW s \in Seq(Objects \cup {Null}), NullIsLast(s)
    PROVE  ObjectsOf(s) \in Seq(Objects)
<1> DEFINE n == IF s # <<>> /\ s[Len(s)] = Null THEN Len(s) - 1 ELSE Len(s)
<1>1. n \in Nat /\ Len(s) \in Nat /\ \A i \in 1..n : s[i] \in Objects
  BY EmptySeq DEF NullIsLast
<1>2. ObjectsOf(s) = SubSeq(s, 1, n)
  BY SubSeqFull DEF ObjectsOf
<1> HIDE DEF n
<1> QED BY <1>1, <1>2, SubSeqProperties

\* enqueue at the back of a queue without null pointer
LEMMA ObjectsOfAppend ==
    ASSUME NEW s \in Seq(Objects \cup {Null}), \A i \in 1..Len(s) : s[i] # Null,
           NEW e \in Objects \cup {Null}
    PROVE  /\ ObjectsOf(s) = s /\ s \in Seq(Objects)
           /\ ObjectsOf(Append(s, e)) = IF e = Null THEN s ELSE s \o <<e>>
           /\ NullIsLast(Append(s, e))
<1>1. ObjectsOf(s) = s /\ s \in Seq(Objects)
  <2>1. ObjectsOf(s) = s
    BY EmptySeq DEF ObjectsOf
  <2> QED BY <2>1, ObjectsAreObjects DEF NullIsLast
<1>2. /\ Append(s, e) \in Seq(Objects \cup {Null}) /\ Len(Append(s, e)) = Len(s) + 1
      /\ Append(s, e)[Len(s) + 1] = e
      /\ \A i \in 1..Len(s) : Append(s, e)[i] = s[i]
  BY AppendProperties
<1>3. NullIsLast(Append(s, e))
  BY <1>2 DEF NullIsLast
<1>4. SubSeq(Append(s, e), 1, Len(s)) = s
  <2>1. /\ SubSeq(Append(s, e), 1, Len(s)) \in Seq(Objects \cup {Null})
        /\ Len(SubSeq(Append(s, e), 1, Len(s))) = Len(s)
        /\ \A i \in 1..Len(s) : SubSeq(Append(s, e), 1, Len(s))[i] = s[i]
    BY <1>2, SubSeqProperties
  <2> QED BY <2>1, SeqEqual
<1>5. Append(s, e) = s \o <<e>>
  BY AppendIsConcat
<1>6. ObjectsOf(Append(s, e)) = IF e = Null THEN s ELSE Append(s, e)
  <2> DEFINE a == Append(s, e)
  <2>1. a # <<>> /\ a[Len(a)] = e /\ SubSeq(a, 1, Len(a) - 1) = s
    BY <1>2, <1>4, AppendProperties
  <2> HIDE DEF a
  <2>2. ObjectsOf(a) = IF e = Null THEN s ELSE a
    BY <2>1 DEF ObjectsOf
  <2> QED BY <2>2 DEF a
<1> QED BY <1>1, <1>3, <1>5, <1>6

\* dequeue from the front
LEMMA ObjectsOfTail ==
    ASSUME NEW s \in Seq(Objects \cup {Null}), s # <<>>, NullIsLast(s)
    PROVE  /\ NullIsLast(Tail(s))
           /\ Head(s) = Null => ObjectsOf(s) = <<>> /\ ObjectsOf(Tail(s)) = <<>>
           /\ Head(s) # Null => ObjectsOf(s) = <<Head(s)>> \o ObjectsOf(Tail(s))
<1> DEFINE r == Tail(s)
<1>1. /\ Len(s) \in Nat \ {0} /\ Head(s) = s[1] /\ Head(s) \in Objects \cup {Null}
      /\ r \in Seq(Objects \cup {Null}) /\ Len(r) = Len(s) - 1
      /\ \A i \in 1..Len(r) : r[i] = s[i + 1]
  BY EmptySeq, HeadTailProperties
<1> HIDE DEF r
<1>2. NullIsLast(r)
  BY <1>1 DEF NullIsLast
<1>3. CASE Head(s) = Null
  <2>1. Len(s) = 1 /\ Len(r) = 0
    BY <1>1, <1>3 DEF NullIsLast
  <2>2. r = <<>>
    BY <1>1, <2>1, EmptySeq
  <2>3. ObjectsOf(s) = SubSeq(s, 1, 0)
    BY <1>1, <1>3, <2>1 DEF ObjectsOf
  <2>4. ObjectsOf(s) = <<>>
    BY <2>3, SubSeqEmpty
  <2> QED BY <1>2, <1>3, <2>2, <2>4 DEF r, ObjectsOf
<1>4. CASE Head(s) # Null
  <2> DEFINE n == IF s[Len(s)] = Null THEN Len(s) - 1 ELSE Len(s)
  <2>1. n \in 1..Len(s) /\ ObjectsOf(s) = SubSeq(s, 1, n)
    BY <1>1, <1>4, SubSeqFull DEF ObjectsOf
  <2>2. ObjectsOf(r) = SubSeq(r, 1, n - 1)
    <3>1. CASE r = <<>>
      <4>0. Len(s) = 1
        <5>1. Len(r) = 0
          BY <3>1, EmptySeq
        <5> QED BY <1>1, <5>1
      <4>1. n = 1
        BY <1>1, <1>4, <4>0
      <4> QED BY <3>1, <4>1, SubSeqEmpty DEF ObjectsOf
    <3>2. CASE r # <<>>
      <4>1. Len(r) \in Nat \ {0} /\ r[Len(r)] = s[Len(s)]
        BY <1>1, <3>2, EmptySeq
      <4> QED BY <1>1, <3>2, <4>1, SubSeqFull DEF ObjectsOf
    <3> QED BY <3>1, <3>2
  <2>3. SubSeq(s, 1, n) = <<s[1]>> \o SubSeq(s, 2, n)
    BY <1>1, <2>1, SubSeqRecursiveFirst
  <2>4. SubSeq(s, 2, n) = SubSeq(r, 1, n - 1)
    <3>1. SubSeq(s, 2, n) \in Seq(Objects \cup {Null}) /\ Len(SubSeq(s, 2, n)) = n - 1
          /\ \A i \in 1..(n - 1) : SubSeq(s, 2, n)[i] = s[i + 1]
      <4>1. \A i \in 2..n : s[i] \in Objects \cup {Null}
        BY <2>1
      <4> HIDE DEF n
      <4>2. n \in Int
        BY <2>1
      <4>3. /\ SubSeq(s, 2, n) \in Seq(Objects \cup {Null})
            /\ Len(SubSeq(s, 2, n)) = IF 2 <= n THEN n - 2 + 1 ELSE 0
            /\ \A i \in 1..(n - 2 + 1) : SubSeq(s, 2, n)[i] = s[2 + i - 1]
        BY <4>1, <4>2, SubSeqProperties
      <4> QED BY <2>1, <4>3
    <3>2. SubSeq(r, 1, n - 1) \in Seq(Objects \cup {Null}) /\ Len(SubSeq(r, 1, n - 1)) = n - 1
          /\ \A i \in 1..(n - 1) : SubSeq(r, 1, n - 1)[i] = s[i + 1]
      <4>1. n - 1 \in 0..Len(r) /\ \A i \in 1..(n - 1) : r[i] \in Objects \cup {Null}
        BY <1>1, <2>1
      <4> HIDE DEF n
      <4>2. /\ SubSeq(r, 1, n - 1) \in Seq(Objects \cup {Null})
            /\ Len(SubSeq(r, 1, n - 1)) = IF 1 <= n - 1 THEN n - 1 - 1 + 1 ELSE 0
            /\ \A i \in 1..(n - 1 - 1 + 1) : SubSeq(r, 1, n - 1)[i] = r[1 + i - 1]
        BY <2>1, <4>1, SubSeqProperties
      <4> QED BY <1>1, <2>1, <4>1, <4>2
    <3> QED BY <3>1, <3>2, SeqEqual
  <2> HIDE DEF n
  <2>5. ObjectsOf(s) = <<Head(s)>> \o ObjectsOf(r)
    BY <1>1, <2>1, <2>2, <2>3, <2>4, Zenon
  <2> QED BY <1>2, <1>4, <2>5, Zenon DEF r
<1> QED BY <1>3, <1>4 DEF r

-----------------------------------------------------------------------------
(* The queue as the scheduler uses it                                      *)

\* All the scheduler does to its queue is to call its operations: what is proved of
\* every use of a BoundedConcurrentQueue holds of m_commitQueue.
THEOREM UsesQueue == Spec => Queue!Spec
<1>1. Init => Queue!Init
  BY DEF Init
<1>2. [Next]_vars => [Queue!Next]_(Queue!vars)
  <2> SUFFICES ASSUME Next PROVE [Queue!Next]_(Queue!vars)
    BY DEF vars, queueVars, Queue!vars
  <2> DEFINE mayCall == [t \in Threads |-> IF t = CommitThread THEN {"waitDequeue"}
                                           ELSE {"enqueue", "waitEmpty"}]
  <2>1. ASSUME NEW t \in Threads, NEW op, NEW e \in Objects \cup {Null, NoElement},
               Queue!Invoke(t, op, e)
        PROVE  Queue!Next
    <3>1. op \in mayCall[t]
      BY <2>1 DEF Queue!Invoke
    <3> QED BY <2>1, <3>1 DEF Queue!Next
  <2>2. ASSUME NEW t \in Threads, QueueStep(t) PROVE Queue!Next
    BY <2>2 DEF QueueStep, Queue!Next
  <2>3. Clients \subseteq Threads /\ CommitThread \in Threads
    BY DEF Threads
  <2>4. UNCHANGED queueVars => UNCHANGED Queue!vars
    BY DEF queueVars, Queue!vars
  <2>5. CASE CommitThreadStep
    BY <2>1, <2>2, <2>3, <2>4, <2>5
       DEF CommitThreadStep, Loop, Drain, TakeNull, BeginCommit, EndCommit
  <2>6. ASSUME NEW t \in Clients, ClientStep(t) PROVE [Queue!Next]_(Queue!vars)
    BY <2>2, <2>3, <2>4, <2>6 DEF ClientStep, Return, CheckCommitting, Join
  <2>7. ASSUME NEW t \in Clients, NEW o \in Objects, Commit(t, o) PROVE Queue!Next
    BY <2>1, <2>3, <2>7 DEF Commit
  <2>8. ASSUME NEW t \in Clients, WaitCommit(t) \/ Close(t) PROVE Queue!Next
    BY <2>1, <2>3, <2>8 DEF WaitCommit, Close
  <2>9. CASE Closed
    BY <2>4, <2>9 DEF Closed, vars
  <2> QED BY <2>5, <2>6, <2>7, <2>8, <2>9 DEF Next
<1> QED BY <1>1, <1>2, PTL DEF Spec, Queue!Spec

\* What a step inside the queue does to elements, call and operand: nothing (it
\* waits, times out or withdraws), or what one of the three operations in use does.
Ended(t, result) ==
    /\ call' = [call EXCEPT ![t] = "none"]
    /\ operand' = [operand EXCEPT ![t] = result]

Quiet == UNCHANGED <<elements, call, operand>>

Enqueued(t) == /\ call[t] = "enqueue"
               /\ elements' = Append(elements, operand[t])
               /\ Ended(t, operand[t])

Dequeued(t) == /\ call[t] = "waitDequeue"
               /\ elements # <<>>
               /\ elements' = Tail(elements)
               /\ Ended(t, Head(elements))

FoundEmpty(t) == /\ call[t] = "waitEmpty"
                 /\ elements = <<>> /\ elements' = elements
                 /\ Ended(t, NoElement)

LEMMA QueueSteps ==
    ASSUME ClientInv, ThreadInv, NEW t \in Threads, Queue!Step(t)
    PROVE  \/ Quiet
           \/ t \in Clients /\ (Enqueued(t) \/ FoundEmpty(t))
           \/ t = CommitThread /\ Dequeued(t)
<1>1. \/ t \in Clients /\ call[t] \in {"none", "enqueue", "waitEmpty"}
      \/ t = CommitThread /\ call[t] \in {"none", "waitDequeue"}
  BY DEF ClientInv, ThreadInv, Called, Threads
<1> USE DEF Quiet, Enqueued, Dequeued, FoundEmpty, Ended, Queue!In, Queue!Wait, Queue!Finish
<1>2. CASE Queue!Enqueue(t)
  BY <1>1, <1>2 DEF Queue!Enqueue
<1>3. CASE Queue!WaitDequeue(t)
  BY <1>1, <1>3 DEF Queue!WaitDequeue
<1>4. CASE Queue!WaitEmpty(t)
  BY <1>1, <1>4 DEF Queue!WaitEmpty
<1>5. CASE Queue!TryDequeue(t) \/ Queue!WaitNotEmpty(t) \/ Queue!Wakeup(t) \/ Queue!Clear(t)
  BY <1>1, <1>5 DEF Queue!TryDequeue, Queue!WaitNotEmpty, Queue!Wakeup, Queue!Clear
<1>6. CASE Queue!Timeout(t) \/ Queue!Withdraw(t)
  BY <1>6 DEF Queue!Timeout, Queue!Withdraw
<1> QED BY <1>2, <1>3, <1>4, <1>5, <1>6 DEF Queue!Step

\* A step inside the queue keeps the types of its wait queue and of the status.
LEMMA WaiterTypes ==
    ASSUME TypeOK, NEW t \in Threads, Queue!Step(t)
    PROVE  waitQueue' \in Seq(Threads) /\ status' \in [Threads -> Queue!Statuses]
<1> USE DEF TypeOK, Queue!TypeOK, Queue!Statuses
<1>1. Queue!SignalAndReturn(t) \/ Queue!JustReturn(t) \/ Queue!Wait(t)
        => status' \in [Threads -> Queue!Statuses]
  BY DEF Queue!SignalAndReturn, Queue!JustReturn, Queue!Wait, Queue!SetEvents
<1>2. Queue!SignalAndReturn(t) => waitQueue' \in Seq(Threads)
  <2>1. waitQueue \in Seq(Threads) /\ (waitQueue # <<>> => Tail(waitQueue) \in Seq(Threads))
    BY HeadTailProperties
  <2> QED BY <2>1 DEF Queue!SignalAndReturn
<1>3. Queue!JustReturn(t) \/ Queue!Wait(t) => waitQueue' \in Seq(Threads)
  <2>1. Append(waitQueue, t) \in Seq(Threads)
    BY AppendProperties
  <2> QED BY <2>1 DEF Queue!JustReturn, Queue!Wait
<1>4. CASE Queue!SignalAndReturn(t) \/ Queue!JustReturn(t) \/ Queue!Wait(t)
  BY <1>1, <1>2, <1>3, <1>4
<1>5. CASE Queue!Wakeup(t)
  BY <1>5, EmptySeq DEF Queue!Wakeup, Queue!SetEvents
<1>6. CASE Queue!Timeout(t)
  BY <1>6 DEF Queue!Timeout
<1>7. CASE Queue!Withdraw(t)
  <2>1. ASSUME NEW i \in DOMAIN waitQueue
        PROVE  SubSeq(waitQueue, 1, i - 1) \o SubSeq(waitQueue, i + 1, Len(waitQueue))
                  \in Seq(Threads)
    <3>1. i \in 1..Len(waitQueue)
      OBVIOUS
    <3>2. /\ SubSeq(waitQueue, 1, i - 1) \in Seq(Threads)
          /\ SubSeq(waitQueue, i + 1, Len(waitQueue)) \in Seq(Threads)
      BY <3>1, SubSeqProperties
    <3> QED BY <3>2, ConcatProperties
  <2> QED BY <1>7, <2>1 DEF Queue!Withdraw
<1> QED BY <1>4, <1>5, <1>6, <1>7
        DEF Queue!Step, Queue!Enqueue, Queue!WaitDequeue, Queue!TryDequeue, Queue!WaitEmpty,
            Queue!WaitNotEmpty, Queue!Clear

-----------------------------------------------------------------------------
(* Each step keeps each part of the invariant.                             *)

\* The commit thread is none of the clients, and not the free mutex.
LEMMA ConstantsDiffer == /\ Clients \subseteq Threads /\ CommitThread \in Threads
                         /\ CommitThread \notin Clients /\ CommitThread # "none"
  BY NameAssumption DEF Threads

\* Clients go through commit, waitCommit and close as written, whatever others do.
LEMMA ClientInvStep == Inv /\ [Next]_vars => ClientInv'
<1> SUFFICES ASSUME Inv, [Next]_vars PROVE ClientInv'
  OBVIOUS
<1> USE ConstantsDiffer
        DEF Inv, TypeOK, Queue!TypeOK, ClientInv, ThreadInv, Called, Goto,
            queueVars, flagVars, historyVars
<1>1. ASSUME NEW t \in Clients, NEW o \in Objects, Commit(t, o) PROVE ClientInv'
  BY <1>1 DEF Commit, Queue!Invoke
<1>2. ASSUME NEW t \in Clients, WaitCommit(t) PROVE ClientInv'
  BY <1>2 DEF WaitCommit, Queue!Invoke
<1>3. ASSUME NEW t \in Clients, Close(t) PROVE ClientInv'
  BY <1>3 DEF Close, Queue!Invoke
<1>4. ASSUME NEW t \in Clients, Return(t) PROVE ClientInv'
  BY <1>4 DEF Return
<1>5. ASSUME NEW t \in Clients, CheckCommitting(t) PROVE ClientInv'
  BY <1>5 DEF CheckCommitting
<1>6. ASSUME NEW t \in Clients, Join(t) PROVE ClientInv'
  BY <1>6 DEF Join
<1>7. CASE Loop
  BY <1>7 DEF Loop, Queue!Invoke
<1>8. CASE Drain
  BY <1>8 DEF Drain, Queue!Invoke
<1>9. CASE TakeNull
  BY <1>9 DEF TakeNull
<1>10. CASE BeginCommit
  BY <1>10 DEF BeginCommit
<1>11. CASE EndCommit
  BY <1>11 DEF EndCommit, Signalled
<1>12. CASE UNCHANGED vars \/ Closed
  BY <1>12 DEF Closed, vars
<1>13. ASSUME NEW t \in Threads, QueueStep(t) PROVE ClientInv'
  BY <1>13, QueueSteps DEF QueueStep, Quiet, Enqueued, Dequeued, FoundEmpty, Ended
<1> QED BY <1>1, <1>2, <1>3, <1>4, <1>5, <1>6, <1>7, <1>8, <1>9, <1>10, <1>11, <1>12, <1>13
        DEF Next, CommitThreadStep, ClientStep

\* The commit thread alone holds m_mutex, and just while the flag is set.
LEMMA ThreadInvStep == Inv /\ [Next]_vars => ThreadInv'
<1> SUFFICES ASSUME Inv, [Next]_vars PROVE ThreadInv'
  OBVIOUS
<1> USE ConstantsDiffer
        DEF Inv, TypeOK, Queue!TypeOK, ClientInv, ThreadInv, Called, Goto,
            queueVars, flagVars, historyVars
<1>1. ASSUME NEW t \in Clients, NEW o \in Objects, Commit(t, o) PROVE ThreadInv'
  BY <1>1 DEF Commit, Queue!Invoke
<1>2. ASSUME NEW t \in Clients, WaitCommit(t) PROVE ThreadInv'
  BY <1>2 DEF WaitCommit, Queue!Invoke
<1>3. ASSUME NEW t \in Clients, Close(t) PROVE ThreadInv'
  BY <1>3 DEF Close, Queue!Invoke
<1>4. ASSUME NEW t \in Clients, Return(t) PROVE ThreadInv'
  BY <1>4 DEF Return
<1>5. ASSUME NEW t \in Clients, CheckCommitting(t) PROVE ThreadInv'
  BY <1>5 DEF CheckCommitting
<1>6. ASSUME NEW t \in Clients, Join(t) PROVE ThreadInv'
  BY <1>6 DEF Join
<1>7. CASE Loop
  BY <1>7 DEF Loop, Queue!Invoke
<1>8. CASE Drain
  BY <1>8 DEF Drain, Queue!Invoke
<1>9. CASE TakeNull
  BY <1>9 DEF TakeNull
<1>10. CASE BeginCommit
  BY <1>10 DEF BeginCommit
<1>11. CASE EndCommit
  BY <1>11 DEF EndCommit, Signalled
<1>12. CASE UNCHANGED vars \/ Closed
  BY <1>12 DEF Closed, vars
<1>13. ASSUME NEW t \in Threads, QueueStep(t) PROVE ThreadInv'
  <2>1. elements # <<>> => Head(elements) \in Objects \cup {Null}
    BY HeadTailProperties
  <2> QED BY <1>13, <2>1, QueueSteps
          DEF QueueStep, Quiet, Enqueued, Dequeued, FoundEmpty, Ended
<1> QED BY <1>1, <1>2, <1>3, <1>4, <1>5, <1>6, <1>7, <1>8, <1>9, <1>10, <1>11, <1>12, <1>13
        DEF Next, CommitThreadStep, ClientStep

\* One client closes, when no other is in a call.
LEMMA CloseInvStep == Inv /\ [Next]_vars => CloseInv'
<1> SUFFICES ASSUME Inv, [Next]_vars PROVE CloseInv'
  OBVIOUS
<1> USE ConstantsDiffer
        DEF Inv, TypeOK, ClientInv, ThreadInv, CloseInv, Called, Goto,
            queueVars, flagVars, historyVars
<1>1. ASSUME NEW t \in Clients, NEW o \in Objects, Commit(t, o) PROVE CloseInv'
  BY <1>1 DEF Commit, Queue!Invoke
<1>2. ASSUME NEW t \in Clients, WaitCommit(t) PROVE CloseInv'
  BY <1>2 DEF WaitCommit, Queue!Invoke
<1>3. ASSUME NEW t \in Clients, Close(t) PROVE CloseInv'
  BY <1>3 DEF Close, Queue!Invoke
<1>4. ASSUME NEW t \in Clients, Return(t) PROVE CloseInv'
  BY <1>4 DEF Return
<1>5. ASSUME NEW t \in Clients, CheckCommitting(t) PROVE CloseInv'
  BY <1>5 DEF CheckCommitting
<1>6. ASSUME NEW t \in Clients, Join(t) PROVE CloseInv'
  BY <1>6 DEF Join
<1>7. CASE Loop
  BY <1>7 DEF Loop, Queue!Invoke
<1>8. CASE Drain
  BY <1>8 DEF Drain, Queue!Invoke
<1>9. CASE TakeNull
  BY <1>9 DEF TakeNull
<1>10. CASE BeginCommit
  BY <1>10 DEF BeginCommit
<1>11. CASE EndCommit
  BY <1>11 DEF EndCommit, Signalled
<1>12. CASE UNCHANGED vars \/ Closed
  BY <1>12 DEF Closed, vars
<1>13. ASSUME NEW t \in Threads, QueueStep(t) PROVE CloseInv'
  BY <1>13, QueueSteps DEF QueueStep, Quiet, Enqueued, Dequeued, FoundEmpty, Ended
<1> QED BY <1>1, <1>2, <1>3, <1>4, <1>5, <1>6, <1>7, <1>8, <1>9, <1>10, <1>11, <1>12, <1>13
        DEF Next, CommitThreadStep, ClientStep

\* The null pointer is enqueued once, last, by the client that closes.
LEMMA NullInvStep == Inv /\ [Next]_vars => NullInv'
<1> SUFFICES ASSUME Inv, [Next]_vars PROVE NullInv'
  OBVIOUS
<1> USE ConstantsDiffer
        DEF Inv, TypeOK, Queue!TypeOK, ClientInv, ThreadInv, CloseInv, NullInv, Called, Goto,
            queueVars, flagVars, historyVars
<1>1. ASSUME NEW t \in Clients, NEW o \in Objects, Commit(t, o) PROVE NullInv'
  BY <1>1 DEF Commit, Queue!Invoke
<1>2. ASSUME NEW t \in Clients, WaitCommit(t) PROVE NullInv'
  BY <1>2 DEF WaitCommit, Queue!Invoke
<1>3. ASSUME NEW t \in Clients, Close(t) PROVE NullInv'
  BY <1>3 DEF Close, Queue!Invoke
<1>4. ASSUME NEW t \in Clients, Return(t) PROVE NullInv'
  BY <1>4 DEF Return
<1>5. ASSUME NEW t \in Clients, CheckCommitting(t) PROVE NullInv'
  BY <1>5 DEF CheckCommitting
<1>6. ASSUME NEW t \in Clients, Join(t) PROVE NullInv'
  BY <1>6 DEF Join
<1>7. CASE Loop
  BY <1>7 DEF Loop, Queue!Invoke
<1>8. CASE Drain
  BY <1>8 DEF Drain, Queue!Invoke
<1>9. CASE TakeNull
  BY <1>9 DEF TakeNull
<1>10. CASE BeginCommit
  BY <1>10 DEF BeginCommit
<1>11. CASE EndCommit
  BY <1>11 DEF EndCommit, Signalled
<1>12. CASE UNCHANGED vars \/ Closed
  BY <1>12 DEF Closed, vars
<1>13. ASSUME NEW t \in Threads, QueueStep(t) PROVE NullInv'
  <2>0. Len(elements) \in Nat /\ NullIsLast(elements)
    BY DEF NullIsLast
  <2>1. CASE Quiet
    BY <1>13, <2>1 DEF QueueStep, Quiet
  <2>2. CASE t \in Clients /\ Enqueued(t)
    <3>0. operand[t] \in Objects \/ (operand[t] = Null /\ pc[t] = "close")
      BY <2>2 DEF Enqueued
    <3>1. /\ operand[t] \in Objects \cup {Null}
          /\ \A i \in 1..Len(elements) : elements[i] # Null
          /\ operand[t] = Null => stopped /\ \A u \in Clients \ {t} : call[u] = "none"
      <4>1. \A i \in 1..Len(elements) : elements[i] # Null
        BY <2>2 DEF Enqueued
      <4>2. ASSUME pc[t] = "close"
            PROVE  stopped /\ \A u \in Clients \ {t} : pc[u] = "idle"
        <5>1. stopped
          BY <2>2, <4>2
        <5>2. PICK c \in Clients : /\ pc[c] \in {"close", "join", "closed"}
                                  /\ \A u \in Clients \ {c} : pc[u] = "idle"
          BY <5>1
        <5>3. c = t
          BY <2>2, <4>2, <5>2
        <5> QED BY <5>1, <5>2, <5>3
      <4>3. pc[t] = "close" => stopped /\ \A u \in Clients \ {t} : call[u] = "none"
        BY <4>2
      <4> QED BY <3>0, <4>1, <4>3, NameAssumption
    <3>2. /\ Len(elements') = Len(elements) + 1
          /\ elements'[Len(elements) + 1] = operand[t]
          /\ \A i \in 1..Len(elements) : elements'[i] = elements[i]
      BY <2>2, <3>1, AppendProperties DEF Enqueued
    <3> QED BY <1>13, <2>0, <2>2, <3>1, <3>2 DEF QueueStep, Enqueued, Ended
  <2>3. CASE t \in Clients /\ FoundEmpty(t)
    BY <1>13, <2>3 DEF QueueStep, FoundEmpty, Ended
  <2>4. CASE t = CommitThread /\ Dequeued(t)
    <3>1. /\ Len(elements') = Len(elements) - 1 /\ Len(elements) \in Nat \ {0}
          /\ \A i \in 1..Len(elements') : elements'[i] = elements[i + 1]
          /\ Head(elements) = elements[1]
      BY <2>4, HeadTailProperties, EmptySeq DEF Dequeued
    <3>2. /\ pc' = pc /\ stopped' = stopped /\ draining' = draining
          /\ call' = [call EXCEPT ![t] = "none"]
          /\ operand' = [operand EXCEPT ![t] = Head(elements)]
      BY <1>13, <2>4 DEF QueueStep, Dequeued, Ended
    <3>3. ASSUME NEW i \in 1..Len(elements'), elements'[i] = Null
          PROVE  i = Len(elements') /\ stopped' /\ \A u \in Clients : call'[u] # "enqueue"
      <4>1. i + 1 \in 1..Len(elements) /\ elements[i + 1] = Null
        BY <3>1, <3>3
      <4> QED BY <3>1, <3>2, <4>1
    <3>4. operand'[CommitThread] = Null => stopped'
      BY <2>4, <3>1, <3>2
    <3> QED BY <3>2, <3>3, <3>4
  <2> QED BY <1>13, <2>1, <2>2, <2>3, <2>4, QueueSteps DEF QueueStep
<1> QED BY <1>1, <1>2, <1>3, <1>4, <1>5, <1>6, <1>7, <1>8, <1>9, <1>10, <1>11, <1>12, <1>13
        DEF Next, CommitThreadStep, ClientStep

\* The way of an object: into the queue, into the commit thread's hand, committed.
Gone == committed \o InHand

Stays == accepted' = accepted /\ Gone' = Gone /\ Pending' = Pending
Enters(o) == accepted' = accepted \o <<o>> /\ Gone' = Gone /\ Pending' = Pending \o <<o>>
Leaves(o) == accepted' = accepted /\ Gone' = Gone \o <<o>> /\ Pending = <<o>> \o Pending'
Flow == Stays \/ \E o \in Objects : Enters(o) \/ Leaves(o)

\* Where an object may be, as sequences of objects.
LEMMA FlowTypes ==
    ASSUME TypeOK, ThreadInv, NullInv
    PROVE  /\ Pending = ObjectsOf(elements) /\ Pending \in Seq(Objects)
           /\ InHand \in Seq(Objects) /\ Gone \in Seq(Objects)
<1>1. elements \in Seq(Objects \cup {Null}) /\ NullIsLast(elements)
  BY DEF TypeOK, Queue!TypeOK, NullInv, NullIsLast
<1>2. Pending = ObjectsOf(elements)
  BY DEF Pending, ObjectsOf
<1>3. InHand \in Seq(Objects)
  BY DEF InHand, ThreadInv
<1> QED BY <1>1, <1>2, <1>3, ObjectsAreObjects, ConcatProperties DEF Gone, TypeOK

\* The same after a step.
LEMMA FlowTypesNext ==
    ASSUME TypeOK', ThreadInv', NullInv'
    PROVE  Pending' \in Seq(Objects) /\ Gone' \in Seq(Objects)
<1>1. elements' \in Seq(Objects \cup {Null}) /\ NullIsLast(elements')
  BY DEF TypeOK, Queue!TypeOK, NullInv, NullIsLast
<1>2. Pending' = ObjectsOf(elements')
  BY DEF Pending, ObjectsOf
<1>3. InHand' \in Seq(Objects)
  BY DEF InHand, ThreadInv
<1> QED BY <1>1, <1>2, <1>3, ObjectsAreObjects, ConcatProperties DEF Gone, TypeOK

\* Every step moves at most one object, from one end of the way to the next place.
LEMMA EveryStepFlows == Inv /\ [Next]_vars => Flow
<1> SUFFICES ASSUME Inv, [Next]_vars PROVE Flow
  OBVIOUS
<1> USE ConstantsDiffer
        DEF Inv, TypeOK, Queue!TypeOK, ClientInv, ThreadInv, Called, Goto,
            queueVars, flagVars, historyVars, Flow, Stays, Gone, Pending, InHand
<1>1. ASSUME NEW t \in Clients, NEW o \in Objects, Commit(t, o) PROVE Flow
  BY <1>1 DEF Commit, Queue!Invoke
<1>2. ASSUME NEW t \in Clients, WaitCommit(t) PROVE Flow
  BY <1>2 DEF WaitCommit, Queue!Invoke
<1>3. ASSUME NEW t \in Clients, Close(t) PROVE Flow
  BY <1>3 DEF Close, Queue!Invoke
<1>4. ASSUME NEW t \in Clients, Return(t) PROVE Flow
  BY <1>4 DEF Return
<1>5. ASSUME NEW t \in Clients, CheckCommitting(t) PROVE Flow
  BY <1>5 DEF CheckCommitting
<1>6. ASSUME NEW t \in Clients, Join(t) PROVE Flow
  BY <1>6 DEF Join
<1>7. CASE Loop
  BY <1>7 DEF Loop, Queue!Invoke
<1>8. CASE Drain
  BY <1>8 DEF Drain, Queue!Invoke
<1>9. CASE TakeNull
  BY <1>9 DEF TakeNull
<1>10. CASE BeginCommit
  BY <1>10 DEF BeginCommit
<1>11. CASE EndCommit
  <2>1. operand[CommitThread] \in Objects /\ InHand = <<operand[CommitThread]>> /\ InHand' = <<>>
    BY <1>11, NameAssumption DEF EndCommit, Signalled
  <2>2. committed' = committed \o InHand /\ committed' \in Seq(Objects)
    BY <1>11, <2>1, AppendIsConcat, AppendProperties DEF EndCommit
  <2>3. Gone' = Gone
    BY <2>1, <2>2, ConcatEmptySeq
  <2> QED BY <1>11, <2>3 DEF EndCommit
<1>12. CASE UNCHANGED vars \/ Closed
  BY <1>12 DEF Closed, vars
<1>13. ASSUME NEW t \in Threads, QueueStep(t) PROVE Flow
  <2>0. NullIsLast(elements) /\ Pending = ObjectsOf(elements) /\ Pending' = ObjectsOf(elements')
    BY DEF NullInv, NullIsLast, ObjectsOf
  <2>1. CASE Quiet
    BY <1>13, <2>1 DEF QueueStep, Quiet, Taken
  <2>2. CASE t \in Clients /\ Enqueued(t)
    <3>1. /\ operand[t] \in Objects \cup {Null}
          /\ \A i \in 1..Len(elements) : elements[i] # Null
      BY <2>2 DEF NullInv, Enqueued
    <3>2. /\ elements' # <<>> /\ Len(elements') = Len(elements) + 1
          /\ elements'[Len(elements')] = operand[t]
      BY <2>2, <3>1, AppendProperties DEF Enqueued
    <3>3. Gone' = Gone
      BY <1>13, <2>2 DEF QueueStep, Enqueued, Ended
    <3>4. CASE operand[t] = Null
      <4>1. Taken = <<>>
        BY <3>2, <3>4 DEF Taken
      <4>2. accepted' = accepted
        BY <1>13, <4>1, ConcatEmptySeq DEF QueueStep
      <4>3. Pending' = Pending
        BY <2>0, <2>2, <3>1, <3>4, ObjectsOfAppend DEF Enqueued
      <4> QED BY <3>3, <4>2, <4>3
    <3>5. CASE operand[t] # Null
      <4>1. Taken = <<operand[t]>>
        BY <3>2, <3>5 DEF Taken
      <4>2. Pending' = Pending \o <<operand[t]>>
        BY <2>0, <2>2, <3>1, <3>5, ObjectsOfAppend DEF Enqueued
      <4> QED BY <1>13, <3>1, <3>3, <3>5, <4>1, <4>2 DEF QueueStep, Enters
    <3> QED BY <3>4, <3>5
  <2>3. CASE t \in Clients /\ FoundEmpty(t)
    BY <1>13, <2>3 DEF QueueStep, FoundEmpty, Ended, Taken
  <2>4. CASE t = CommitThread /\ Dequeued(t)
    <3>1. Len(elements') < Len(elements) /\ Head(elements) \in Objects \cup {Null}
      BY <2>4, HeadTailProperties, EmptySeq DEF Dequeued
    <3>2. accepted' = accepted /\ committed' = committed
      <4>1. Taken = <<>>
        BY <3>1 DEF Taken
      <4> QED BY <1>13, <4>1, ConcatEmptySeq DEF QueueStep
    <3>3. /\ InHand = <<>>
          /\ InHand' = IF Head(elements) = Null THEN <<>> ELSE <<Head(elements)>>
      BY <1>13, <2>4 DEF QueueStep, Dequeued, Ended
    <3>4. CASE Head(elements) = Null
      BY <2>0, <2>4, <3>2, <3>3, <3>4, ObjectsOfTail DEF Dequeued
    <3>5. CASE Head(elements) # Null
      <4>1. Pending = <<Head(elements)>> \o Pending'
        BY <2>0, <2>4, <3>5, ObjectsOfTail DEF Dequeued
      <4>2. Gone' = Gone \o <<Head(elements)>>
        BY <3>2, <3>3, <3>5, ConcatEmptySeq
      <4> QED BY <3>1, <3>2, <3>5, <4>1, <4>2 DEF Leaves
    <3> QED BY <3>4, <3>5
  <2> QED BY <1>13, <2>1, <2>2, <2>3, <2>4, QueueSteps DEF QueueStep
<1> QED BY <1>1, <1>2, <1>3, <1>4, <1>5, <1>6, <1>7, <1>8, <1>9, <1>10, <1>11, <1>12, <1>13
        DEF Next, CommitThreadStep, ClientStep

\* The values of a sequence that grows at its end.
LEMMA RangeProperties ==
    ASSUME NEW s \in Seq(Objects)
    PROVE  /\ Range(s) \subseteq Objects
           /\ \A o \in Objects :
                 s \o <<o>> \in Seq(Objects) /\ Range(s) \subseteq Range(s \o <<o>>)
<1>1. Range(s) \subseteq Objects
  BY DEF Range
<1>2. ASSUME NEW o \in Objects
      PROVE  s \o <<o>> \in Seq(Objects) /\ Range(s) \subseteq Range(s \o <<o>>)
  <2>1. /\ Append(s, o) \in Seq(Objects) /\ Len(Append(s, o)) = Len(s) + 1
        /\ \A i \in 1..Len(s) : Append(s, o)[i] = s[i]
        /\ s \o <<o>> = Append(s, o)
    BY AppendProperties, AppendIsConcat
  <2> QED BY <2>1 DEF Range
<1> QED BY <1>1, <1>2

\* Types; the history of accepted objects keeps its type because it flows.
LEMMA TypeStep == Inv /\ [Next]_vars => TypeOK'
<1> SUFFICES ASSUME Inv, [Next]_vars PROVE TypeOK'
  OBVIOUS
<1>0. /\ accepted' \in Seq(Objects) /\ Range(accepted) \subseteq Objects
      /\ condQueue = <<>> /\ condQueue' = <<>> /\ <<>> \in Seq(Clients)
  <2>1. accepted' \in Seq(Objects)
    BY EveryStepFlows, RangeProperties DEF Flow, Stays, Enters, Leaves, Inv, TypeOK
  <2> QED BY <2>1, ThreadInvStep, RangeProperties DEF ThreadInv, Inv, TypeOK
<1> USE <1>0, ConstantsDiffer
        DEF Inv, TypeOK, Queue!TypeOK, Queue!HasArgument, Queue!Operations, Queue!Statuses,
            Places, ClientInv, ThreadInv, Called, Goto,
            queueVars, flagVars, historyVars
<1>1. ASSUME NEW t \in Clients, NEW o \in Objects, Commit(t, o) PROVE TypeOK'
  BY <1>1 DEF Commit, Queue!Invoke
<1>2. ASSUME NEW t \in Clients, WaitCommit(t) PROVE TypeOK'
  BY <1>2 DEF WaitCommit, Queue!Invoke
<1>3. ASSUME NEW t \in Clients, Close(t) PROVE TypeOK'
  BY <1>3 DEF Close, Queue!Invoke
<1>4. ASSUME NEW t \in Clients, Return(t) PROVE TypeOK'
  BY <1>4 DEF Return
<1>5. ASSUME NEW t \in Clients, CheckCommitting(t) PROVE TypeOK'
  BY <1>5 DEF CheckCommitting
<1>6. ASSUME NEW t \in Clients, Join(t) PROVE TypeOK'
  BY <1>6 DEF Join
<1>7. CASE Loop
  BY <1>7 DEF Loop, Queue!Invoke
<1>8. CASE Drain
  BY <1>8 DEF Drain, Queue!Invoke
<1>9. CASE TakeNull
  BY <1>9 DEF TakeNull
<1>10. CASE BeginCommit
  BY <1>10 DEF BeginCommit
<1>11. CASE EndCommit
  <2>1. committed' \in Seq(Objects)
    BY <1>11, AppendProperties DEF EndCommit
  <2> QED BY <1>11, <2>1 DEF EndCommit, Signalled
<1>12. CASE UNCHANGED vars \/ Closed
  BY <1>12 DEF Closed, vars
<1>13. ASSUME NEW t \in Threads, QueueStep(t) PROVE TypeOK'
  <2>1. waitQueue' \in Seq(Threads) /\ status' \in [Threads -> Queue!Statuses]
    BY <1>13, WaiterTypes DEF QueueStep
  <2>2. /\ elements' \in Seq(Objects \cup {Null})
        /\ call' \in [Threads -> Queue!Operations \cup {"none"}]
        /\ operand' \in [Threads -> (Objects \cup {Null}) \cup {NoElement}]
        /\ Queue!HasArgument'
    <3>1. CASE Quiet
      BY <3>1 DEF Quiet
    <3>2. CASE t \in Clients /\ Enqueued(t)
      <4>1. operand[t] \in Objects \cup {Null}
        BY <3>2 DEF Enqueued
      <4>2. elements' \in Seq(Objects \cup {Null})
        BY <3>2, <4>1, AppendProperties DEF Enqueued
      <4> QED BY <3>2, <4>1, <4>2 DEF Enqueued, Ended
    <3>3. CASE t \in Clients /\ FoundEmpty(t)
      BY <3>3 DEF FoundEmpty, Ended
    <3>4. CASE t = CommitThread /\ Dequeued(t)
      <4>1. elements' \in Seq(Objects \cup {Null}) /\ Head(elements) \in Objects \cup {Null}
        BY <3>4, HeadTailProperties DEF Dequeued
      <4> QED BY <3>4, <4>1 DEF Dequeued, Ended
    <3> QED BY <1>13, <3>1, <3>2, <3>3, <3>4, QueueSteps DEF QueueStep
  <2> QED BY <1>13, <2>1, <2>2 DEF QueueStep
<1> QED BY <1>1, <1>2, <1>3, <1>4, <1>5, <1>6, <1>7, <1>8, <1>9, <1>10, <1>11, <1>12, <1>13
        DEF Next, CommitThreadStep, ClientStep

\* Moving an object from place to place keeps the order of all.
LEMMA NothingLostStep == Inv /\ [Next]_vars => NothingLost'
<1> SUFFICES ASSUME Inv, [Next]_vars PROVE NothingLost'
  OBVIOUS
<1>1. /\ Pending \in Seq(Objects) /\ Gone \in Seq(Objects) /\ accepted = Gone \o Pending
      /\ Pending' \in Seq(Objects) /\ Gone' \in Seq(Objects)
  <2>1. TypeOK' /\ ThreadInv' /\ NullInv'
    BY TypeStep, ThreadInvStep, NullInvStep
  <2> QED BY <2>1, FlowTypes, FlowTypesNext DEF Inv, NothingLost, Gone
<1>2. CASE Stays
  BY <1>1, <1>2 DEF Stays, NothingLost, Gone
<1>3. ASSUME NEW o \in Objects, Enters(o) PROVE NothingLost'
  <2>1. (Gone \o Pending) \o <<o>> = Gone \o (Pending \o <<o>>)
    BY <1>1, ConcatAssociative
  <2> QED BY <1>1, <1>3, <2>1 DEF Enters, NothingLost, Gone
<1>4. ASSUME NEW o \in Objects, Leaves(o) PROVE NothingLost'
  <2>1. (Gone \o <<o>>) \o Pending' = Gone \o (<<o>> \o Pending')
    BY <1>1, ConcatAssociative
  <2> QED BY <1>1, <1>4, <2>1 DEF Leaves, NothingLost, Gone
<1> QED BY <1>2, <1>3, <1>4, EveryStepFlows DEF Flow

\* After the commit thread has ended nothing but the null pointer can be enqueued.
LEMMA ExitInvStep == Inv /\ [Next]_vars => ExitInv'
<1> SUFFICES ASSUME Inv, [Next]_vars PROVE ExitInv'
  OBVIOUS
<1> USE ConstantsDiffer
        DEF Inv, TypeOK, Queue!TypeOK, ClientInv, ThreadInv, CloseInv, NullInv, ExitInv, Called,
            Goto, queueVars, flagVars, historyVars, Pending
<1>1. ASSUME NEW t \in Clients, NEW o \in Objects, Commit(t, o) PROVE ExitInv'
  BY <1>1 DEF Commit, Queue!Invoke
<1>2. ASSUME NEW t \in Clients, WaitCommit(t) PROVE ExitInv'
  BY <1>2 DEF WaitCommit, Queue!Invoke
<1>3. ASSUME NEW t \in Clients, Close(t) PROVE ExitInv'
  BY <1>3 DEF Close, Queue!Invoke
<1>4. ASSUME NEW t \in Clients, Return(t) PROVE ExitInv'
  BY <1>4 DEF Return
<1>5. ASSUME NEW t \in Clients, CheckCommitting(t) PROVE ExitInv'
  BY <1>5 DEF CheckCommitting
<1>6. ASSUME NEW t \in Clients, Join(t) PROVE ExitInv'
  BY <1>6 DEF Join
<1>7. CASE Loop
  BY <1>7 DEF Loop, Queue!Invoke
<1>8. CASE Drain
  BY <1>8 DEF Drain, Queue!Invoke
<1>9. CASE TakeNull
  BY <1>9 DEF TakeNull
<1>10. CASE BeginCommit
  BY <1>10 DEF BeginCommit
<1>11. CASE EndCommit
  BY <1>11 DEF EndCommit, Signalled
<1>12. CASE UNCHANGED vars \/ Closed
  BY <1>12 DEF Closed, vars
<1>13. ASSUME NEW t \in Threads, QueueStep(t) PROVE ExitInv'
  <2>1. pc' = pc /\ stopped' = stopped
    BY <1>13 DEF QueueStep, flagVars
  <2>2. ASSUME pc[CommitThread] = "exited" PROVE Pending' = <<>>
    <3>1. CASE Quiet
      BY <2>2, <3>1 DEF Quiet
    <3>2. CASE t \in Clients /\ Enqueued(t)
      <4>1. /\ operand[t] = Null
            /\ \A i \in 1..Len(elements) : elements[i] # Null
        BY <2>2, <3>2 DEF Enqueued
      <4>2. ObjectsOf(elements') = elements /\ ObjectsOf(elements) = elements
        BY <3>2, <4>1, ObjectsOfAppend DEF Enqueued
      <4> QED BY <2>2, <4>2 DEF ObjectsOf
    <3>3. CASE t \in Clients /\ FoundEmpty(t)
      BY <2>2, <3>3 DEF FoundEmpty
    <3>4. CASE t = CommitThread /\ Dequeued(t)
      BY <2>2, <3>4 DEF Dequeued
    <3> QED BY <1>13, <3>1, <3>2, <3>3, <3>4, QueueSteps DEF QueueStep
  <2> QED BY <2>1, <2>2
<1> QED BY <1>1, <1>2, <1>3, <1>4, <1>5, <1>6, <1>7, <1>8, <1>9, <1>10, <1>11, <1>12, <1>13
        DEF Next, CommitThreadStep, ClientStep

\* An empty queue seen by waitEmpty says that all accepted objects are gone from it.
LEMMA PromiseInvStep == Inv /\ [Next]_vars => PromiseInv'
<1> SUFFICES ASSUME Inv, [Next]_vars PROVE PromiseInv'
  OBVIOUS
<1>0. Range(accepted) \subseteq Range(accepted') /\ Range(Gone) \subseteq Range(Gone')
  BY EveryStepFlows, FlowTypes, RangeProperties DEF Flow, Stays, Enters, Leaves, Inv, TypeOK
<1> USE <1>0, ConstantsDiffer
        DEF Inv, TypeOK, Queue!TypeOK, ClientInv, ThreadInv, PromiseInv, Called, Goto,
            queueVars, flagVars, historyVars, Gone
<1>1. ASSUME NEW t \in Clients, NEW o \in Objects, Commit(t, o) PROVE PromiseInv'
  BY <1>1 DEF Commit, Queue!Invoke
<1>2. ASSUME NEW t \in Clients, WaitCommit(t) PROVE PromiseInv'
  BY <1>2 DEF WaitCommit, Queue!Invoke
<1>3. ASSUME NEW t \in Clients, Close(t) PROVE PromiseInv'
  BY <1>3 DEF Close, Queue!Invoke
<1>4. ASSUME NEW t \in Clients, Return(t) PROVE PromiseInv'
  BY <1>4 DEF Return
<1>5. ASSUME NEW t \in Clients, CheckCommitting(t) PROVE PromiseInv'
  BY <1>5 DEF CheckCommitting
<1>6. ASSUME NEW t \in Clients, Join(t) PROVE PromiseInv'
  BY <1>6 DEF Join
<1>7. CASE Loop
  BY <1>7 DEF Loop, Queue!Invoke
<1>8. CASE Drain
  BY <1>8 DEF Drain, Queue!Invoke
<1>9. CASE TakeNull
  BY <1>9 DEF TakeNull
<1>10. CASE BeginCommit
  BY <1>10 DEF BeginCommit
<1>11. CASE EndCommit
  BY <1>11 DEF EndCommit, Signalled
<1>12. CASE UNCHANGED vars \/ Closed
  BY <1>12 DEF Closed, vars
<1>13. ASSUME NEW t \in Threads, QueueStep(t) PROVE PromiseInv'
  <2>1. pc' = pc /\ promised' = promised
    BY <1>13 DEF QueueStep
  <2>2. ASSUME NEW u \in Clients, pc[u] = "waitEmpty", call'[u] = "none", call[u] # "none"
        PROVE  Range(accepted) \subseteq Range(Gone')
    <3>1. elements = <<>>
      BY <1>13, <2>2, QueueSteps DEF QueueStep, Quiet, Enqueued, Dequeued, FoundEmpty, Ended
    <3>2. accepted = Gone
      BY <3>1, FlowTypes, ConcatAssociative, ConcatEmptySeq DEF NothingLost, Pending
    <3> QED BY <3>2
  <2>3. ASSUME NEW u \in Clients, pc[u] = "check" PROVE promised[u] \subseteq Range(Gone')
    BY <2>3
  <2>4. ASSUME NEW u \in Clients, pc[u] = "waitEmpty", call'[u] = "none"
        PROVE  promised[u] \subseteq Range(Gone')
    BY <2>2, <2>4
  <2> HIDE DEF Gone
  <2>5. Gone' = (committed \o InHand)'
    BY DEF Gone
  <2> QED BY <2>1, <2>3, <2>4, <2>5
<1> QED BY <1>1, <1>2, <1>3, <1>4, <1>5, <1>6, <1>7, <1>8, <1>9, <1>10, <1>11, <1>12, <1>13
        DEF Next, CommitThreadStep, ClientStep

-----------------------------------------------------------------------------
(* Theorems                                                                *)

\* The scheduler as its constructor leaves it.
LEMMA Initially == Init => Inv
<1> SUFFICES ASSUME Init PROVE Inv
  OBVIOUS
<1> USE ConstantsDiffer DEF Init, Queue!Init
<1>1. /\ <<>> \in Seq(Objects \cup {Null}) /\ <<>> \in Seq(Threads) /\ <<>> \in Seq(Objects)
      /\ <<>> \in Seq(Clients) /\ Len(<<>>) = 0
  BY EmptySeq
<1>2. TypeOK
  BY <1>1 DEF TypeOK, Queue!TypeOK, Queue!HasArgument, Queue!Operations, Queue!Statuses, Places
<1>3. ClientInv /\ ThreadInv /\ CloseInv
  BY DEF ClientInv, ThreadInv, CloseInv, Called
<1>4. NullInv /\ ExitInv /\ PromiseInv
  BY <1>1 DEF NullInv, ExitInv, PromiseInv
<1>5. InHand = <<>> /\ Pending = <<>>
  BY DEF InHand, Pending
<1>6. NothingLost
  BY <1>1, <1>5, ConcatEmptySeq DEF NothingLost
<1> QED BY <1>2, <1>3, <1>4, <1>6 DEF Inv

\* The inductive invariant.  TypeOK and NothingLost alone are not inductive: that nothing
\* is dropped as a null pointer or left behind rests on NullInv and CloseInv.
THEOREM Invariance == Spec => []Inv
<1>1. Inv /\ [Next]_vars => Inv'
  BY TypeStep, ClientInvStep, ThreadInvStep, CloseInvStep, NullInvStep, NothingLostStep,
     ExitInvStep, PromiseInvStep DEF Inv
<1> QED BY <1>1, Initially, PTL DEF Spec

\* The types of all variables, the queue's among them.
THEOREM TypeCorrect == Spec => []TypeOK
<1>1. Inv => TypeOK
  BY DEF Inv
<1> QED BY <1>1, Invariance, PTL

\* commit() gives every object to exactly one commit of the thread, in the order in which
\* enqueue took them (AsyncCommitScheduler::commit and run).
THEOREM NothingIsLost == Spec => []NothingLost
<1>1. Inv => NothingLost
  BY DEF Inv
<1> QED BY <1>1, Invariance, PTL

\* close() returns only when all that was ever accepted is committed.
THEOREM CloseIsComplete == Spec => []CloseCommitsAll
<1>1. Inv => CloseCommitsAll
  <2> SUFFICES ASSUME Inv, \E t \in Clients : pc[t] = "closed" PROVE committed = accepted
    BY DEF CloseCommitsAll
  <2>1. pc[CommitThread] = "exited" /\ Pending = <<>>
    BY DEF Inv, ExitInv
  <2>2. InHand = <<>>
    BY <2>1 DEF InHand
  <2> QED BY <2>1, <2>2, ConcatEmptySeq, EmptySeq DEF Inv, TypeOK, NothingLost
<1> QED BY <1>1, Invariance, PTL

\* m_bCommitting is never seen true under m_mutex, and nobody waits on m_cond.
THEOREM FlagIsHidden == Spec => []FlagHiddenByMutex
<1>1. Inv => FlagHiddenByMutex
  BY DEF Inv, ThreadInv, FlagHiddenByMutex
<1> QED BY <1>1, Invariance, PTL

\* What waitCommit() can miss of what was accepted when it was called: the object that
\* has left the queue and is not yet under the mutex, nothing else.
THEOREM WaitCommitIsNearlyComplete == Spec => WaitCommitMissesOnlyInHand
<1>1. Inv /\ [Next]_vars =>
         [\A t \in Clients : Waited(t) => promised[t] \subseteq Range(committed \o InHand)]_vars
  BY DEF Inv, PromiseInv, Waited
<1> QED BY <1>1, Invariance, PTL DEF Spec, WaitCommitMissesOnlyInHand

=============================================================================
