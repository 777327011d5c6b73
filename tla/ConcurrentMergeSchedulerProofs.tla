-------------------- MODULE ConcurrentMergeSchedulerProofs --------------------
(***************************************************************************)
(* Proofs about ConcurrentMergeScheduler for any number of threads, files  *)
(* and proposals: its assertions hold, each task finds a merge, and it     *)
(* implements MergeScheduler.                                              *)
(***************************************************************************)
EXTENDS ConcurrentMergeScheduler, FiniteSetTheorems, TLAPS

-----------------------------------------------------------------------------
(* The inductive invariant                                                 *)

Stopping == pc \in {"stop", "release", "gone"}
Starting == pc \in {"scan", "missed", "waiting", "activate", "start"}

\* A thread is calm, or about to get a target, or has one.
Calm(w) ==
    /\ idle[w]
    /\ ~hasTarget[w]
    /\ place[w] \in {"ready", "finished", "awake", "exited"}
    /\ ~Stopping => ~ready[w] /\ place[w] \in {"ready", "finished"}

Taken(w) ==
    /\ pc = "start"
    /\ chosen = w
    /\ ~idle[w] /\ ~hasTarget[w] /\ ~completed[w] /\ ~ready[w]
    /\ place[w] = "ready"

Busy(w) ==
    /\ ~Stopping
    /\ ~idle[w] /\ hasTarget[w] /\ ~completed[w]
    /\ \/ place[w] = "ready" /\ ready[w]
       \/ place[w] \in {"awake", "running", "ran"} /\ ~ready[w]

ThreadInv ==
    /\ \A w \in Workers : Calm(w) \/ Taken(w) \/ Busy(w)
    /\ pc \in {"activate", "start", "completing", "release"} => chosen \in Workers
    /\ pc = "activate" => idle[chosen]
    /\ pc = "start" => Taken(chosen)

\* What joinAll has looked at is calm, and all is calm from its return to the next merge.
JoinInv ==
    /\ pc \in {"join", "completing"} => \A w \in Workers \ toJoin : Calm(w)
    /\ submitted = waited => (pc = "out" \/ Stopping) /\ \A w \in Workers : Calm(w)
    /\ Stopping => submitted = waited

\* The tasks that have yet to take a merge are as many as the merges in the queue, but
\* for the one whose task has not been started.
CountInv ==
    /\ Len(taskQueue) = Cardinality(Untaken) + (IF Starting THEN 1 ELSE 0)
    /\ \A w \in Workers : hand[w] # NoMerge => place[w] = "running"

\* Each merge is in one place.
DataInv ==
    /\ \A m \in 1..submitted :
        \/ m \in done
        \/ \E i \in 1..Len(taskQueue) : taskQueue[i] = m
        \/ \E w \in Workers : hand[w] = m
    /\ \A i \in 1..Len(taskQueue) :
        /\ taskQueue[i] \in 1..submitted
        /\ taskQueue[i] \notin done
        /\ \A j \in 1..Len(taskQueue) : taskQueue[i] = taskQueue[j] => i = j
        /\ \A w \in Workers : hand[w] # taskQueue[i]
    /\ \A w \in Workers : hand[w] # NoMerge =>
        /\ hand[w] \in 1..submitted
        /\ hand[w] \notin done
        /\ \A v \in Workers : hand[v] = hand[w] => v = w

Inv == TypeOK /\ ThreadInv /\ JoinInv /\ CountInv /\ DataInv

-----------------------------------------------------------------------------
LEMMA MergesAreNumbers == Merges \subseteq Nat \ {0} /\ NoMerge \notin Merges
  BY FilesAssumption DEF Merges, NoMerge

LEMMA CapacityIsNumber == Capacity \in Nat
  BY WorkersAssumption, FS_CardinalityType DEF Capacity

\* Every step leaves each thread calm, taken or busy.
LEMMA ThreadInvStep == Inv /\ [Next]_vars => ThreadInv'
<1> SUFFICES ASSUME Inv, [Next]_vars
             PROVE  ThreadInv'
  OBVIOUS
<1> USE WorkersAssumption
        DEF Inv, TypeOK, PoolTypeOK, ThreadInv, JoinInv, Calm, Taken, Busy, Stopping,
            Unlocked, Goto, CountInv, vars, poolVars, userVars, workerVars, mergeVars
<1>1. CASE Merge
  BY <1>1 DEF Merge
<1>2. CASE WaitFinish
  BY <1>2 DEF WaitFinish, JoinAll
<1>3. CASE Finished
  BY <1>3 DEF Finished, Joined
<1>4. CASE DestroyScheduler
  BY <1>4 DEF DestroyScheduler, Destroy
<1>5. CASE FindIdle /\ UNCHANGED mergeVars
  BY <1>5 DEF FindIdle
<1>6. CASE FindNone /\ UNCHANGED mergeVars
  BY <1>6 DEF FindNone
<1>7. CASE BeginWait /\ UNCHANGED mergeVars
  BY <1>7 DEF BeginWait
<1>8. CASE EndWait /\ UNCHANGED mergeVars
  BY <1>8 DEF EndWait
<1>9. CASE Activate /\ UNCHANGED mergeVars
  BY <1>9 DEF Activate
<1>10. CASE Start /\ UNCHANGED mergeVars
  BY <1>10 DEF Start
<1>11. CASE JoinIdle /\ UNCHANGED mergeVars
  BY <1>11 DEF JoinIdle
<1>12. CASE JoinBusy /\ UNCHANGED mergeVars
  BY <1>12 DEF JoinBusy
<1>13. CASE JoinCompleted /\ UNCHANGED mergeVars
  BY <1>13 DEF JoinCompleted
<1>14. CASE Release /\ UNCHANGED mergeVars
  BY <1>14 DEF Release
<1>15. CASE Released /\ UNCHANGED mergeVars
  BY <1>15 DEF Released
<1>16. CASE \E w \in Workers : Take(w)
  BY <1>16 DEF Take
<1>17. CASE \E w \in Workers : Perform(w)
  BY <1>17 DEF Perform
<1>18. CASE \E w \in Workers : Wake(w) /\ UNCHANGED mergeVars
  BY <1>18 DEF Wake
<1>19. CASE \E w \in Workers : Test(w) /\ UNCHANGED mergeVars
  BY <1>19 DEF Test
<1>20. CASE \E w \in Workers : Finish(w) /\ UNCHANGED mergeVars
  BY <1>20 DEF Finish
<1>21. CASE \E w \in Workers : Broadcast(w) /\ UNCHANGED mergeVars
  BY <1>21 DEF Broadcast
<1>22. CASE UNCHANGED vars
  BY <1>22
<1>23. QED
  BY <1>1, <1>2, <1>3, <1>4, <1>5, <1>6, <1>7, <1>8, <1>9, <1>10, <1>11, <1>12,
     <1>13, <1>14, <1>15, <1>16, <1>17, <1>18, <1>19, <1>20, <1>21, <1>22
     DEF Next, MergerStep, ThreadStep, WorkerStep

\* Between a waitFinish and the next merge all threads are calm.
LEMMA JoinInvStep == Inv /\ [Next]_vars => JoinInv'
<1> SUFFICES ASSUME Inv, [Next]_vars
             PROVE  JoinInv'
  OBVIOUS
<1> USE WorkersAssumption, MergesAreNumbers
        DEF Inv, TypeOK, PoolTypeOK, ThreadInv, JoinInv, Calm, Taken, Busy, Stopping,
            Unlocked, Goto, CountInv, WaitsNow, vars, poolVars, userVars, workerVars,
            mergeVars
<1>1. CASE Merge
  BY <1>1 DEF Merge
<1>2. CASE WaitFinish
  BY <1>2 DEF WaitFinish, JoinAll
<1>3. CASE Finished
  BY <1>3 DEF Finished, Joined
<1>4. CASE DestroyScheduler
  BY <1>4 DEF DestroyScheduler, Destroy
<1>5. CASE FindIdle /\ UNCHANGED mergeVars
  BY <1>5 DEF FindIdle
<1>6. CASE FindNone /\ UNCHANGED mergeVars
  BY <1>6 DEF FindNone
<1>7. CASE BeginWait /\ UNCHANGED mergeVars
  BY <1>7 DEF BeginWait
<1>8. CASE EndWait /\ UNCHANGED mergeVars
  BY <1>8 DEF EndWait
<1>9. CASE Activate /\ UNCHANGED mergeVars
  BY <1>9 DEF Activate
<1>10. CASE Start /\ UNCHANGED mergeVars
  BY <1>10 DEF Start
<1>11. CASE JoinIdle /\ UNCHANGED mergeVars
  BY <1>11 DEF JoinIdle
<1>12. CASE JoinBusy /\ UNCHANGED mergeVars
  BY <1>12 DEF JoinBusy
<1>13. CASE JoinCompleted /\ UNCHANGED mergeVars
  BY <1>13 DEF JoinCompleted
<1>14. CASE Release /\ UNCHANGED mergeVars
  BY <1>14 DEF Release
<1>15. CASE Released /\ UNCHANGED mergeVars
  BY <1>15 DEF Released
<1>16. CASE \E w \in Workers : Take(w)
  BY <1>16 DEF Take
<1>17. CASE \E w \in Workers : Perform(w)
  BY <1>17 DEF Perform
<1>18. CASE \E w \in Workers : Wake(w) /\ UNCHANGED mergeVars
  BY <1>18 DEF Wake
<1>19. CASE \E w \in Workers : Test(w) /\ UNCHANGED mergeVars
  BY <1>19 DEF Test
<1>20. CASE \E w \in Workers : Finish(w) /\ UNCHANGED mergeVars
  BY <1>20 DEF Finish
<1>21. CASE \E w \in Workers : Broadcast(w) /\ UNCHANGED mergeVars
  BY <1>21 DEF Broadcast
<1>22. CASE UNCHANGED vars
  BY <1>22
<1>23. QED
  BY <1>1, <1>2, <1>3, <1>4, <1>5, <1>6, <1>7, <1>8, <1>9, <1>10, <1>11, <1>12,
     <1>13, <1>14, <1>15, <1>16, <1>17, <1>18, <1>19, <1>20, <1>21, <1>22
     DEF Next, MergerStep, ThreadStep, WorkerStep

\* Every step keeps the types.
LEMMA TypeStep == Inv /\ [Next]_vars => TypeOK'
<1> SUFFICES ASSUME Inv, [Next]_vars
             PROVE  TypeOK'
  OBVIOUS
<1> USE WorkersAssumption, MergesAreNumbers, CapacityIsNumber
        DEF Inv, TypeOK, PoolTypeOK, ThreadInv, Goto, vars, poolVars, userVars,
            workerVars, mergeVars
<1>1. CASE Merge
  BY <1>1 DEF Merge
<1>2. CASE WaitFinish
  BY <1>2 DEF WaitFinish, JoinAll
<1>3. CASE Finished
  BY <1>3 DEF Finished, Joined
<1>4. CASE DestroyScheduler
  BY <1>4 DEF DestroyScheduler, Destroy
<1>5. CASE FindIdle /\ UNCHANGED mergeVars
  BY <1>5 DEF FindIdle
<1>6. CASE FindNone /\ UNCHANGED mergeVars
  BY <1>6 DEF FindNone
<1>7. CASE BeginWait /\ UNCHANGED mergeVars
  BY <1>7 DEF BeginWait
<1>8. CASE EndWait /\ UNCHANGED mergeVars
  BY <1>8 DEF EndWait
<1>9. CASE Activate /\ UNCHANGED mergeVars
  BY <1>9 DEF Activate
<1>10. CASE Start /\ UNCHANGED mergeVars
  BY <1>10 DEF Start
<1>11. CASE JoinIdle /\ UNCHANGED mergeVars
  BY <1>11 DEF JoinIdle
<1>12. CASE JoinBusy /\ UNCHANGED mergeVars
  BY <1>12 DEF JoinBusy
<1>13. CASE JoinCompleted /\ UNCHANGED mergeVars
  BY <1>13 DEF JoinCompleted
<1>14. CASE Release /\ UNCHANGED mergeVars
  BY <1>14 DEF Release
<1>15. CASE Released /\ UNCHANGED mergeVars
  BY <1>15 DEF Released
<1>16. CASE \E w \in Workers : Take(w)
  <2>1. PICK w \in Workers : Take(w)
    BY <1>16
  <2>2. taskQueue # <<>>
    BY <2>1 DEF Take
  <2>3. TypeOK'
    <3>1. Head(taskQueue) \in Merges /\ Tail(taskQueue) \in Seq(Merges)
          /\ Len(Tail(taskQueue)) <= Capacity
      BY <2>2
    <3>2. hand' \in [Workers -> Merges \cup {NoMerge}]
      BY <2>1, <2>2, <3>1 DEF Take
    <3>3. taskQueue' = Tail(taskQueue) /\ UNCHANGED <<poolVars, submitted, waited, done>>
      BY <2>1, <2>2 DEF Take
    <3>4. PoolTypeOK'
      BY <3>3
    <3>5. QED
      BY <3>1, <3>2, <3>3, <3>4
  <2>4. QED
    BY <2>3
<1>17. CASE \E w \in Workers : Perform(w)
  <2>1. PICK w \in Workers : Perform(w)
    BY <1>17
  <2>2. hand[w] \in 1..submitted
    BY <2>1 DEF Perform, DataInv
  <2>3. hand' \in [Workers -> Merges \cup {NoMerge}]
    BY <2>1 DEF Perform
  <2>4. place' \in [Workers -> {"ready", "awake", "running", "ran", "finished", "exited"}]
    BY <2>1 DEF Perform
  <2>5. QED
    BY <2>1, <2>2, <2>3, <2>4 DEF Perform
<1>18. CASE \E w \in Workers : Wake(w) /\ UNCHANGED mergeVars
  BY <1>18 DEF Wake
<1>19. CASE \E w \in Workers : Test(w) /\ UNCHANGED mergeVars
  <2>1. PICK w \in Workers : Test(w) /\ UNCHANGED mergeVars
    BY <1>19
  <2>2. CASE hasTarget[w]
    BY <2>1, <2>2 DEF Test
  <2>3. CASE ~hasTarget[w]
    BY <2>1, <2>3 DEF Test
  <2>4. QED
    BY <2>2, <2>3
<1>20. CASE \E w \in Workers : Finish(w) /\ UNCHANGED mergeVars
  BY <1>20 DEF Finish
<1>21. CASE \E w \in Workers : Broadcast(w) /\ UNCHANGED mergeVars
  BY <1>21 DEF Broadcast
<1>22. CASE UNCHANGED vars
  BY <1>22
<1>23. QED
  BY <1>1, <1>2, <1>3, <1>4, <1>5, <1>6, <1>7, <1>8, <1>9, <1>10, <1>11, <1>12,
     <1>13, <1>14, <1>15, <1>16, <1>17, <1>18, <1>19, <1>20, <1>21, <1>22
     DEF Next, MergerStep, ThreadStep, WorkerStep

LEMMA UntakenFinite == IsFiniteSet(Untaken) /\ Cardinality(Untaken) \in Nat
  BY WorkersAssumption, FS_Subset, FS_CardinalityType DEF Untaken

\* Every step keeps the tasks and the merges in the queue even.
LEMMA CountInvStep == Inv /\ [Next]_vars => CountInv'
<1> SUFFICES ASSUME Inv, [Next]_vars
             PROVE  CountInv'
  OBVIOUS
<1> USE
        DEF Inv, TypeOK, PoolTypeOK, CountInv, Starting, Goto, vars, poolVars, userVars,
            workerVars, mergeVars
<1>1. CASE Merge
  <2>1. Untaken' = Untaken
    BY <1>1 DEF Untaken, Merge
  <2>2. Len(taskQueue') = Len(taskQueue) + 1
    BY <1>1, MergesAreNumbers DEF Merge
  <2>3. QED
    BY <1>1, <2>1, <2>2, UntakenFinite DEF Merge
<1>2. CASE WaitFinish
  <2>1. Untaken' = Untaken
    BY <1>2 DEF Untaken, WaitFinish, JoinAll
  <2>2. QED
    BY <1>2, <2>1 DEF WaitFinish, JoinAll
<1>3. CASE Finished
  <2>1. Untaken' = Untaken
    BY <1>3 DEF Untaken, Finished, Joined
  <2>2. QED
    BY <1>3, <2>1 DEF Finished, Joined
<1>4. CASE DestroyScheduler
  <2>1. Untaken' = Untaken
    BY <1>4 DEF Untaken, DestroyScheduler, Destroy
  <2>2. QED
    BY <1>4, <2>1 DEF DestroyScheduler, Destroy
<1>5. CASE FindIdle /\ UNCHANGED mergeVars
  <2>1. Untaken' = Untaken
    BY <1>5 DEF Untaken, FindIdle
  <2>2. QED
    BY <1>5, <2>1 DEF FindIdle
<1>6. CASE FindNone /\ UNCHANGED mergeVars
  <2>1. Untaken' = Untaken
    BY <1>6 DEF Untaken, FindNone
  <2>2. QED
    BY <1>6, <2>1 DEF FindNone
<1>7. CASE BeginWait /\ UNCHANGED mergeVars
  <2>1. Untaken' = Untaken
    BY <1>7 DEF Untaken, BeginWait
  <2>2. QED
    BY <1>7, <2>1 DEF BeginWait
<1>8. CASE EndWait /\ UNCHANGED mergeVars
  <2>1. Untaken' = Untaken
    BY <1>8 DEF Untaken, EndWait
  <2>2. QED
    BY <1>8, <2>1 DEF EndWait
<1>9. CASE Activate /\ UNCHANGED mergeVars
  <2>1. Untaken' = Untaken
    BY <1>9 DEF Untaken, Activate
  <2>2. QED
    BY <1>9, <2>1 DEF Activate
<1>10. CASE Start /\ UNCHANGED mergeVars
  <2>1. chosen \in Workers /\ chosen \notin Untaken
    BY <1>10 DEF Start, Untaken, ThreadInv, Taken
  <2>2. Untaken' = Untaken \cup {chosen}
    BY <1>10, <2>1 DEF Start, Untaken, ThreadInv, Taken
  <2>3. Cardinality(Untaken') = Cardinality(Untaken) + 1
    BY <2>1, <2>2, UntakenFinite, FS_AddElement
  <2>4. QED
    BY <1>10, <2>3, UntakenFinite DEF Start
<1>11. CASE JoinIdle /\ UNCHANGED mergeVars
  <2>1. Untaken' = Untaken
    BY <1>11 DEF Untaken, JoinIdle
  <2>2. QED
    BY <1>11, <2>1 DEF JoinIdle
<1>12. CASE JoinBusy /\ UNCHANGED mergeVars
  <2>1. Untaken' = Untaken
    BY <1>12 DEF Untaken, JoinBusy
  <2>2. QED
    BY <1>12, <2>1 DEF JoinBusy
<1>13. CASE JoinCompleted /\ UNCHANGED mergeVars
  <2>1. Untaken' = Untaken
    BY <1>13 DEF Untaken, JoinCompleted
  <2>2. QED
    BY <1>13, <2>1 DEF JoinCompleted
<1>14. CASE Release /\ UNCHANGED mergeVars
  <2>1. Untaken' = Untaken
    BY <1>14 DEF Untaken, Release, ThreadInv, Calm, Taken, Busy, Stopping
  <2>2. QED
    BY <1>14, <2>1 DEF Release, ThreadInv, Calm, Taken, Busy, Stopping
<1>15. CASE Released /\ UNCHANGED mergeVars
  <2>1. Untaken' = Untaken
    BY <1>15 DEF Untaken, Released
  <2>2. QED
    BY <1>15, <2>1 DEF Released
<1>16. CASE \E w \in Workers : Take(w)
  <2>1. PICK w \in Workers : Take(w)
    BY <1>16
  <2>2. w \in Untaken
    BY <2>1 DEF Take, Untaken, ThreadInv, Calm, Taken, Busy
  <2>3. Cardinality(Untaken \ {w}) = Cardinality(Untaken) - 1 /\ Cardinality(Untaken \ {w}) \in Nat
    BY <2>2, UntakenFinite, FS_RemoveElement, FS_CardinalityType
  <2>4. taskQueue # <<>>
    BY <2>1 DEF Take
  <2>5. /\ hand' = [hand EXCEPT ![w] = Head(taskQueue)]
        /\ taskQueue' = Tail(taskQueue)
        /\ UNCHANGED <<place, hasTarget, pc>>
    BY <2>1, <2>4 DEF Take
  <2>6. Head(taskQueue) # NoMerge
    BY <2>4, MergesAreNumbers DEF NoMerge
  <2>7. Untaken' = Untaken \ {w}
    BY <2>5, <2>6 DEF Untaken
  <2>8. Len(taskQueue') = Len(taskQueue) - 1
    BY <2>4, <2>5
  <2>9. QED
    BY <2>1, <2>3, <2>5, <2>7, <2>8, UntakenFinite DEF Take
<1>17. CASE \E w \in Workers : Perform(w)
  <2>1. PICK w \in Workers : Perform(w)
    BY <1>17
  <2>2. Untaken' = Untaken
    BY <2>1 DEF Untaken, Perform
  <2>3. \A v \in Workers : hand'[v] # NoMerge => place'[v] = "running"
    BY <2>1 DEF Perform
  <2>4. QED
    BY <2>1, <2>2, <2>3 DEF Perform
<1>18. CASE \E w \in Workers : Wake(w) /\ UNCHANGED mergeVars
  <2>1. Untaken' = Untaken
    BY <1>18 DEF Untaken, Wake, ThreadInv, Calm, Taken, Busy, Stopping
  <2>2. QED
    BY <1>18, <2>1 DEF Wake
<1>19. CASE \E w \in Workers : Test(w) /\ UNCHANGED mergeVars
  <2>1. Untaken' = Untaken
    BY <1>19 DEF Untaken, Test, ThreadInv, Calm, Taken, Busy, Stopping
  <2>2. QED
    BY <1>19, <2>1 DEF Test
<1>20. CASE \E w \in Workers : Finish(w) /\ UNCHANGED mergeVars
  <2>1. Untaken' = Untaken
    BY <1>20 DEF Untaken, Finish, ThreadInv, Calm, Taken, Busy, Stopping
  <2>2. QED
    BY <1>20, <2>1 DEF Finish
<1>21. CASE \E w \in Workers : Broadcast(w) /\ UNCHANGED mergeVars
  <2>1. Untaken' = Untaken
    BY <1>21 DEF Untaken, Broadcast, ThreadInv, Calm, Taken, Busy, Stopping
  <2>2. QED
    BY <1>21, <2>1 DEF Broadcast
<1>22. CASE UNCHANGED vars
  <2>1. Untaken' = Untaken
    BY <1>22 DEF Untaken
  <2>2. QED
    BY <1>22, <2>1
<1>23. QED
  BY <1>1, <1>2, <1>3, <1>4, <1>5, <1>6, <1>7, <1>8, <1>9, <1>10, <1>11, <1>12,
     <1>13, <1>14, <1>15, <1>16, <1>17, <1>18, <1>19, <1>20, <1>21, <1>22
     DEF Next, MergerStep, ThreadStep, WorkerStep

\* Every step leaves each merge in one place.
LEMMA DataInvStep == Inv /\ [Next]_vars => DataInv'
<1> SUFFICES ASSUME Inv, [Next]_vars
             PROVE  DataInv'
  OBVIOUS
<1> USE
        DEF Inv, TypeOK, PoolTypeOK, DataInv, Goto, vars, poolVars, userVars,
            workerVars, mergeVars
<1>1. CASE Merge
  <2>1. /\ submitted' = submitted + 1
        /\ taskQueue' = Append(taskQueue, submitted + 1)
        /\ UNCHANGED <<hand, done>>
    BY <1>1 DEF Merge
  <2>2. /\ Len(taskQueue') = Len(taskQueue) + 1
        /\ \A i \in 1..Len(taskQueue) : taskQueue'[i] = taskQueue[i]
        /\ taskQueue'[Len(taskQueue) + 1] = submitted + 1
    BY <2>1, MergesAreNumbers
  <2>3. \A m \in 1..submitted' : m \in 1..submitted \/ m = submitted + 1
    BY <2>1, MergesAreNumbers
  <2>4. \A m \in 1..submitted : m # submitted + 1 /\ m \in 1..submitted'
    BY <2>1, MergesAreNumbers
  <2>5. \A i \in 1..Len(taskQueue') : i \in 1..Len(taskQueue) \/ i = Len(taskQueue) + 1
    BY <2>2
  <2>6. submitted + 1 \notin done /\ \A w \in Workers : hand[w] # submitted + 1
    BY <2>4, MergesAreNumbers DEF NoMerge
  <2>7. \A m \in 1..submitted' :
           \/ m \in done'
           \/ \E i \in 1..Len(taskQueue') : taskQueue'[i] = m
           \/ \E w \in Workers : hand'[w] = m
    BY <2>1, <2>2, <2>3
  <2>8. \A i \in 1..Len(taskQueue') :
           /\ taskQueue'[i] \in 1..submitted'
           /\ taskQueue'[i] \notin done'
           /\ \A j \in 1..Len(taskQueue') : taskQueue'[i] = taskQueue'[j] => i = j
           /\ \A w \in Workers : hand'[w] # taskQueue'[i]
    BY <2>1, <2>2, <2>4, <2>5, <2>6, MergesAreNumbers
  <2>9. QED
    BY <2>1, <2>4, <2>7, <2>8
<1>2. CASE WaitFinish
  BY <1>2 DEF WaitFinish, JoinAll
<1>3. CASE Finished
  BY <1>3 DEF Finished, Joined
<1>4. CASE DestroyScheduler
  BY <1>4 DEF DestroyScheduler, Destroy
<1>5. CASE FindIdle /\ UNCHANGED mergeVars
  BY <1>5 DEF FindIdle
<1>6. CASE FindNone /\ UNCHANGED mergeVars
  BY <1>6 DEF FindNone
<1>7. CASE BeginWait /\ UNCHANGED mergeVars
  BY <1>7 DEF BeginWait
<1>8. CASE EndWait /\ UNCHANGED mergeVars
  BY <1>8 DEF EndWait
<1>9. CASE Activate /\ UNCHANGED mergeVars
  BY <1>9 DEF Activate
<1>10. CASE Start /\ UNCHANGED mergeVars
  BY <1>10 DEF Start
<1>11. CASE JoinIdle /\ UNCHANGED mergeVars
  BY <1>11 DEF JoinIdle
<1>12. CASE JoinBusy /\ UNCHANGED mergeVars
  BY <1>12 DEF JoinBusy
<1>13. CASE JoinCompleted /\ UNCHANGED mergeVars
  BY <1>13 DEF JoinCompleted
<1>14. CASE Release /\ UNCHANGED mergeVars
  BY <1>14 DEF Release
<1>15. CASE Released /\ UNCHANGED mergeVars
  BY <1>15 DEF Released
<1>16. CASE \E w \in Workers : Take(w)
  <2>1. PICK w \in Workers : Take(w)
    BY <1>16
  <2>2. taskQueue # <<>>
    BY <2>1 DEF Take
  <2>3. DataInv'
    <3>1. /\ hand' = [hand EXCEPT ![w] = taskQueue[1]]
          /\ hand[w] = NoMerge
          /\ taskQueue' = Tail(taskQueue)
          /\ UNCHANGED <<submitted, done>>
      BY <2>1, <2>2 DEF Take
    <3>2. /\ 1 \in 1..Len(taskQueue)
          /\ \A i \in 1..Len(taskQueue') : /\ i + 1 \in 1..Len(taskQueue)
                                          /\ taskQueue'[i] = taskQueue[i + 1]
          /\ \A i \in 1..Len(taskQueue) : i = 1 \/ i - 1 \in 1..Len(taskQueue')
      BY <2>2, <3>1
    <3>3. \A i \in 1..Len(taskQueue) : i # 1 => taskQueue'[i - 1] = taskQueue[i]
      BY <2>2, <3>1, <3>2
    <3>4. \A m \in 1..submitted' :
             \/ m \in done'
             \/ \E i \in 1..Len(taskQueue') : taskQueue'[i] = m
             \/ \E v \in Workers : hand'[v] = m
      <4>1. SUFFICES ASSUME NEW m \in 1..submitted, m \notin done
                     PROVE  \/ \E i \in 1..Len(taskQueue') : taskQueue'[i] = m
                            \/ \E v \in Workers : hand'[v] = m
        BY <3>1
      <4>2. CASE \E i \in 1..Len(taskQueue) : taskQueue[i] = m
        <5>1. PICK i \in 1..Len(taskQueue) : taskQueue[i] = m
          BY <4>2
        <5>2. CASE i = 1
          BY <5>1, <5>2, <3>1
        <5>3. CASE i # 1
          BY <5>1, <5>3, <3>2, <3>3
        <5>4. QED
          BY <5>2, <5>3
      <4>3. CASE \E v \in Workers : hand[v] = m
        BY <4>3, <3>1 DEF NoMerge
      <4>4. QED
        BY <4>1, <4>2, <4>3
    <3>5. \A i \in 1..Len(taskQueue') :
             /\ taskQueue'[i] \in 1..submitted'
             /\ taskQueue'[i] \notin done'
             /\ \A j \in 1..Len(taskQueue') : taskQueue'[i] = taskQueue'[j] => i = j
             /\ \A v \in Workers : hand'[v] # taskQueue'[i]
      <4>1. SUFFICES ASSUME NEW i \in 1..Len(taskQueue')
                     PROVE  /\ taskQueue[i + 1] \in 1..submitted
                            /\ taskQueue[i + 1] \notin done
                            /\ \A j \in 1..Len(taskQueue') :
                                  taskQueue[i + 1] = taskQueue[j + 1] => i = j
                            /\ \A v \in Workers : hand'[v] # taskQueue[i + 1]
        BY <3>1, <3>2
      <4>2. i + 1 \in 1..Len(taskQueue) /\ i + 1 # 1
        BY <3>2
      <4>3. \A j \in 1..Len(taskQueue') : taskQueue[i + 1] = taskQueue[j + 1] => i = j
        BY <3>2, <4>2
      <4>4. taskQueue[i + 1] # taskQueue[1]
        BY <3>2, <4>2
      <4>5. QED
        BY <3>1, <4>2, <4>3, <4>4
    <3>6. \A v \in Workers : hand'[v] # NoMerge =>
             /\ hand'[v] \in 1..submitted'
             /\ hand'[v] \notin done'
             /\ \A u \in Workers : hand'[u] = hand'[v] => u = v
      BY <3>1, <3>2
    <3>7. QED
      BY <3>4, <3>5, <3>6
  <2>4. QED
    BY <2>2, <2>3
<1>17. CASE \E w \in Workers : Perform(w)
  <2>1. PICK w \in Workers : Perform(w)
    BY <1>17
  <2>2. /\ hand[w] # NoMerge
        /\ done' = done \cup {hand[w]}
        /\ hand' = [hand EXCEPT ![w] = NoMerge]
        /\ UNCHANGED <<taskQueue, submitted>>
    BY <2>1 DEF Perform
  <2>3. QED
    BY <2>2, MergesAreNumbers DEF NoMerge
<1>18. CASE \E w \in Workers : Wake(w) /\ UNCHANGED mergeVars
  BY <1>18 DEF Wake
<1>19. CASE \E w \in Workers : Test(w) /\ UNCHANGED mergeVars
  BY <1>19 DEF Test
<1>20. CASE \E w \in Workers : Finish(w) /\ UNCHANGED mergeVars
  BY <1>20 DEF Finish
<1>21. CASE \E w \in Workers : Broadcast(w) /\ UNCHANGED mergeVars
  BY <1>21 DEF Broadcast
<1>22. CASE UNCHANGED vars
  BY <1>22
<1>23. QED
  BY <1>1, <1>2, <1>3, <1>4, <1>5, <1>6, <1>7, <1>8, <1>9, <1>10, <1>11, <1>12,
     <1>13, <1>14, <1>15, <1>16, <1>17, <1>18, <1>19, <1>20, <1>21, <1>22
     DEF Next, MergerStep, ThreadStep, WorkerStep

-----------------------------------------------------------------------------
LEMMA InvInit == Init => Inv
  <1> SUFFICES ASSUME Init
               PROVE  Inv
    OBVIOUS
  <1> USE DEF Init, PoolInit
  <1>1. TypeOK
    <2>1. PoolTypeOK
      BY DEF PoolTypeOK
    <2>2. Len(taskQueue) <= Capacity /\ taskQueue \in Seq(Merges)
      BY CapacityIsNumber
    <2>3. QED
      BY <2>1, <2>2 DEF TypeOK
  <1>2. ThreadInv
    BY DEF ThreadInv, Calm, Stopping
  <1>3. JoinInv
    BY DEF JoinInv, Calm, Stopping
  <1>4. CountInv
    <2>1. Untaken = {}
      BY DEF Untaken
    <2>2. QED
      BY <2>1, FS_EmptySet DEF CountInv, Starting
  <1>5. DataInv
    BY DEF DataInv
  <1>6. QED
    BY <1>1, <1>2, <1>3, <1>4, <1>5 DEF Inv

THEOREM Invariance == Spec => []Inv
  <1>1. Inv /\ [Next]_vars => Inv'
    BY TypeStep, ThreadInvStep, JoinInvStep, CountInvStep, DataInvStep DEF Inv
  <1>2. QED
    BY InvInit, <1>1, PTL DEF Spec

\* TypeCorrect: for any number of threads, files and proposals the queue of merges never
\* holds more than its capacity, and everything has its type.
THEOREM TypeCorrect == Spec => []TypeOK
  <1>1. Inv => TypeOK
    BY DEF Inv
  <1>2. QED
    BY <1>1, Invariance, PTL

\* AssertionsNeverFail: no assertion of PooledThread fails, and no thread calls run() of a
\* target that was taken away.
THEOREM AssertionsNeverFail == Spec => []AssertionsHold
  <1>1. Inv => AssertionsHold
    BY DEF Inv, ThreadInv, Calm, Taken, Busy, AssertionsHold
  <1>2. QED
    BY <1>1, Invariance, PTL

\* TasksFindMerges: whatever the order in which tasks are started, run and take merges,
\* there is a merge for each, so that none of them waits in waitDequeue for ever, and none
\* is left to use m_taskQueue when that is destroyed, before the pool whose threads use it.
THEOREM TasksFindMerges == Spec => []NoTaskStarves
  <1>1. Inv => NoTaskStarves
    <2> SUFFICES ASSUME Inv
                 PROVE  NoTaskStarves
      OBVIOUS
    <2>1. Cardinality(Untaken) <= Len(taskQueue)
      BY UntakenFinite DEF Inv, CountInv, TypeOK
    <2>2. ASSUME Stopping
          PROVE  Untaken = {}
      <3>1. \A w \in Workers : Calm(w)
        BY <2>2 DEF Inv, JoinInv
      <3>2. QED
        BY <3>1 DEF Untaken, Calm
    <2>3. QED
      BY <2>1, <2>2 DEF NoTaskStarves, Stopping
  <1>2. QED
    BY <1>1, Invariance, PTL

-----------------------------------------------------------------------------
(* The refinement                                                          *)

\* When nobody is left to join, all merges are done.
LEMMA JoinedMeansDone == Inv /\ pc = "join" /\ toJoin = {} => done = 1..submitted
  <1> SUFFICES ASSUME Inv, pc = "join", toJoin = {}
               PROVE  done = 1..submitted
    OBVIOUS
  <1>1. \A w \in Workers : Calm(w)
    BY DEF Inv, JoinInv
  <1>2. Untaken = {}
    BY <1>1 DEF Untaken, Calm
  <1>3. taskQueue = <<>>
    BY <1>2, FS_EmptySet DEF Inv, CountInv, Starting, TypeOK
  <1>4. \A w \in Workers : hand[w] = NoMerge
    BY <1>1 DEF Calm, Inv, CountInv
  <1>5. \A m \in 1..submitted : m # NoMerge
    BY MergesAreNumbers DEF Inv, TypeOK, NoMerge
  <1>6. Len(taskQueue) = 0 /\ done \subseteq 1..submitted
    BY <1>3 DEF Inv, TypeOK
  <1>7. \A m \in 1..submitted : m \in done
    BY <1>4, <1>5, <1>6 DEF Inv, DataInv
  <1>8. QED
    BY <1>6, <1>7

LEMMA RefinementStep == Inv /\ [Next]_vars => [Promise!Next]_(Promise!vars)
  <1> SUFFICES ASSUME Inv, [Next]_vars
               PROVE  [Promise!Next]_(Promise!vars)
    OBVIOUS
  <1> USE DEF Promise!Next, Promise!vars
  <1>1. CASE Merge
    BY <1>1 DEF Merge, Promise!Merge
  <1>2. CASE Finished
    BY <1>2, JoinedMeansDone DEF Finished, Joined, Promise!WaitFinish
  <1>3. CASE \E w \in Workers : Perform(w)
    BY <1>3 DEF Perform, Promise!Perform, Inv, DataInv
  <1>4. CASE WaitFinish \/ DestroyScheduler
    BY <1>4 DEF WaitFinish, DestroyScheduler, mergeVars
  <1>5. CASE \E w \in Workers : Take(w)
    BY <1>5 DEF Take
  <1>6. CASE UNCHANGED mergeVars
    BY <1>6 DEF mergeVars
  <1>7. CASE UNCHANGED vars
    BY <1>7 DEF vars, mergeVars
  <1>8. QED
    BY <1>1, <1>2, <1>3, <1>4, <1>5, <1>6, <1>7 DEF Next, MergerStep, ThreadStep

\* RefinesMergeScheduler: the scheduler with its queue and its pool of threads implements
\* MergeScheduler: every merge once, and waitFinish only returns when all are done.
THEOREM RefinesMergeScheduler == Spec => ImplementsMergeScheduler
  <1>1. Init => Promise!Init
    BY DEF Init, Promise!Init
  <1>2. QED
    BY <1>1, RefinementStep, Invariance, PTL DEF Spec, Promise!Spec, ImplementsMergeScheduler

=============================================================================
