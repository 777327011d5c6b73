----------------------- MODULE ConcurrentMergeScheduler -----------------------
(***************************************************************************)
(* ConcurrentMergeScheduler over the detailed ThreadPool, and IndexMerger  *)
(* as it uses it: for each proposal the merges of all files, waitFinish,   *)
(* the deletion filter, waitFinish again; at the end it is destroyed.      *)
(*                                                                         *)
(* A task does not carry its merge: it takes whichever is first in the     *)
(* queue.  The queue is the atomic FIFO BoundedConcurrentQueue implements. *)
(***************************************************************************)
EXTENDS ThreadPool, Sequences

CONSTANTS
    Files,     \* number of files, or fields, that are merged side by side
    Proposals  \* bound: proposals

ASSUME FilesAssumption == Files \in Nat \ {0} /\ Proposals \in Nat

VARIABLES
    taskQueue, \* m_taskQueue
    hand,      \* [Workers -> the merge Task::run has, or NoMerge]
    submitted, \* IndexMerger's calls of merge()
    waited,    \* ... those before its last waitFinish()
    done       \* the merges performed

mergeVars == <<taskQueue, hand, submitted, waited, done>>
vars == <<poolVars, mergeVars>>

NoMerge == 0
Merges == 1..(Proposals * (Files + 1))

\* m_taskQueue(nThreadCount)
Capacity == Cardinality(Workers)

Init ==
    /\ PoolInit
    /\ taskQueue = <<>>
    /\ hand = [w \in Workers |-> NoMerge]
    /\ submitted = 0
    /\ waited = 0
    /\ done = {}

\* the merges of a proposal are numbered: its files and, last, the deletion filter
WaitsNow ==
    /\ submitted # waited
    /\ submitted % (Files + 1) \in {0, Files}

\* mutant: a merge that finds the queue full is forgotten
MergeDroppingWhenFull ==
    /\ pc = "out"
    /\ submitted + 1 \in Merges
    /\ ~WaitsNow
    /\ taskQueue' = IF Len(taskQueue) < Capacity THEN Append(taskQueue, submitted + 1)
                    ELSE taskQueue
    /\ submitted' = submitted + 1
    /\ pc' = "scan"
    /\ UNCHANGED <<chosen, toJoin, signalled, workerVars, hand, waited, done>>

\* mutant: enqueue does not block
MergeOverfilling ==
    /\ pc = "out"
    /\ submitted + 1 \in Merges
    /\ ~WaitsNow
    /\ taskQueue' = Append(taskQueue, submitted + 1)
    /\ submitted' = submitted + 1
    /\ pc' = "scan"
    /\ UNCHANGED <<chosen, toJoin, signalled, workerVars, hand, waited, done>>

\* merge(): enqueue, which blocks while the queue is full, then m_threadPool.start
Merge ==
    /\ pc = "out"
    /\ submitted + 1 \in Merges
    /\ ~WaitsNow
    /\ Len(taskQueue) < Capacity
    /\ taskQueue' = Append(taskQueue, submitted + 1)
    /\ submitted' = submitted + 1
    /\ pc' = "scan"
    /\ UNCHANGED <<chosen, toJoin, signalled, workerVars, hand, waited, done>>

WaitFinish ==
    /\ WaitsNow
    /\ JoinAll
    /\ UNCHANGED mergeVars

\* joinAll returns
Finished ==
    /\ Joined
    /\ waited' = submitted
    /\ UNCHANGED <<taskQueue, hand, submitted, done>>

\* ~IndexMerger, when everything is merged
DestroyScheduler ==
    /\ submitted = waited
    /\ submitted + 1 \notin Merges
    /\ Destroy
    /\ UNCHANGED mergeVars

\* Task::run: waitDequeue, which blocks while the queue is empty
Take(w) ==
    /\ place[w] = "running"
    /\ hand[w] = NoMerge
    /\ taskQueue # <<>>
    /\ hand' = [hand EXCEPT ![w] = Head(taskQueue)]
    /\ taskQueue' = Tail(taskQueue)
    /\ UNCHANGED <<poolVars, submitted, waited, done>>

\* ... and merge
Perform(w) ==
    /\ hand[w] # NoMerge
    /\ done' = done \cup {hand[w]}
    /\ hand' = [hand EXCEPT ![w] = NoMerge]
    /\ Goto(w, "ran")
    /\ UNCHANGED <<userVars, hasTarget, idle, ready, completed, taskQueue, submitted, waited>>

MergerStep ==
    \/ Merge \/ WaitFinish \/ Finished \/ DestroyScheduler
    \/ FindIdle /\ UNCHANGED mergeVars
    \/ FindNone /\ UNCHANGED mergeVars
    \/ BeginWait /\ UNCHANGED mergeVars
    \/ EndWait /\ UNCHANGED mergeVars
    \/ Activate /\ UNCHANGED mergeVars
    \/ Start /\ UNCHANGED mergeVars
    \/ JoinIdle /\ UNCHANGED mergeVars
    \/ JoinBusy /\ UNCHANGED mergeVars
    \/ JoinCompleted /\ UNCHANGED mergeVars
    \/ Release /\ UNCHANGED mergeVars
    \/ Released /\ UNCHANGED mergeVars

ThreadStep(w) ==
    \/ Take(w)
    \/ Perform(w)
    \/ WorkerStep(w) /\ UNCHANGED mergeVars

Next == MergerStep \/ \E w \in Workers : ThreadStep(w)

\* every thread runs, and a merge ends
Fairness == WF_vars(MergerStep) /\ \A w \in Workers : WF_vars(ThreadStep(w))

Spec == Init /\ [][Next]_vars

FairSpec == Spec /\ Fairness

-----------------------------------------------------------------------------
(* Properties                                                              *)

\* TypeOK: merges are numbers, in the queue, in hand or done.
TypeOK ==
    /\ PoolTypeOK
    /\ taskQueue \in Seq(Merges) /\ Len(taskQueue) <= Capacity
    /\ hand \in [Workers -> Merges \cup {NoMerge}]
    /\ submitted \in Merges \cup {0}
    /\ waited \in 0..submitted
    /\ done \subseteq 1..submitted

\* the threads whose task was started and has still to take a merge
Untaken == {w \in Workers : hasTarget[w] /\ place[w] # "ran" /\ hand[w] = NoMerge}

\* NoTaskStarves: each of the tasks that were started finds the queue, and in it a merge.
\* Tasks and merges are matched only by their number, and waitDequeue has no end without an
\* element: one task too many would keep its thread, and joinAll with it, for ever.  And
\* m_taskQueue is declared behind m_threadPool, so it is gone before the pool joins its
\* threads: only the last waitFinish keeps tasks from a queue that is no more.
NoTaskStarves ==
    /\ Cardinality(Untaken) <= Len(taskQueue)
    /\ pc \in {"stop", "release", "gone"} => Untaken = {}

Promise == INSTANCE MergeScheduler WITH
    submitted <- submitted,
    done      <- done,
    waited    <- waited

\* ImplementsMergeScheduler: each merge is performed once, and waitFinish returns only when
\* all of them are done: IndexMerger merges the deletion filter after all files, and writes
\* the commit after the filter.
ImplementsMergeScheduler == Promise!Spec

\* WaitsEnd: waitFinish() and the destructor return, and so the threads can be joined: the
\* Events they wait for are set by threads that nothing holds up.
WaitsEnd ==
    /\ pc \in {"join", "completing"} ~> pc = "out"
    /\ pc \in {"stop", "release"} ~> pc = "gone"

\* MergeReturns: merge(), which asks the pool to block while no thread is available, goes
\* on when one is (ThreadPool::start, getThread and broadcast).
MergeReturns == pc = "scan" ~> pc = "out"

=============================================================================
