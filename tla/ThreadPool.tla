------------------------------ MODULE ThreadPool ------------------------------
(***************************************************************************)
(* The pool of threads that runs the merges of an index, and the threads   *)
(* in it: ThreadPool and PooledThread.  Its two sizes are equal, as they   *)
(* are in ConcurrentMergeScheduler and AsyncDocumentConsumer, so all of    *)
(* its threads are there from the start and housekeep() returns at once.   *)
(*                                                                         *)
(* One thread, the user, calls the pool's functions, so the pool's m_mutex *)
(* is not seen.  A PooledThread's m_mutex is: the thread keeps it from the *)
(* end of a target to the end of its broadcast.                            *)
(*                                                                         *)
(* What a target does is left to the module that extends this one: its     *)
(* Run actions lead from "running" to "ran".                               *)
(***************************************************************************)
EXTENDS Naturals, FiniteSets

CONSTANTS
    Workers,  \* the PooledThreads
    NoWorker

ASSUME WorkersAssumption == IsFiniteSet(Workers) /\ NoWorker \notin Workers

VARIABLES
    pc,        \* where the user's thread is in a function of the pool
    chosen,    \* the thread getThread is about to return
    toJoin,    \* the threads joinAll, or stopAll, has still to look at
    signalled, \* the Event under which the user waits on m_cond is set
    place,     \* [Workers -> where PooledThread::run is]
    hasTarget, \* [Workers -> m_pTarget is not null]
    idle,      \* [Workers -> m_bIdle]
    ready,     \* [Workers -> m_targetReady], resets itself
    completed  \* [Workers -> m_targetCompleted], does not

userVars == <<pc, chosen, toJoin, signalled>>
workerVars == <<place, hasTarget, idle, ready, completed>>
poolVars == <<userVars, workerVars>>

PoolInit ==
    /\ pc = "out"
    /\ chosen = NoWorker
    /\ toJoin = {}
    /\ signalled = FALSE
    /\ place = [w \in Workers |-> "ready"]
    /\ hasTarget = [w \in Workers |-> FALSE]
    /\ idle = [w \in Workers |-> TRUE]
    /\ ready = [w \in Workers |-> FALSE]
    /\ completed = [w \in Workers |-> FALSE]

\* FastMutex::Guard on the thread's m_mutex
Unlocked(w) == place[w] # "finished"

Goto(w, p) == place' = [place EXCEPT ![w] = p]

-----------------------------------------------------------------------------
(* ThreadPool::start(target, true)                                         *)

\* getThread, an idle thread.  The flags are read one after the other and without a
\* lock, so any thread that is idle may be the first one found.
FindIdle ==
    /\ pc = "scan"
    /\ \E w \in Workers : idle[w] /\ chosen' = w
    /\ pc' = "activate"
    /\ UNCHANGED <<toJoin, signalled, workerVars>>

\* ... or none
FindNone ==
    /\ pc = "scan"
    /\ \A w \in Workers : ~idle[w]
    /\ pc' = "missed"
    /\ UNCHANGED <<chosen, toJoin, signalled, workerVars>>

\* then m_condMutex is locked, and m_cond.wait enters its queue before it unlocks it
BeginWait ==
    /\ pc = "missed"
    /\ signalled' = FALSE
    /\ pc' = "waiting"
    /\ UNCHANGED <<chosen, toJoin, workerVars>>

\* all flags are read again
EndWait ==
    /\ pc = "waiting"
    /\ signalled
    /\ pc' = "scan"
    /\ UNCHANGED <<chosen, toJoin, signalled, workerVars>>

\* mutant: the Event of the last target stays set
ActivateNoReset ==
    /\ pc = "activate"
    /\ Unlocked(chosen)
    /\ idle' = [idle EXCEPT ![chosen] = FALSE]
    /\ pc' = "start"
    /\ UNCHANGED <<chosen, toJoin, signalled, place, hasTarget, ready, completed>>

\* PooledThread::activate
Activate ==
    /\ pc = "activate"
    /\ Unlocked(chosen)
    /\ idle' = [idle EXCEPT ![chosen] = FALSE]
    /\ completed' = [completed EXCEPT ![chosen] = FALSE]
    /\ pc' = "start"
    /\ UNCHANGED <<chosen, toJoin, signalled, place, hasTarget, ready>>

\* PooledThread::start
Start ==
    /\ pc = "start"
    /\ Unlocked(chosen)
    /\ hasTarget' = [hasTarget EXCEPT ![chosen] = TRUE]
    /\ ready' = [ready EXCEPT ![chosen] = TRUE]
    /\ chosen' = NoWorker
    /\ pc' = "out"
    /\ UNCHANGED <<toJoin, signalled, place, idle, completed>>

-----------------------------------------------------------------------------
(* joinAll, and the destructor: stopAll and then joinAll                   *)

JoinAll ==
    /\ pc = "out"
    /\ pc' = "join"
    /\ toJoin' = Workers
    /\ UNCHANGED <<chosen, signalled, workerVars>>

\* PooledThread::join, of a thread that has nothing to do
JoinIdle ==
    /\ pc = "join"
    /\ \E w \in toJoin :
        /\ Unlocked(w)
        /\ ~hasTarget[w] /\ idle[w]
        /\ toJoin' = toJoin \ {w}
    /\ UNCHANGED <<pc, chosen, signalled, workerVars>>

\* ... and of one that has, or will have, a target: m_targetCompleted.wait()
JoinBusy ==
    /\ pc = "join"
    /\ \E w \in toJoin :
        /\ Unlocked(w)
        /\ hasTarget[w] \/ ~idle[w]
        /\ chosen' = w
    /\ pc' = "completing"
    /\ UNCHANGED <<toJoin, signalled, workerVars>>

JoinCompleted ==
    /\ pc = "completing"
    /\ completed[chosen]
    /\ toJoin' = toJoin \ {chosen}
    /\ chosen' = NoWorker
    /\ pc' = "join"
    /\ UNCHANGED <<signalled, workerVars>>

Joined ==
    /\ pc = "join"
    /\ toJoin = {}
    /\ pc' = "out"
    /\ UNCHANGED <<chosen, toJoin, signalled, workerVars>>

Destroy ==
    /\ pc = "out"
    /\ pc' = "stop"
    /\ toJoin' = Workers
    /\ UNCHANGED <<chosen, signalled, workerVars>>

\* PooledThread::release takes the target away and wakes the thread ...
Release ==
    /\ pc = "stop"
    /\ \E w \in toJoin :
        /\ Unlocked(w)
        /\ hasTarget' = [hasTarget EXCEPT ![w] = FALSE]
        /\ ready' = [ready EXCEPT ![w] = TRUE]
        /\ chosen' = w
    /\ pc' = "release"
    /\ UNCHANGED <<toJoin, signalled, place, idle, completed>>

\* ... and joins it; the joinAll that follows the last one finds them all idle
Released ==
    /\ pc = "release"
    /\ place[chosen] = "exited"
    /\ toJoin' = toJoin \ {chosen}
    /\ chosen' = NoWorker
    /\ pc' = IF toJoin = {chosen} THEN "gone" ELSE "stop"
    /\ UNCHANGED <<signalled, workerVars>>

-----------------------------------------------------------------------------
(* PooledThread::run                                                       *)

Wake(w) ==
    /\ place[w] = "ready"
    /\ ready[w]
    /\ ready' = [ready EXCEPT ![w] = FALSE]
    /\ Goto(w, "awake")
    /\ UNCHANGED <<userVars, hasTarget, idle, completed>>

\* no target: the thread ends
Test(w) ==
    /\ place[w] = "awake"
    /\ IF hasTarget[w]
       THEN Goto(w, "running") /\ UNCHANGED idle
       ELSE Goto(w, "exited") /\ idle' = [idle EXCEPT ![w] = TRUE]
    /\ UNCHANGED <<userVars, hasTarget, ready, completed>>

\* mutant: whoever joins is told before the target is forgotten
FinishKeepingTarget(w) ==
    /\ place[w] = "ran"
    /\ idle' = [idle EXCEPT ![w] = TRUE]
    /\ completed' = [completed EXCEPT ![w] = TRUE]
    /\ Goto(w, "finished")
    /\ UNCHANGED <<userVars, hasTarget, ready>>

\* mutant: m_targetCompleted is not set
FinishSilently(w) ==
    /\ place[w] = "ran"
    /\ hasTarget' = [hasTarget EXCEPT ![w] = FALSE]
    /\ idle' = [idle EXCEPT ![w] = TRUE]
    /\ Goto(w, "finished")
    /\ UNCHANGED <<userVars, ready, completed>>

\* the target has run; m_mutex is locked
Finish(w) ==
    /\ place[w] = "ran"
    /\ hasTarget' = [hasTarget EXCEPT ![w] = FALSE]
    /\ idle' = [idle EXCEPT ![w] = TRUE]
    /\ completed' = [completed EXCEPT ![w] = TRUE]
    /\ Goto(w, "finished")
    /\ UNCHANGED <<userVars, ready>>

\* ThreadPool::broadcast, to a user who waits already; m_mutex is unlocked
Broadcast(w) ==
    /\ place[w] = "finished"
    /\ signalled' = (signalled \/ pc = "waiting")
    /\ Goto(w, "ready")
    /\ UNCHANGED <<pc, chosen, toJoin, hasTarget, idle, ready, completed>>

WorkerStep(w) == Wake(w) \/ Test(w) \/ Finish(w) \/ Broadcast(w)

-----------------------------------------------------------------------------
(* Properties                                                              *)

\* PoolTypeOK: the threads and the user's thread are at known places.
PoolTypeOK ==
    /\ pc \in {"out", "scan", "missed", "waiting", "activate", "start", "join", "completing",
               "stop", "release", "gone"}
    /\ chosen \in Workers \cup {NoWorker}
    /\ toJoin \subseteq Workers
    /\ signalled \in BOOLEAN
    /\ place \in [Workers -> {"ready", "awake", "running", "ran", "finished", "exited"}]
    /\ hasTarget \in [Workers -> BOOLEAN]
    /\ idle \in [Workers -> BOOLEAN]
    /\ ready \in [Workers -> BOOLEAN]
    /\ completed \in [Workers -> BOOLEAN]

\* AssertionsHold: a thread that activate() takes is idle (FIRTEX_ASSERT2(m_bIdle)), one
\* that start() gives a target has none (FIRTEX_ASSERT2(m_pTarget == 0)), although both
\* look at what the thread writes without the pool's lock; and the target that run() calls,
\* outside m_mutex, is still there.
AssertionsHold ==
    /\ pc = "activate" => idle[chosen]
    /\ pc = "start" => ~hasTarget[chosen]
    /\ \A w \in Workers : place[w] \in {"running", "ran"} => hasTarget[w]

=============================================================================
