------------------------ MODULE AsyncCommitScheduler ------------------------
(***************************************************************************)
(* index/AsyncCommitScheduler: a queue of committable objects (the merged  *)
(* in-memory barrels) and the one thread that commits them.  The queue is  *)
(* the BoundedConcurrentQueue of its own module, with its waiters and      *)
(* timeouts; here are the commit thread, commit(), waitCommit(), close(),  *)
(* and the mutex and flag that commit thread and waitCommit share.         *)
(***************************************************************************)
EXTENDS Naturals, Sequences, FiniteSets, Functions

CONSTANTS
    Clients,       \* the threads that call the scheduler
    CommitThread,  \* m_commitThread
    Objects,       \* the submissions of committable objects (one made twice is two)
    Null,          \* the null pointer close() enqueues
    NoElement,     \* no value (of the queue)
    QueueSize,     \* DEFAULT_COMMIT_QUEUE_SIZE
    MayWait        \* the clients that call waitCommit

ASSUME SizeAssumption == QueueSize \in Nat \ {0}
ASSUME WaiterAssumption == MayWait \subseteq Clients
ASSUME NameAssumption == /\ CommitThread \notin Clients \cup {"none"}
                         /\ Null \notin Objects
                         /\ NoElement \notin Objects \cup {Null}

VARIABLES
    elements, waitQueue, call, status, operand,  \* m_commitQueue
    pc,          \* where each thread is
    draining,    \* the commit thread has left its first loop
    stopped,     \* m_bStopped
    committing,  \* m_bCommitting
    holder,      \* the thread that holds m_mutex, or "none"
    condQueue,   \* the threads that wait on m_cond
    accepted,    \* history: the objects in the order enqueue took them
    committed,   \* history: the objects in the order they were committed
    promised     \* history: [Clients -> what was accepted when waitCommit began]

queueVars == <<elements, waitQueue, call, status, operand>>
flagVars == <<stopped, committing, holder, condQueue>>
historyVars == <<accepted, committed, promised>>
vars == <<queueVars, pc, draining, flagVars, historyVars>>

Threads == Clients \cup {CommitThread}

Queue == INSTANCE BoundedConcurrentQueue WITH
            Elements <- Objects \cup {Null},
            Capacity <- QueueSize,
            MayCall  <- [t \in Threads |-> IF t = CommitThread THEN {"waitDequeue"}
                                           ELSE {"enqueue", "waitEmpty"}]

Init ==
    /\ Queue!Init
    /\ pc = [t \in Threads |-> IF t = CommitThread THEN "loop" ELSE "idle"]
    /\ draining = FALSE
    /\ stopped = FALSE
    /\ committing = FALSE
    /\ holder = "none"
    /\ condQueue = <<>>
    /\ accepted = <<>>
    /\ committed = <<>>
    /\ promised = [t \in Clients |-> {}]

Goto(t, place) == pc' = [pc EXCEPT ![t] = place]

-----------------------------------------------------------------------------
(* Inside the queue: any step of a thread that is in one of its operations. *)

\* The object an enqueue takes, as a sequence; nothing for the null pointer
Taken == IF Len(elements') > Len(elements) /\ elements'[Len(elements')] # Null
         THEN <<elements'[Len(elements')]>>
         ELSE <<>>

QueueStep(t) ==
    /\ Queue!Step(t)
    /\ accepted' = accepted \o Taken
    /\ UNCHANGED <<pc, draining, flagVars, committed, promised>>

-----------------------------------------------------------------------------
(* The clients                                                             *)

\* commit(pCommitObj)
Commit(t, o) ==
    /\ pc[t] = "idle" /\ ~stopped
    /\ o \notin Range(accepted) \cup {operand[u] : u \in Clients}
    /\ Queue!Invoke(t, "enqueue", o)
    /\ Goto(t, "commit")
    /\ UNCHANGED <<draining, flagVars, historyVars>>

\* mutant: waitCommit looks at the flag only
WaitCommitWithoutQueue(t) ==
    /\ pc[t] = "idle" /\ ~stopped
    /\ t \in MayWait
    /\ promised' = [promised EXCEPT ![t] = Range(accepted)]
    /\ Goto(t, "check")
    /\ UNCHANGED <<queueVars, draining, flagVars, accepted, committed>>

\* waitCommit(): first m_commitQueue.waitEmpty()
WaitCommit(t) ==
    /\ pc[t] = "idle" /\ ~stopped
    /\ t \in MayWait
    /\ Queue!Invoke(t, "waitEmpty", NoElement)
    /\ promised' = [promised EXCEPT ![t] = Range(accepted)]
    /\ Goto(t, "waitEmpty")
    /\ UNCHANGED <<draining, flagVars, accepted, committed>>

\* the queue operation has returned: commit() returns, the others go on
Return(t) ==
    /\ call[t] = "none"
    /\ pc[t] \in {"commit", "waitEmpty", "close"}
    /\ Goto(t, CASE pc[t] = "commit"    -> "idle"
                 [] pc[t] = "waitEmpty" -> "check"
                 [] pc[t] = "close"     -> "join")
    /\ UNCHANGED <<queueVars, draining, flagVars, historyVars>>

\* waitCommit(): then, under m_mutex, m_cond.wait if m_bCommitting
CheckCommitting(t) ==
    /\ pc[t] = "check"
    /\ holder = "none"
    /\ Goto(t, IF committing THEN "condWait" ELSE "idle")
    /\ condQueue' = IF committing THEN Append(condQueue, t) ELSE condQueue
    /\ UNCHANGED <<queueVars, draining, stopped, committing, holder, historyVars>>

\* close(): m_bStopped, then a null pointer behind everything in the queue.
\* IndexWriter closes its pipeline, and joins its threads, before it lets the
\* scheduler go: no other client is in a call then or makes one later.
Close(t) ==
    /\ \A u \in Clients : pc[u] = "idle"
    /\ ~stopped
    /\ stopped' = TRUE
    /\ Queue!Invoke(t, "enqueue", Null)
    /\ Goto(t, "close")
    /\ UNCHANGED <<draining, committing, holder, condQueue, historyVars>>

\* close(): m_commitThread.join()
Join(t) ==
    /\ pc[t] = "join"
    /\ pc[CommitThread] = "exited"
    /\ Goto(t, "closed")
    /\ UNCHANGED <<queueVars, draining, flagVars, historyVars>>

-----------------------------------------------------------------------------
(* run(), the commit thread                                                *)

\* while (!m_bStopped) waitDequeue() ...; a waitDequeue blocks while empty
Loop ==
    /\ pc[CommitThread] = "loop"
    /\ ~draining
    /\ \/ /\ ~stopped
          /\ Queue!Invoke(CommitThread, "waitDequeue", NoElement)
          /\ Goto(CommitThread, "take")
          /\ UNCHANGED draining
       \/ /\ stopped
          /\ draining' = TRUE
          /\ UNCHANGED <<queueVars, pc>>
    /\ UNCHANGED <<flagVars, historyVars>>

\* mutant: a stopped commit thread leaves at once
DrainNothing ==
    /\ pc[CommitThread] = "loop"
    /\ draining
    /\ Goto(CommitThread, "exited")
    /\ UNCHANGED <<queueVars, draining, flagVars, historyVars>>

\* ... then while (!m_commitQueue.isEmpty()) waitDequeue() ...
Drain ==
    /\ pc[CommitThread] = "loop"
    /\ draining
    /\ \/ /\ elements # <<>>
          /\ Queue!Invoke(CommitThread, "waitDequeue", NoElement)
          /\ Goto(CommitThread, "take")
       \/ /\ elements = <<>>
          /\ Goto(CommitThread, "exited")
          /\ UNCHANGED queueVars
    /\ UNCHANGED <<draining, flagVars, historyVars>>

\* mutant: once stopped, what is taken is dropped
TakeNullOrStopped ==
    /\ pc[CommitThread] = "take" /\ call[CommitThread] = "none"
    /\ operand[CommitThread] = Null \/ stopped
    /\ draining' = TRUE
    /\ Goto(CommitThread, "loop")
    /\ UNCHANGED <<queueVars, flagVars, historyVars>>

\* A null pointer ends the first loop and is skipped by the second.
TakeNull ==
    /\ pc[CommitThread] = "take" /\ call[CommitThread] = "none"
    /\ operand[CommitThread] = Null
    /\ draining' = TRUE
    /\ Goto(CommitThread, "loop")
    /\ UNCHANGED <<queueVars, flagVars, historyVars>>

\* mutant: no test for the null pointer
BeginCommitOfNull ==
    /\ pc[CommitThread] = "take" /\ call[CommitThread] = "none"
    /\ holder = "none"
    /\ holder' = CommitThread
    /\ committing' = TRUE
    /\ Goto(CommitThread, "committing")
    /\ UNCHANGED <<queueVars, draining, stopped, condQueue, historyVars>>

\* An object: lock m_mutex, m_bCommitting = true, pCommitObj->commit() begins
BeginCommit ==
    /\ pc[CommitThread] = "take" /\ call[CommitThread] = "none"
    /\ operand[CommitThread] # Null
    /\ holder = "none"
    /\ holder' = CommitThread
    /\ committing' = TRUE
    /\ Goto(CommitThread, "committing")
    /\ UNCHANGED <<queueVars, draining, stopped, condQueue, historyVars>>

\* pCommitObj->commit() is done: m_bCommitting = false, and only in the first
\* loop m_cond.signal(); the Guard's destructor unlocks m_mutex
Signalled == IF ~draining /\ condQueue # <<>> THEN {Head(condQueue)} ELSE {}

\* mutant: the mutex is not released
EndCommitLocked ==
    /\ pc[CommitThread] = "committing"
    /\ committed' = Append(committed, operand[CommitThread])
    /\ committing' = FALSE
    /\ Goto(CommitThread, "loop")
    /\ UNCHANGED <<queueVars, draining, stopped, holder, condQueue, accepted, promised>>

EndCommit ==
    /\ pc[CommitThread] = "committing"
    /\ committed' = Append(committed, operand[CommitThread])
    /\ committing' = FALSE
    /\ holder' = "none"
    /\ condQueue' = IF Signalled = {} THEN condQueue ELSE Tail(condQueue)
    /\ pc' = [t \in Threads |-> IF t = CommitThread THEN "loop"
                                ELSE IF t \in Signalled THEN "idle" ELSE pc[t]]
    /\ UNCHANGED <<queueVars, draining, stopped, accepted, promised>>

-----------------------------------------------------------------------------

CommitThreadStep == QueueStep(CommitThread) \/ Loop \/ Drain \/ TakeNull
                      \/ BeginCommit \/ EndCommit

ClientStep(t) == QueueStep(t) \/ Return(t) \/ CheckCommitting(t) \/ Join(t)

\* The scheduler is destroyed: nothing more happens.
Closed == /\ \E t \in Clients : pc[t] = "closed"
          /\ UNCHANGED vars

Next ==
    \/ CommitThreadStep
    \/ \E t \in Clients :
          \/ \E o \in Objects : Commit(t, o)
          \/ WaitCommit(t)
          \/ Close(t)
          \/ ClientStep(t)
    \/ Closed

Spec == Init /\ [][Next]_vars

\* A thread that can run is run, and a call that was made goes on; commit() of
\* an object ends.  Nobody is obliged to call.
FairSpec == Spec /\ WF_vars(CommitThreadStep) /\ \A t \in Clients : WF_vars(ClientStep(t))

-----------------------------------------------------------------------------
(* Properties                                                              *)

Places == {"idle", "commit", "waitEmpty", "check", "condWait", "close", "join",
           "closed", "loop", "take", "committing", "exited"}

TypeOK ==
    /\ Queue!TypeOK
    /\ pc \in [Threads -> Places]
    /\ draining \in BOOLEAN /\ stopped \in BOOLEAN /\ committing \in BOOLEAN
    /\ holder \in {"none", CommitThread}
    /\ condQueue \in Seq(Clients)
    /\ accepted \in Seq(Objects) /\ committed \in Seq(Objects)
    /\ promised \in [Clients -> SUBSET Objects]

\* What the commit thread has taken from the queue and not yet committed
InHand ==
    IF /\ pc[CommitThread] \in {"take", "committing"}
       /\ call[CommitThread] = "none"
       /\ operand[CommitThread] # Null
    THEN <<operand[CommitThread]>> ELSE <<>>

\* The objects in the queue; a null pointer can only be behind all of them.
Pending == IF elements # <<>> /\ elements[Len(elements)] = Null
           THEN SubSeq(elements, 1, Len(elements) - 1)
           ELSE elements

\* Every object accepted is committed, in hand or in the queue, exactly once and
\* in the order it was accepted, whatever the callers do meanwhile.
NothingLost == accepted = committed \o InHand \o Pending

\* close() returns only when everything ever accepted is committed.
CloseCommitsAll ==
    (\E t \in Clients : pc[t] = "closed") => committed = accepted

Waited(t) == pc[t] = "check" /\ pc'[t] = "idle"

\* "Wait until all committable object in queue is committed"
\* (AsyncCommitScheduler.h:41), as far as it goes: of what was accepted when
\* waitCommit was called, only the object that the commit thread has popped, and has
\* not locked m_mutex for yet, may be uncommitted when it returns.
WaitCommitMissesOnlyInHand ==
    [][\A t \in Clients :
          Waited(t) => promised[t] \subseteq Range(committed \o InHand)]_vars

\* m_bCommitting is only ever true while m_mutex is held, so waitCommit, which
\* reads it under m_mutex, never finds it true and never waits on m_cond.
FlagHiddenByMutex == (committing => holder = CommitThread) /\ condQueue = <<>>

\* Every accepted object is committed in the end, and a close() that begins
\* returns.
EventuallyCommitted ==
    /\ \A o \in Objects : o \in Range(accepted) ~> o \in Range(committed)
    /\ stopped ~> (\E t \in Clients : pc[t] = "closed")

=============================================================================
