------------------------ MODULE AsyncDocumentConsumer ------------------------
(***************************************************************************)
(* index/AsyncDocumentConsumer: documents go through a bounded queue to    *)
(* the building threads (Task), each with an in-memory barrel of its own;  *)
(* deletions and updates go first through a second queue to the thread     *)
(* that looks the key up in the sealed barrels (OnDiskUpdateTask).  A      *)
(* client, the thread that uses the IndexWriter, adds, deletes, updates,   *)
(* commits and closes.  The queues are atomic, as BoundedConcurrentQueue   *)
(* is shown to be; a step whose queue is full, or empty, waits.            *)
(***************************************************************************)
EXTENDS IndexBarrelKeeper, Integers

CONSTANTS
    DocQueueSize, \* GLOBAL_CONF().Build.documentQueueSize, of both queues
    Updates,      \* the documents submitted with AT_UPDATE; AT_ADD the others
    NoDoc,        \* no document
    MaxDeletes,   \* bound: calls of deleteDocument
    MaxCommits,   \* bound: calls of commit
    MaxCalls      \* bound: calls of all of the client's functions but close

ASSUME QueueAssumption == DocQueueSize \in Nat \ {0}
ASSUME UpdateAssumption == Updates \subseteq Docs /\ NoDoc \notin Docs
ASSUME BoundAssumption == {MaxDeletes, MaxCommits, MaxCalls} \subseteq Nat

VARIABLES
    docQueue,     \* m_docQueue
    updateQueue,  \* m_docUpdateQueue
    taskPc,       \* [Tasks -> where Task::run is]
    taskMsg,      \* [Tasks -> its local pDoc]
    writer,       \* [Tasks -> m_pIndexBarrelWriter]
    taskHand,     \* [Tasks -> the batch it took out of sealBarrel]
    updaterPc,    \* where OnDiskUpdateTask::run is
    updaterMsg,   \* its local pDoc
    clientPc,     \* where the client is
    turn,         \* the client's loop counter
    clientHand,   \* the batch the client took out of sealBarrel or forceCommit
    deletes,      \* calls of deleteDocument
    commits,      \* calls of commit
    consumed,     \* history: the documents consumed, in order
    deletions,    \* history: the calls of deleteDocument, with what was sealed before
    promised,     \* history: the documents consumed before the running commit()
    calm          \* history: nothing else was going on when it was called

queues == <<docQueue, updateQueue>>
taskVars == <<taskPc, taskMsg, writer, taskHand>>
updaterVars == <<updaterPc, updaterMsg>>
clientVars == <<clientPc, turn, clientHand, deletes, commits>>
history == <<consumed, deletions, promised, calm>>
vars == <<keeperVars, queues, taskVars, updaterVars, clientVars, history>>

Tasks == 1..BuildThreadCount

-----------------------------------------------------------------------------
(* Messages: ActionDocument                                                *)

INVALID_TASKID == -1

Message(action, d, key) ==
    [action |-> action, doc |-> d, key |-> key, taskId |-> INVALID_TASKID]

\* an ActionDocument without a document, which forceCommit enqueues
Dummy == Message("none", NoDoc, NoDoc)

\* the null pointer, which stop enqueues
Null == Message("null", NoDoc, NoDoc)

\* start() counts neither variable on: every task is 0, and if there are two or
\* more the next task of each is 1.
TaskId(i) == 0
NextTaskId(i) == IF BuildThreadCount > 1 THEN 1 ELSE INVALID_TASKID

Init ==
    /\ KeeperInit(BuildThreadCount)
    /\ docQueue = <<>>
    /\ updateQueue = <<>>
    /\ taskPc = [i \in Tasks |-> "loop"]
    /\ taskMsg = [i \in Tasks |-> Dummy]
    /\ writer = [i \in Tasks |-> i]
    /\ taskHand = [i \in Tasks |-> <<>>]
    /\ updaterPc = "loop"
    /\ updaterMsg = Dummy
    /\ clientPc = "idle"
    /\ turn = 0
    /\ clientHand = <<>>
    /\ deletes = 0
    /\ commits = 0
    /\ consumed = <<>>
    /\ deletions = {}
    /\ promised = {}
    /\ calm = FALSE

\* A document deleted twice keeps DeletedDocumentFilter::deleteDocument in its
\* loop for ever, and the read lock held: nobody gets the write lock any more.
WriteLockFree == updaterPc # "spin"

-----------------------------------------------------------------------------
(* Task::run                                                               *)

TaskGoto(i, place) == taskPc' = [taskPc EXCEPT ![i] = place]

TaskSeal(i, next) ==
    /\ WriteLockFree
    /\ taskHand' = [taskHand EXCEPT ![i] = SealedBatch(writer[i])]
    /\ SealBarrel(writer[i])
    /\ TaskGoto(i, IF SealedBatch(writer[i]) # <<>> THEN "handOff" ELSE next)
    /\ UNCHANGED <<queues, taskMsg, writer, updaterVars, clientVars, history>>

\* canSeal() held: the posting pool was used up by the last addDocument
SealFull(i) == taskPc[i] = "full" /\ TaskSeal(i, "renew")

\* canSeal() is false after all: forceCommit has put a new barrel in place
NotFull(i) ==
    /\ taskPc[i] = "full"
    /\ barrels[writer[i]].docs = <<>>
    /\ TaskGoto(i, "loop")
    /\ UNCHANGED <<keeperVars, queues, taskMsg, writer, taskHand, updaterVars, clientVars, history>>

\* mutant: goes on with the barrel whose batch it has just handed over
TaskHandOffKeepsWriter(i) ==
    /\ taskPc[i] = "handOff"
    /\ Submit(taskHand[i])
    /\ taskHand' = [taskHand EXCEPT ![i] = <<>>]
    /\ TaskGoto(i, IF taskMsg[i] = Null THEN "exited" ELSE "loop")
    /\ UNCHANGED <<queues, taskMsg, writer, updaterVars, clientVars, history>>

\* sealBarrel, out of its lock: the scheduler's commit() of a full batch
TaskHandOff(i) ==
    /\ taskPc[i] = "handOff"
    /\ Submit(taskHand[i])
    /\ taskHand' = [taskHand EXCEPT ![i] = <<>>]
    /\ TaskGoto(i, IF taskMsg[i] = Null THEN "exited" ELSE "renew")
    /\ UNCHANGED <<queues, taskMsg, writer, updaterVars, clientVars, history>>

\* createBarrelWriter; init() is retried until there is memory
Renew(i) ==
    /\ taskPc[i] = "renew"
    /\ CreateBarrelWriter
    /\ writer' = [writer EXCEPT ![i] = Len(barrels')]
    /\ TaskGoto(i, "loop")
    /\ UNCHANGED <<queues, taskMsg, taskHand, updaterVars, clientVars, history>>

\* m_docQueue.waitDequeue(); a dummy is skipped
TaskTake(i) ==
    /\ taskPc[i] = "loop"
    /\ docQueue # <<>>
    /\ docQueue' = Tail(docQueue)
    /\ LET m == Head(docQueue)
       IN IF m = Dummy THEN UNCHANGED <<taskPc, taskMsg>>
          ELSE /\ taskMsg' = [taskMsg EXCEPT ![i] = m]
               /\ TaskGoto(i, IF m = Null THEN "last" ELSE "process")
    /\ UNCHANGED <<keeperVars, updateQueue, writer, taskHand, updaterVars, clientVars, history>>

\* a null pointer: the last barrel is sealed and the thread ends
SealLast(i) == taskPc[i] = "last" /\ TaskSeal(i, "exited")

\* doProcess: done here, or passed to the "next" task if there is one
ForMe(i) == taskMsg[i].taskId \in {INVALID_TASKID, TaskId(i)}

Processed(i, next) ==
    /\ TaskGoto(i, next)
    /\ taskMsg' = [taskMsg EXCEPT ![i] = Dummy]

ProcessAdd(i) ==
    /\ taskPc[i] = "process"
    /\ taskMsg[i].action = "add"
    /\ AddDocument(writer[i], taskMsg[i].doc)
    /\ Processed(i, "loop") \/ Processed(i, "full")
    /\ UNCHANGED <<queues, writer, taskHand, updaterVars, clientVars, history>>

ProcessDelete(i) ==
    /\ taskPc[i] = "process"
    /\ taskMsg[i].action = "delete"
    /\ ForMe(i)
    /\ Lookup(writer[i], taskMsg[i].key) # {}
    /\ DeleteInMemory(writer[i], taskMsg[i].key)
    /\ Processed(i, "loop")
    /\ UNCHANGED <<queues, writer, taskHand, updaterVars, clientVars, history>>

\* An update ends here too: AT_UPDATE is a TODO in doProcess.
ProcessElsewhere(i) ==
    /\ taskPc[i] = "process"
    /\ \/ taskMsg[i].action = "update"
       \/ /\ taskMsg[i].action = "delete"
          /\ ForMe(i) => Lookup(writer[i], taskMsg[i].key) = {}
    /\ \/ NextTaskId(i) # INVALID_TASKID /\ TaskGoto(i, "pass") /\ UNCHANGED taskMsg
       \/ NextTaskId(i) = INVALID_TASKID /\ Processed(i, "loop")
    /\ UNCHANGED <<keeperVars, queues, writer, taskHand, updaterVars, clientVars, history>>

\* back into the queue this thread and its like take from
Pass(i) ==
    /\ taskPc[i] = "pass"
    /\ Len(docQueue) < DocQueueSize
    /\ docQueue' = Append(docQueue, [taskMsg[i] EXCEPT !.taskId = NextTaskId(i)])
    /\ Processed(i, "loop")
    /\ UNCHANGED <<keeperVars, updateQueue, writer, taskHand, updaterVars, clientVars, history>>

TaskStep(i) == SealFull(i) \/ NotFull(i) \/ TaskHandOff(i) \/ Renew(i) \/ TaskTake(i)
                 \/ SealLast(i) \/ ProcessAdd(i) \/ ProcessDelete(i) \/ ProcessElsewhere(i) \/ Pass(i)

-----------------------------------------------------------------------------
(* OnDiskUpdateTask::run                                                   *)

UpdaterTake ==
    /\ updaterPc = "loop"
    /\ updateQueue # <<>>
    /\ updateQueue' = Tail(updateQueue)
    /\ LET m == Head(updateQueue)
       IN IF m = Dummy THEN UNCHANGED updaterVars
          ELSE /\ updaterMsg' = IF m = Null THEN Dummy ELSE m
               /\ updaterPc' = IF m = Null THEN "exited" ELSE "lookup"
    /\ UNCHANGED <<keeperVars, docQueue, taskVars, clientVars, history>>

\* deleteOnDiskDocument finds the document: that is the end of the message
UpdaterDelete(d) ==
    /\ updaterPc = "lookup"
    /\ d \in Entries(updaterMsg.key)
    /\ DeleteOnDisk(d)
    /\ updaterPc' = "loop"
    /\ updaterMsg' = Dummy
    /\ UNCHANGED <<queues, taskVars, clientVars, history>>

\* ... it finds one that is deleted already
UpdaterSpin(d) ==
    /\ updaterPc = "lookup"
    /\ d \in Entries(updaterMsg.key)
    /\ d \in deleted
    /\ updaterPc' = "spin"
    /\ UNCHANGED <<keeperVars, queues, taskVars, updaterMsg, clientVars, history>>

UpdaterSpinning == updaterPc = "spin" /\ UNCHANGED vars

\* ... it finds none
UpdaterMiss ==
    /\ updaterPc = "lookup"
    /\ Entries(updaterMsg.key) = {}
    /\ updaterPc' = "pass"
    /\ UNCHANGED <<keeperVars, queues, taskVars, updaterMsg, clientVars, history>>

\* "Pass to the first building task"
UpdaterPass ==
    /\ updaterPc = "pass"
    /\ Len(docQueue) < DocQueueSize
    /\ docQueue' = Append(docQueue, [updaterMsg EXCEPT !.taskId = 0])
    /\ updaterPc' = "loop"
    /\ updaterMsg' = Dummy
    /\ UNCHANGED <<keeperVars, updateQueue, taskVars, clientVars, history>>

UpdaterStep ==
    \/ UpdaterTake \/ UpdaterMiss \/ UpdaterPass
    \/ \E d \in Docs : UpdaterDelete(d) \/ UpdaterSpin(d)

-----------------------------------------------------------------------------
(* The client: consume                                                     *)

\* mutant: one element too many
EnqueueDocOffByOne(m) ==
    /\ Len(docQueue) <= DocQueueSize
    /\ docQueue' = Append(docQueue, m)
    /\ UNCHANGED updateQueue

EnqueueDoc(m) ==
    /\ Len(docQueue) < DocQueueSize
    /\ docQueue' = Append(docQueue, m)
    /\ UNCHANGED updateQueue

EnqueueUpdate(m) ==
    /\ Len(updateQueue) < DocQueueSize
    /\ updateQueue' = Append(updateQueue, m)
    /\ UNCHANGED docQueue

MayCall == clientPc = "idle" /\ Len(consumed) + deletes + commits < MaxCalls

\* addDocument and updateDocument
Consume(d) ==
    /\ MayCall
    /\ d \notin Range(consumed)
    /\ \/ d \notin Updates /\ EnqueueDoc(Message("add", d, Key[d]))
       \/ d \in Updates /\ EnqueueUpdate(Message("update", d, Key[d]))
    /\ consumed' = Append(consumed, d)
    /\ UNCHANGED <<keeperVars, taskVars, updaterVars, clientVars, deletions, promised, calm>>

\* deleteDocument
Delete(key) ==
    /\ MayCall
    /\ deletes < MaxDeletes
    /\ deletes' = deletes + 1
    /\ EnqueueUpdate(Message("delete", NoDoc, key))
    /\ deletions' = deletions \cup {[key |-> key, sealed |-> primaryKeys]}
    /\ UNCHANGED <<keeperVars, taskVars, updaterVars, clientPc, turn, clientHand,
                   commits, consumed, promised, calm>>

-----------------------------------------------------------------------------
(* The client: commit                                                      *)

ClientGoto(place) ==
    /\ clientPc' = place
    /\ UNCHANGED <<turn, clientHand, deletes, commits>>

\* every other thread waits for something to do
Calm == /\ docQueue = <<>> /\ updateQueue = <<>> /\ updaterPc = "loop"
        /\ \A i \in Tasks : taskPc[i] = "loop"
        /\ commitQueue = <<>> /\ inCommit = <<>>

\* m_pUpdateTask->forceCommit(): a dummy, then waitEmpty
Commit ==
    /\ MayCall
    /\ commits < MaxCommits
    /\ commits' = commits + 1
    /\ EnqueueUpdate(Dummy)
    /\ clientPc' = "waitUpdates"
    /\ turn' = 1
    /\ promised' = Range(consumed) \ Updates
    /\ calm' = Calm
    /\ UNCHANGED <<keeperVars, taskVars, updaterVars, clientHand, deletes, consumed, deletions>>

WaitUpdates ==
    /\ clientPc = "waitUpdates"
    /\ updateQueue = <<>>
    /\ ClientGoto("force")
    /\ UNCHANGED <<keeperVars, queues, taskVars, updaterVars, history>>

\* Task::forceCommit() of task number turn, in the client's thread
ForceTask ==
    /\ clientPc = "force"
    /\ EnqueueDoc(Dummy)
    /\ ClientGoto("waitDocs")
    /\ UNCHANGED <<keeperVars, taskVars, updaterVars, history>>

WaitDocs ==
    /\ clientPc = "waitDocs"
    /\ docQueue = <<>>
    /\ ClientGoto("seal")
    /\ UNCHANGED <<keeperVars, queues, taskVars, updaterVars, history>>

ForceSeal ==
    /\ clientPc = "seal"
    /\ WriteLockFree
    /\ clientHand' = SealedBatch(writer[turn])
    /\ SealBarrel(writer[turn])
    /\ clientPc' = IF SealedBatch(writer[turn]) # <<>> THEN "sealHandOff" ELSE "renew"
    /\ UNCHANGED <<queues, taskVars, updaterVars, turn, deletes, commits, history>>

ForceRenew ==
    /\ clientPc = "renew"
    /\ CreateBarrelWriter
    /\ writer' = [writer EXCEPT ![turn] = Len(barrels')]
    /\ turn' = turn + 1
    /\ clientPc' = IF turn < BuildThreadCount THEN "force" ELSE "flush"
    /\ UNCHANGED <<queues, taskPc, taskMsg, taskHand, updaterVars, clientHand, deletes,
                   commits, history>>

\* mutant: a batch that is not full is not flushed
FlushNothing ==
    /\ clientPc \in {"flush", "flushAgain"}
    /\ WriteLockFree
    /\ clientPc' = IF clientPc = "flush" THEN "flushAgain" ELSE "waitCommit"
    /\ UNCHANGED <<keeperVars, queues, taskVars, updaterVars, turn, clientHand, deletes,
                   commits, history>>

\* keeper: forceCommit(), and once more at the beginning of waitCommit()
Flush ==
    /\ clientPc \in {"flush", "flushAgain"}
    /\ WriteLockFree
    /\ clientHand' = batch
    /\ ResetMerger
    /\ clientPc' = CASE batch # <<>> /\ clientPc = "flush" -> "flushHandOff"
                     [] batch # <<>> /\ clientPc = "flushAgain" -> "flushAgainHandOff"
                     [] batch = <<>> /\ clientPc = "flush" -> "flushAgain"
                     [] batch = <<>> /\ clientPc = "flushAgain" -> "waitCommit"
    /\ UNCHANGED <<queues, taskVars, updaterVars, turn, deletes, commits, history>>

ClientHandOff ==
    /\ clientPc \in {"sealHandOff", "flushHandOff", "flushAgainHandOff"}
    /\ Submit(clientHand)
    /\ clientHand' = <<>>
    /\ clientPc' = CASE clientPc = "sealHandOff" -> "renew"
                     [] clientPc = "flushHandOff" -> "flushAgain"
                     [] clientPc = "flushAgainHandOff" -> "waitCommit"
    /\ UNCHANGED <<queues, taskVars, updaterVars, turn, deletes, commits, history>>

\* keeper, waitCommit(): the scheduler's waitCommit(), which does not see the
\* batch that its thread has just taken, ...
WaitCommit ==
    /\ clientPc = "waitCommit"
    /\ commitQueue = <<>>
    /\ ClientGoto("reset")
    /\ UNCHANGED <<keeperVars, queues, taskVars, updaterVars, history>>

\* ... then the merger is dropped.  commit() returns; close() goes on.
Closing == updaterPc = "exited"

Reset ==
    /\ clientPc = "reset"
    /\ ResetMerger
    /\ ClientGoto(IF Closing THEN "drain" ELSE "idle")
    /\ UNCHANGED <<queues, taskVars, updaterVars, history>>

-----------------------------------------------------------------------------
(* The client: IndexWriter::close, which stops the consumer first          *)

\* mutant: does not wait for the deletions in front of the null pointer
StopInFront ==
    /\ clientPc = "idle"
    /\ updateQueue' = <<Null>> \o updateQueue
    /\ clientPc' = "joinUpdater"
    /\ turn' = 1
    /\ UNCHANGED <<keeperVars, docQueue, taskVars, updaterVars, clientHand, deletes, commits, history>>

Stop ==
    /\ clientPc = "idle"
    /\ EnqueueUpdate(Null)
    /\ clientPc' = "joinUpdater"
    /\ turn' = 1
    /\ UNCHANGED <<keeperVars, taskVars, updaterVars, clientHand, deletes, commits, history>>

\* m_updateThread.join()
JoinUpdater ==
    /\ clientPc = "joinUpdater"
    /\ updaterPc = "exited"
    /\ ClientGoto("stopTasks")
    /\ UNCHANGED <<keeperVars, queues, taskVars, updaterVars, history>>

\* mutant: one null pointer too few
StopTaskOneFewer ==
    /\ clientPc = "stopTasks"
    /\ EnqueueDoc(Null)
    /\ turn' = turn + 1
    /\ clientPc' = IF turn < BuildThreadCount - 1 THEN "stopTasks" ELSE "stopWait"
    /\ UNCHANGED <<keeperVars, taskVars, updaterVars, clientHand, deletes, commits, history>>

\* one null pointer for each task
StopTask ==
    /\ clientPc = "stopTasks"
    /\ EnqueueDoc(Null)
    /\ turn' = turn + 1
    /\ clientPc' = IF turn < BuildThreadCount THEN "stopTasks" ELSE "stopWait"
    /\ UNCHANGED <<keeperVars, taskVars, updaterVars, clientHand, deletes, commits, history>>

\* m_docQueue.waitEmpty(), then m_threadPool.joinAll()
StopWait ==
    /\ clientPc = "stopWait"
    /\ docQueue = <<>>
    /\ ClientGoto("joinTasks")
    /\ UNCHANGED <<keeperVars, queues, taskVars, updaterVars, history>>

\* mutant: does not wait for the tasks to end
JoinTasksAtOnce ==
    /\ clientPc = "joinTasks"
    /\ ClientGoto("flushAgain")
    /\ UNCHANGED <<keeperVars, queues, taskVars, updaterVars, history>>

JoinTasks ==
    /\ clientPc = "joinTasks"
    /\ \A i \in Tasks : taskPc[i] = "exited"
    /\ ClientGoto("flushAgain")
    /\ UNCHANGED <<keeperVars, queues, taskVars, updaterVars, history>>

\* m_pCommitScheduler->close(): all it has accepted is committed
CloseScheduler ==
    /\ clientPc = "drain"
    /\ commitQueue = <<>> /\ inCommit = <<>>
    /\ ClientGoto("closed")
    /\ UNCHANGED <<keeperVars, queues, taskVars, updaterVars, history>>

ClientStep ==
    \/ WaitUpdates \/ ForceTask \/ WaitDocs \/ ForceSeal \/ ForceRenew \/ Flush
    \/ ClientHandOff \/ WaitCommit \/ Reset
    \/ JoinUpdater \/ StopTask \/ StopWait \/ JoinTasks \/ CloseScheduler

-----------------------------------------------------------------------------

\* the commit thread, for which a commit ends with the keeper's write lock
CommitThreadStep ==
    /\ CommitTake \/ (WriteLockFree /\ CommitBatch)
    /\ UNCHANGED <<queues, taskVars, updaterVars, clientVars, history>>

Closed == clientPc = "closed" /\ UNCHANGED vars

Next ==
    \/ \E i \in Tasks : TaskStep(i)
    \/ UpdaterStep \/ UpdaterSpinning
    \/ CommitThreadStep
    \/ ClientStep
    \/ \E d \in Docs : Consume(d)
    \/ \E key \in Range(Key) : Delete(key)
    \/ Commit
    \/ Stop
    \/ Closed

Spec == Init /\ [][Next]_vars

\* Threads that can run do; memory comes back, so a new barrel can be made.
FairSpec ==
    /\ Spec
    /\ \A i \in Tasks : WF_vars(TaskStep(i))
    /\ WF_vars(UpdaterStep) /\ WF_vars(CommitThreadStep) /\ WF_vars(ClientStep)

-----------------------------------------------------------------------------
(* Properties                                                              *)

Messages == [action : {"add", "delete", "update", "none", "null"},
             doc : Docs \cup {NoDoc}, key : Range(Key) \cup {NoDoc},
             taskId : {0, 1, INVALID_TASKID}]

BarrelIds == 1..Len(barrels)

TypeOK ==
    /\ \A b \in BarrelIds : /\ Range(barrels[b].docs) \subseteq Docs \ Updates
                            /\ barrels[b].described \subseteq Range(barrels[b].docs)
    /\ Range(docQueue) \subseteq Messages /\ Len(docQueue) <= DocQueueSize
    /\ Range(updateQueue) \subseteq Messages /\ Len(updateQueue) <= DocQueueSize
    /\ \A i \in Tasks : writer[i] \in BarrelIds /\ taskMsg[i] \in Messages
    /\ updaterMsg \in Messages
    /\ Range(commitMap) \subseteq BarrelIds /\ Range(onDisk) \subseteq BarrelIds
    /\ primaryKeys \subseteq Docs /\ deleted \subseteq Docs \ Updates

\* the places an added document can be in
Homes(d) ==
    {<<"queue", i>> : i \in {i \in DOMAIN docQueue : docQueue[i].doc = d}}
    \cup {<<"task", i>> : i \in {i \in Tasks : taskMsg[i].doc = d}}
    \cup {<<"barrel", b>> : b \in {b \in BarrelIds :
            d \in IF barrels[b].sealed THEN barrels[b].described ELSE Range(barrels[b].docs)}}

\* While no commit() interferes, a document that was added is at any time in
\* exactly one place: the queue, the hands of one task, or one barrel, and then
\* among the documents its barrel info counts.
OneHome ==
    commits = 0 => \A d \in Docs \ Updates :
        Cardinality(Homes(d)) = IF d \in Range(consumed) THEN 1 ELSE 0

Positions(s, b) == {i \in DOMAIN s : s[i] = b}

\* the lists a sealed barrel can be in, on its way to disk
Places == {<<"batch", 0>>, <<"client", 0>>, <<"commit", 0>>, <<"disk", 0>>}
          \cup {"task"} \X Tasks \cup {"queue"} \X DOMAIN commitQueue

ListAt(place) ==
    CASE place[1] = "batch"  -> batch
      [] place[1] = "client" -> clientHand
      [] place[1] = "task"   -> taskHand[place[2]]
      [] place[1] = "queue"  -> commitQueue[place[2]]
      [] place[1] = "commit" -> inCommit
      [] place[1] = "disk"   -> onDisk

Occurrences(b) == UNION {{place} \X Positions(ListAt(place), b) : place \in Places}

\* While no commit() interferes, a barrel with documents goes into one batch, once,
\* when it is sealed, and stays on its way until it is on disk.
SealedOnce ==
    commits = 0 =>
        \A b \in BarrelIds :
            Cardinality(Occurrences(b)) <= 1
            /\ (barrels[b].described # {} => Cardinality(Occurrences(b)) = 1)

DocsOnDisk == UNION {barrels[b].described : b \in Range(onDisk)}

\* "Commit in-memory barrels and Stop all background threads"
\* (AsyncDocumentConsumer.h:165): when close() returns, nothing is left in a queue or a
\* batch and, unless a commit() has interfered, every document added is on disk.
CloseKeepsAll ==
    clientPc = "closed" =>
        /\ commits = 0 => Range(consumed) \ Updates \subseteq DocsOnDisk
        /\ docQueue = <<>> /\ updateQueue = <<>> /\ batch = <<>>

\* Document ids are given out when a barrel is sealed and again when it is
\* committed: with one building thread, and while no commit() interferes, barrels reach
\* the disk in the order in which they were sealed.
CommittedInSealOrder ==
    BuildThreadCount = 1 /\ commits = 0 => onDisk = SubSeq(commitMap, 1, Len(onDisk))

\* stop() returns, and with it close(), when there were no deletions.  (One that matches
\* nothing goes round between two building threads: see ProcessElsewhere.)
StopReturns == clientPc = "joinUpdater" /\ deletes = 0 ~> clientPc = "closed"

CommitReturns == clientPc = "reset" /\ clientPc' = "idle"

\* "Commit all documents in queue to file system" (AsyncDocumentConsumer.h:152), as
\* far as it goes: when the first commit() is called while every other thread is idle,
\* what was consumed before is on disk, or in the batch that is just being committed.
\* (A later one does not make good what an earlier one, called while they were busy,
\* has dropped.)
CalmCommitCommits ==
    [][CommitReturns /\ calm /\ commits = 1 =>
          promised \subseteq DocsOnDisk \cup UNION {barrels[b].described : b \in Range(inCommit)}]_vars

\* "Wait until all documents committed to file system" (IndexBarrelKeeper.h, of
\* waitCommit): a sealed barrel with documents is never dropped on its way.
NoSealedBarrelDropped ==
    \A b \in BarrelIds : barrels[b].described # {} => Occurrences(b) # {}

\* "Delete a document by primary key" (IndexWriter.h:73), as far as it goes: a
\* deletion whose key a sealed barrel held when it was called has, when close()
\* returns, deleted a document with the key, however it was overtaken on its way.
DeletesReachSealed ==
    clientPc = "closed" =>
        \A x \in deletions : (\E d \in x.sealed : Key[d] = x.key) => \E d \in deleted : Key[d] = x.key

\* A document is only ever deleted for a reason: a deletion or an update of its
\* key, which may be older than the document (an addition can overtake them), or a
\* later addition with its key.
DeletedForAReason ==
    \A d \in deleted :
        \/ \E x \in deletions : x.key = Key[d]
        \/ \E u \in Range(consumed) \cap Updates : Key[u] = Key[d]
        \/ \E i, j \in DOMAIN consumed :
              i < j /\ consumed[i] = d /\ Key[consumed[j]] = Key[d]

=============================================================================
