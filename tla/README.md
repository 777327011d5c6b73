# FirteX2 in TLA+

FirteX2 is a full-text search engine library (C++) with servers built on it. This
directory models the parts of it in which threads, queues, files and machines that fail
decide whether documents are kept and found: the building pipeline from
`IndexWriter::addDocument` to the barrels on disk, the files themselves with crashes,
merging with its thread pool, a reader in another process, and the search proxy. TLC
checks the models on small instances; TLAPS proves what the queue, the commit scheduler,
the consumer, the files, the merge scheduler and the proxy's delivery do for any number
of threads, documents, crashes and any sizes.

Paths below are relative to the repository's `src/src/` and `src/include/firtex/`; those
of the servers to `src/`.

## 1. The system

### Components

| Component | State | Operations | Talks to |
|---|---|---|---|
| Bounded queue (`utility/BoundedConcurrentQueue.h`, `thread/Condition`) | deque, capacity, one mutex, one condition with a FIFO of Events | enqueue, waitDequeue, tryDequeue, waitEmpty, waitNotEmpty, wakeup, clear | everything below waits in it |
| Document consumer (`index/AsyncDocumentConsumer`) | document queue, update queue, one barrel per building thread | consume, commit, stop; threads `Task`, `OnDiskUpdateTask` | queues, keeper |
| Barrel writer (`index/IndexBarrelWriter`) | documents of one in-memory barrel, its key index and deletions, its barrel info | addDocument, deleteDocument, sealBarrel, commitBarrelInfo, commit | keeper, disk |
| Barrel keeper (`index/IndexBarrelKeeper`, `InMemIndexMerger`) | map of commits, key index and deletions of the sealed barrels, the batch of sealed barrels to be written; one read-write lock | sealBarrel, deleteOnDiskDocument, forceCommit, waitCommit, refresh, housekeep | commit scheduler, disk |
| Commit scheduler (`index/AsyncCommitScheduler`, `SyncCommitScheduler`) | queue of batches and merges, flag, mutex, condition | commit, waitCommit, close; the commit thread | calls `commit()` of a batch |
| Index writer (`index/IndexWriter`) | the pipeline, auto-commit thread, merger | addDocument, updateDocument, deleteDocument, commit, mergeIndex, optimizeIndex, close | consumer, keeper, scheduler |
| Commit files (`BarrelsInfo`, `CommitList`, `BarrelDirectory`, `KeepByCommitIndexCleaner`) | `barrels_N` files and barrel directories | read, write, cleanup | disk |
| Merging (`IndexMerger`, `DBTMergePolicy`, `OptimizeMergePolicy`, `DocIdRecycling`) | what is left of a proposal | merge, createProposals, checkAndSplitProposal | commit files, merge scheduler |
| Merge scheduler (`ConcurrentMergeScheduler`, `thread/ThreadPool`) | queue of merges, pooled threads with idle flags, targets and Events | merge, waitFinish; start, joinAll, release | merger |
| Deletions (`DeletedDocumentFilter`, `PrimaryKeyIndex`, `BitVector`) | a bit vector per barrel, a hash table of keys | deleteDocument, commit, reopen, lookup | keeper, writer, merger |
| Reading (`Index`, `IndexReader`, barrel readers, `store/`) | a snapshot of a commit, open streams | acquireReader, reopen | keeper, files |
| Search (`search/`) | iterators over postings, a heap of hits | advance, collect | readers |
| Search proxy (`app/fproxy`) | replicas and their availability, requests on their way, responses | search, ping, mark and check replicas | servers, by RPC or HTTP |
| Search server, watchdog (`app/fsearchd`, `app/watchdog`) | channels, ZooKeeper nodes | search, ping | each other |
| Parsing, analysis, configuration, vendored code | - | - | - |

### How documents travel

```
client --addDocument--> document queue --> Task 1..N, each filling a barrel
       --delete/update-> update queue --> OnDiskUpdateTask: key in a sealed barrel?
                                 yes: set the bit     no: into the document queue

Task: barrel full --> keeper.sealBarrel: ids and barrel info, key index, batch
      batch of N barrels --> commit queue --> commit thread --> disk
commit(): flush both queues, seal every barrel, submit the batch, wait
close():  null pointers through the queues, join, last batch, wait, merge, close

disk:  barrel directory: postings, deletion files, rest --> barrels_N --> cleaner
merge: policy --> proposals --> parts --> per part: one task per file in the
       thread pool, waitFinish --> a new barrel, a new barrels_N
read:  last barrels_N --> filters, keys, barrels --> reader; later: refresh
proxy: search --> ids from every shard --> documents from some shards
       each question: deliver --> thread --> replica, or the next one
```

### What is hard about it

Four kinds of thread (client, building, update, commit) share two queues, the keeper
under a read-write lock, and the scheduler's queue. The steps that no test orders on
purpose are: a lookup in the sealed barrels racing a seal; the caller's thread sealing a
barrel its building thread is filling; `waitCommit` racing the pop of the commit thread;
one condition shared by producers, consumers and `waitEmpty`; null pointers chasing real
messages at shutdown; and messages that building threads put back into the queue they
consume. On disk: commit files that are written in place, cleaned while readers are
open, and numbered independently of the keeper's own commits; deletions of one barrel
that lie in the directory of another; merges in parts, each a commit of its own. In the
thread pool: idle flags read without their locks, an Event that is reset by one thread
and set by another, a broadcast that may come before the wait. In the proxy: replicas
marked and unmarked by searches and by the health checker under two different locks, and
a counter of requests that is tested once. `PROJECT.json` lists the hazards with their
lines.

What makes each modelled component correct:

- queue: a FIFO under any interleaving; nobody sleeps beside work; no signal to a dead
  waiter;
- scheduler: what is accepted is committed once and in order; `close` commits all;
- consumer and keeper: a document is in one place at any time and on disk after `close`;
  a barrel is gathered once; document ids follow the commit order; `commit` commits;
  deletions hit their documents and only those; `stop` returns;
- files: a commit that can be read is whole, at any moment and after any crash; what a
  reader finds changes by whole batches and by deletions only; keys point at documents;
- merging: no document is lost or doubled, it ends, and it leaves what the policy
  promises;
- merge scheduler: every merge is done once, and before `waitFinish` returns;
- reading: a reader finds what its commit had, or fails because it was overtaken;
- proxy: every search is answered, by answers to its own questions, and a replica that
  recovers is used again.

## 2. Modules

| Module | Models | Composed from |
|---|---|---|
| `BoundedFifo` | what the queue promises: a FIFO with atomic operations | - |
| `BoundedConcurrentQueue` | the queue with mutex sections, condition, signals, timeouts | refines `BoundedFifo` |
| `BoundedConcurrentQueueProofs` | its theorems | `BoundedConcurrentQueue`, TLAPS |
| `AsyncCommitScheduler` | the scheduler: clients, commit thread, flag, mutex, condition | `BoundedConcurrentQueue` as `Queue` |
| `AsyncCommitSchedulerProofs` | its theorems | `AsyncCommitScheduler`, TLAPS |
| `IndexBarrelKeeper` | the keeper's and the barrel writers' methods as operators, and the commit thread's two steps | - |
| `AsyncDocumentConsumer` | the threads that call them: tasks, update thread, client | `IndexBarrelKeeper` |
| `AsyncDocumentConsumerProofs` | its theorems | `AsyncDocumentConsumer`, `SequenceLemmas` |
| `AtomicStore` | what the files promise: batches appear whole and in order | - |
| `MergePolicy` | the three merge policies and the cutting of proposals, as functions | - |
| `IndexStore` | files and directories, the writing process, commit thread, cleaner, merger, crashes | `MergePolicy`; refines `AtomicStore` |
| `IndexStoreProofs` | theorems about its files, lists, keys and types, and about the policies | `IndexStore`, `SequenceLemmas` |
| `IndexMerging` | an index that has grown, merged again and again | `IndexStore` |
| `IndexReading` | a second process that opens and refreshes a reader | `IndexStore` |
| `IndexProofs` | theorems about both, and the refinement of `AtomicStore` | `IndexReading`, `IndexMerging`, `IndexStoreProofs` |
| `MergeScheduler` | what the merge scheduler promises | - |
| `ThreadPool` | the pool and its threads | - |
| `ConcurrentMergeScheduler` | the scheduler and the merger that uses it | `ThreadPool`; refines `MergeScheduler` |
| `ConcurrentMergeSchedulerProofs` | its theorems | `ConcurrentMergeScheduler`, TLAPS |
| `RequestAsyncDeliver` | requests, threads and the counter of the proxy | - |
| `SearchShards` | searches, shards, replicas, health checker | `RequestAsyncDeliver` |
| `SearchShardsProofs` | theorems about both | `SearchShards`, TLAPS |
| `SequenceLemmas` | lemmas on sequences, induction and recursion | TLAPS |
| `MC...` | values of the constants for TLC | the module of that name |

In every module a definition whose comment begins with `mutant:` is used by no
specification: it is a plausible bug of the definition that follows it. For each
property of each passing run `PROJECT.json` names one under which the property is
violated.

### BoundedConcurrentQueue

`call[t]` is the operation thread `t` is in, `status[t]` where in it the thread is,
`operand[t]` its argument and later its result. One action is one critical section: all
state is read and written under `m_mutex`, so nobody sees the middle of one. A section
ends with a return or inside `Condition::wait`, which queues the Event before it
releases the mutex. What is not under `m_mutex` is an action of its own: a timed-out
`tryWait` (`Timeout`) removes its Event under the condition's own mutex only
(`Withdraw`), and a signal may come in between. `enqueue` uses `wait` without a timeout,
the other operations `tryWait(500 ms)`: `TimedCalls`. `getFront`, `popFront` and
`dequeue` have no callers in the pipeline.

### AsyncCommitScheduler

The queue is the detailed one, with its waiters. `pc` says where each thread is;
`draining` that the commit thread has left its first loop. `holder` is the owner of
`m_mutex`, which `run` keeps for the whole of an object's `commit()`; `CheckCommitting`
is the section of `waitCommit` under it. `Close` is enabled only when no other client is
in a call: `IndexWriter::close` has joined every other thread by then. History variables
(`accepted`, `committed`, `promised`) are read by no action except that a submission is
made once.

### IndexBarrelKeeper and AsyncDocumentConsumer

- A barrel is named by the order of its creation. It is a record: the documents added,
  whether it has been sealed, the documents its barrel info describes, and whether
  `m_nUncommittedDocs > 0`. A document added to a barrel after its barrel info was made
  (the race of `commit()` with a building thread) is in `docs` and not in `described`; a
  further seal describes it. What concurrent writes to the posting lists do to the
  process beyond that is not modelled.
- `sealBarrel` is two steps, as its lock is: `SealBarrel` under the write lock, then
  `Submit`, with the batch in the caller's hand in between (`taskHand`, `clientHand`).
- The queues are atomic FIFOs. That is what `ImplementsFifo` shows of them; a blocked
  `enqueue` is a disabled step.
- The commit thread takes a batch and commits it (`CommitTake`, `CommitBatch`);
  `waitCommit` sees the queue only, as the scheduler's own module shows.
- Every bit vector of deletions is shared by pointer, from the writer to each clone of
  the filter, so `deleted` is one set. Whether a deletion that is set is also written to
  disk is `IndexStore`'s subject.
- `HashMap::insert` leaves older entries of the same key in place, and which of them a
  lookup meets depends on the layout: `UpdaterDelete(d)` picks any of them.
- Whether a barrel is full after `addDocument` depends on memory: `ProcessAdd` goes
  either way.
- `start()` increments neither `taskId` nor `nextTaskId` (`TaskId`, `NextTaskId`); every
  task has id 0 and, with two or more tasks, the next id 1.
- An `AT_UPDATE` message that no sealed barrel has is passed on or dropped, as a release
  build does; a debug build stops at the assertion.
- A second deletion of a sealed document keeps the update thread in
  `DeletedDocumentFilter::deleteDocument` for ever under the read lock (`updaterPc =
  "spin"`); no step that needs the write lock is possible then.
- One client thread; `Stop` and what follows it is `IndexWriter::close` up to the last
  merge. The schema has a primary key.

### IndexStore, above it AtomicStore

`commits[n]` is the file `barrels_n` (absent, torn, whole) and `dirs[n]` the directory
of barrel `n` with its documents and the deletion files in it. `pc` is where the commit
thread is; between two of its actions the process may crash (`Crash`), after which
`Open` begins with what the files have. A crash is that of the process: what was written
stays.

- `BarrelsInfo::write` creates the file and then writes it (`CreateCommitFile`,
  `WriteCommitFile`). If the process crashes in between, the torn file is the last
  commit, reading it throws, and no `Open` is possible any more; `CommitIsWhole` says
  that this is the only way a torn file stays.
- The filter is a list of entries with dirty flags over bit vectors that all its clones
  share. `BarrelFilter`'s copy constructor clears the flag, so a push into a full vector
  forgets which entries were dirty (`Copied`); `fresh` is the vector right after an
  open, which may have room left.
- `WriteDeletions` writes the vectors of the dirty barrels, as they are at that moment,
  into the new barrel's directory. `WithFilter` and `LatestFilter` look for the newest
  such file, from the barrel's own directory to that of the commit.
- `SealDeletions` is a barrel without documents that exists for its deletion files.
- Every document has a key of its own, and one building thread makes one barrel a batch;
  what several of either do is in `AsyncDocumentConsumer`.

`ImplementsAtomicStore` maps `visible` to what a reader of the newest readable commit
finds, `queue` to the batch at work and those pending. Merging, cleaning and crashes of
the detailed model are stutters of the abstract one.

### MergePolicy and IndexMerging

`Level` is `getLevel`; `Turn` is one step of building the tree, which takes a barrel,
places a node or lets a level collide, and `ResultTree` its repetition; `DBTProposals`
joins levels that follow one another; `Cut` is `checkAndSplitProposal`. `Merge` begins
one turn of the loop of `IndexMerger::merge`: it reads the last commit and asks the
policy; `MergeProposal` begins one part, which is then written like a batch.
`MergeAborts` is the null pointer of `makeProposal`: `nLastLevel + 1` wraps to 0, and a
collision on level 0 adds a barrel to a list that does not exist.

`IndexMerging` starts from any index of a few barrels, with sizes around the limits of
the levels, and merges it at every close with either of the policies.

### IndexReading

The reader's steps are one directory each: `List` loads the commit list, then come the
commit file, the deletion filters, the key index, and the barrels, reused from the held
reader or opened. Between any two of them the writing process may commit, merge or
clean. A missing file is an exception (`Fail`), and the reader that was held stays.
`held.truth` is history: what the commit had when its file was read.

### ThreadPool and ConcurrentMergeScheduler

Each step of `PooledThread::run` is an action: the wait for `m_targetReady`, the target,
the end under `m_mutex` with `m_bIdle`, `m_targetCompleted` and the broadcast.
`getThread` reads the flags without those locks (`scan`), and waits on `m_cond` in a
step of its own. `joinAll` looks at one thread after the other. The merger submits, for
each proposal, one merge per file, waits, submits the merge of the deletion filter and
waits again. A task does not carry its merge: it takes the first of the queue, and
blocks while there is none. `Untaken` are the tasks that have yet to take one.
`MergeScheduler`, the promise, has one set of merges done and a `waitFinish` that
returns when all that were submitted are.

### RequestAsyncDeliver and SearchShards

A search asks every shard for ids and then some of them for documents. `deliver` counts
the request and queues it; a thread takes it, runs `SearchShardBase::run`, counts it
back and broadcasts at zero; `waitFinish` tests the counter once. `run` selects a
replica by round robin among those that are available; one that fails is put in a list
(`ListUnavailable`) and then marked (`MarkUnavailable`), under two different locks, and
the next is tried. The health checker pings the listed ones (`PingAnswered`,
`PingFailed`) and at the end removes those that answered (`EndCheck`): with
`std::remove` alone, which moves the others to the front and leaves the rest of the list
as it is, and of a list of shared pointers leaves null pointers. The next check that
meets one ends the process (`checker.at = "crashed"`).

`RPCSearchReplica` is the transport, and a search or ping that fails is its exception.
`SearchShardsBase.cpp:99` does not compile; it is read as the `reset` it means. Two
things next to the model: `HTTPSearchReplica.cpp:69` answers `EC_OK` after a failure and
`RPCSearchCluster.cpp:67` does so after an exception, and `SearchClustersBase::search`
may return with requests on their way.

## 3. Runs

| Run | Instance | Result |
|---|---|---|
| `BCQ_all` | 4 threads that between them use every operation, capacity 2, 2 elements | passes: types, no dangling Event, refinement of `BoundedFifo`, recovery of timed waiters, producers reached while dequeues go on |
| `ACS_all` | 2 clients, 3 objects, queue of 2 | passes: nothing lost, close commits all, `waitCommit` misses at most the object in hand, all committed in the end |
| `ADC_one` | 1 building thread, 3 documents, an update, 2 deletions | passes: one home, commit order, deletions have a reason and reach what is sealed |
| `ADC_two` | 2 building threads, 3 calls, among them a deletion and a `commit()` | passes: sealed once, close keeps all, the first `commit()`, if called while the rest is idle, commits, `stop` returns |
| `ADC_dropped` | 2 building threads, 3 additions, 1 `commit()` | violated: `waitCommit` drops a sealed barrel |
| `IST_all` | 3 documents, 2 deletions, 1 crash, a merge at every close | passes: commits are whole, keys and filters agree with the disk, no garbage, refinement of `AtomicStore` |
| `IST_read` | 2 documents, 2 deletions, a reader | passes: a reader finds what its commit had, has all barrels, and fails only if overtaken |
| `IST_reopen` | the same | violated: a refreshed reader sees deleted documents again |
| `MRG_all` | up to 4 barrels of 5 sizes, both policies, 1 crash | passes: documents kept, barrel lists sound, the policy's promise, `close` ends |
| `CMS_all` | 3 pooled threads, 2 proposals of 4 files | passes: assertions, a merge and a queue for each task, refinement of `MergeScheduler`, joins end |
| `CMS_stranded` | 2 threads, 1 proposal of 3 files | violated: `merge()` sleeps while all threads are idle |
| `PRX_all` | a shard with one replica and one with two, 2 threads, a search of two questions, 2 failures | passes: answers belong to the question, searches are answered, replicas come back |

The violated runs each check a sentence of a header; `PROJECT.json` quotes it under
"findings".

**Bounds.** `Capacity`, `QueueSize`, `DocQueueSize` and `CommitQueueSize` are 2: small
enough for enqueues to block on full queues, large enough for two messages to be
reordered or overtaken. The code's values are 500 and 32. Two building threads are the
fewest with which tasks race each other and batches hold more than one barrel (the
default is 8); one is what the repository's tests of deletions configure. Three
documents give a barrel with two and another with one. `MaxDeletes`, `MaxCommits` and
`MaxCalls` bound the client's calls; each document is consumed at most once, so every
run ends. Two elements are enough to tell FIFO order from others together with the
refinement.

In `IST_all` three documents in up to three barrels give deletions in a barrel's own
directory, in a later one, and twice in a row. One crash is enough for each place at
which it can happen, followed by a whole session of what comes after it. `KeepCount` is
2, as in `conf/fbuilder.xml`, so that the cleaner works from the third commit on.
`MaxAllowedBarrels` is 255, from the default of 1024 open files, so that the merge is
never cut; in `MRG_all` it is 3, what the repository's tests get from 16 open files.
There `CollisionFactor` is 2 instead of 3, so that four barrels are enough for
collisions, cascades, levels that follow one another and levels that do not, and a
proposal that is cut; the sizes 0, 1, 4, 5 and 9 lie in and around the levels up to 2,
4, 8 and 16. At most one document is deleted, with its file in the last directory.
`MaxCommit` is never reached in it. In `CMS_all` the fourth file of a proposal has to
wait for one of three threads. In `PRX_all` a queue of one makes `deliver` block, and
two failures are enough for both replicas of a shard to be listed at once, and for the
null pointer.

**Deadlock** is checked except where the modelled code can really stop. In `ADC_two`
deletions that match nothing can fill the queue that only the building threads empty. In
the `IST` runs and `MRG_all` the bounds are reached, a torn last commit keeps the index
from being opened ever again, or `MultiIndexBarrelReader::reopen` has run past its
readers (`place = "undefined"`). In the `CMS` runs a `merge()` may have missed the last
broadcast. In `PRX_all` the process may have ended.

**Fairness.** Threads that can run do, a mutex starves nobody for ever, and timed waits
expire: weak fairness of each thread's steps. No fairness is assumed of clients' calls;
`DequeuesReachProducers` states in itself that dequeues go on, as `Task::run` sees to.
`CommitBatch` is fair: writing a batch ends. Memory for a new barrel is found in the end
(`init` is retried every five seconds). A signal in the scheduler's module wakes a
waiter in the same step. In `IndexMerging` the commit thread and the closing client are
fair; in `ConcurrentMergeScheduler` the merger and each pooled thread; in `SearchShards`
the client, each thread and the checker, with strong fairness of `ListUnavailable`,
which takes a lock the checker takes again and again. Nothing obliges a crash, a failure
or a search to happen.

## 4. Proofs

Each is for every value of the constants that satisfies the ASSUMEs of the module it is
about.

`BoundedConcurrentQueueProofs`, for any finite set of threads, any elements, any
positive capacity and any assignment of operations to threads:

- `TypeCorrect`: `Spec => []TypeOK`. It includes that an enqueue always carries an
  element, without which the element's type would not be kept.
- `EventsSound`: `Spec => []NoDanglingEvent`. The condition's wait queue holds the
  Events of exactly the threads that wait (those that timed out may be gone), each once.
  The invariant is inductive; the work is in `RemovalKeepsSound`, which says what taking
  the i-th Event out does, for a signal (i = 1) and for a thread that gives up (any i).
- `SoloSignalsReachProducers`: if one thread does all the dequeuing and nobody waits for
  the queue to be empty (`SoloConsumer`), then a producer that sleeps next to a free
  place has another producer that is awake. The property is not inductive; the invariant
  `Backed` is: while a producer sleeps, the elements and the producers that are awake
  together are at least the capacity, because each place a dequeue freed went with a
  signal that only a producer can have received. The proof counts threads, by the
  library's cardinality theorems.
- `RefinesFifo`: `Spec => ImplementsFifo`. Each section that returns is one step of
  `BoundedFifo`, everything else a stutter; it needs `CallsStayConsistent`.

`AsyncCommitSchedulerProofs`, for any clients, objects and queue size (`SizeAssumption`,
`WaiterAssumption`, `NameAssumption`):

- `UsesQueue`: `Spec => Queue!Spec`. What the scheduler does to its queue is what the
  queue's module describes, so that module's theorems hold of `m_commitQueue`.
- `NothingIsLost`, `CloseIsComplete`, `FlagIsHidden` and `WaitCommitIsNearlyComplete`
  follow from `Inv`: `TypeOK`, where clients and the thread can be in the queue
  (`ClientInv`, `ThreadInv`), that a closing client is alone (`CloseInv`) and its null
  pointer behind all objects (`NullInv`), `NothingLost`, what the thread has done when
  it ends (`ExitInv`) and what a waiting client is still owed (`PromiseInv`).
  `NothingLost` is kept because of every step `Flow` holds: of the sequence of what is
  committed, in hand and in the queue, a step either moves the border or appends at the
  end.

`ConcurrentMergeSchedulerProofs`, for any finite set of threads, any number of files and
of proposals (`WorkersAssumption`, `FilesAssumption`):

- `TypeCorrect`, `AssertionsNeverFail`, `TasksFindMerges` and `RefinesMergeScheduler`
  follow from `Inv`: `TypeOK`; what the flags and Events of a thread are at each of its
  places (`ThreadInv`); that a thread `joinAll` has gone past rests (`JoinInv`); that
  there are as many merges in the queue as tasks that have not taken one (`CountInv`);
  and that each merge submitted is in the queue, in one hand, or done (`DataInv`).
  `AssertionsHold` alone is not inductive: that a thread which is seen idle has no
  target needs where it is in `run`.
- The refinement: `waitFinish` returns when `joinAll` has nobody left to look at, and
  then `JoinedMeansDone`.

`SearchShardsProofs`, first about `RequestAsyncDeliver`, for any finite set of threads,
any requests and any queue size (`ThreadsAssumption`, `NullAssumption`,
`SizeAssumption`):

- `FinishIsComplete`: when `waitFinish` returns, every request delivered has run. The
  invariant is `DeliverInv`, whose heart is `CountInv`: the counter is the length of the
  queue, plus the busy threads, plus one if the client has counted a request and not
  queued it yet. So the one test and the one broadcast at zero are enough.

... and then about `SearchShards`, for any shards, replicas, threads, searches and
failures:

- `UsesDeliver`: `Spec => DeliverSpec`, by simulation step for step.
- `AnswersBelongToQuestions`: `Spec => []AnswersBelong`, from `FinishIsComplete` and
  `AskedInv`: every shard the current question is for is still to be asked, is being
  asked, or has answered that question.

`AsyncDocumentConsumerProofs`, for any documents, keys and updates, any number of
building threads, any sizes of the queues and any number of calls (`KeyAssumption`: each
document has a key). The invariant has ten parts, each inductive relative to those
before it:

- `TypesAreRight`: `Spec => []TypeOK`, from `ShapeInv`: what is in each queue and hand
  at each place of each thread. It includes what `doProcess` relies on without testing
  it: a task that processes has an add, update or delete, and a null pointer only when
  it ends.
- `EachHasOneHome`: `OneHome`, from `HomeInv` (a document is in one position of one kind
  of place) and `OwnBarrels` (no two tasks write one barrel). `OneHome`, `SealedOnce`,
  `CommittedInSealOrder` and what `CloseKeepsAll` says of documents are claimed of
  sessions up to a first `commit()`, which seals barrels behind the building threads'
  backs; what becomes of them after one is in section 6.
- `DeletionsHaveReasons`: `DeletedForAReason`. A document is deleted by a later addition
  of its key only if it has not been overtaken: `OrderInv` says that what is in a task
  or barrel was consumed before what is in the queue, and `CallInv` that every key in a
  message was in a call.
- `DeletesReach`: `DeletesReachSealed`. The deletion is in the update queue or the
  update thread's hand until it has hit (`ReachInv`), and the null pointer of `stop` is
  behind it (`UpdaterInv`).
- `BarrelsAreSealedOnce`: `SealedOnce`, from `SealInv` (a barrel not sealed is in the
  hands of exactly one task, which has not reached its end) and `ChainInv` (a barrel is
  at no two positions of the six kinds of list on the way to the disk, and one with
  documents is at one). `MovedChain` proves once what each step does to that: it moves
  one list's contents to another list.
- `NothingIsLeftBehind`: `CloseKeepsAll`. It needs `StopInv`, which counts: the null
  pointers in the document queue and the tasks that have met theirs are together as many
  as `stop` has sent. So when `stop` has sent one for each task and the tasks are
  joined, the queue is empty: there is nothing behind the last null pointer, whoever
  took it.
- `OneThreadCommitsInOrder`: `CommittedInSealOrder`, from `LineInv`: with one thread,
  disk, the commit thread's hand, the queue and the task's hand together, in that order,
  are the barrels in the order of sealing.
- `CalmCommitsCommit`: `CalmCommitCommits`, from `CalmInv`: during the first `commit()`,
  if it was called while the other threads were idle, they stay idle (the queues hold
  nothing but the dummies that `commit()` itself sends), and each document promised is
  in a barrel the client has still to seal, in the batch it has still to flush, in its
  hand, or in one of the commit thread's lists. No barrel the commit thread has is one
  still to be sealed: it would count as written, and sealing would then leave its
  documents out.

`IndexStoreProofs`, for any documents, deletions, crashes, kept commits, any bound of
commits and any merge policy; what a policy proposes is left open in them, so they hold
of any:

- `CommitsAreWhole`: `StoreSpec => []CommitIsWhole`, from `DiskInv`. `CommitIsWhole` is
  not inductive; `DiskInv` says for each place of the commit thread how much of the new
  directory is there, that what is being written is the successor of the newest commit
  and refers to complete directories and its own (`WorkIntact`), and that what the
  cleaner holds as stale is in no listed commit (`StaleUnused`).
- `NoGarbageLeft`: `NoGarbage`, from `GarbageInv`: without a crash, a directory is in a
  listed commit, or being filled, or stale.
- `NoDeletionForgotten`: `DeletionsKnown`, from `DeletionsInv`: of one barrel's deletion
  files a later has what an earlier has (`FilesGrow`), which is needed because only the
  latest is read; the keeper numbers barrels as the commit thread will (`KeeperAhead`);
  and the filter's vectors have what the files have (`BitsKnown`), although dirty flags
  are lost in its copies.

... then about lists of barrels and the documents in them. From here on the policies are
what they are in the code (`DBTProposalsSound`, `SplitSound`: what is proposed and cut
is of the list at hand, each barrel in one part, no part empty or longer than
`MaxAllowedBarrels`), for any factors that `FactorAssumption` and `SplitAssumption`
allow. `ListInv` says it of each list there is, of the commits and of the one in work,
and of the parts still to be merged; that a merged barrel goes behind those that stay,
with what a later barrel's base must exceed, is `RestIsIndex`.

- `KeysAreTheDocuments`: `StoreSpec => []KeysPointAtDocuments`, from `PlacesInv`. Keys
  are given by the keeper, when a barrel is sealed; the numbers on disk by the commit
  thread, when it is written. `KeeperInv` says that the keeper's list is that of the
  newest commit, then the barrel in work, then the pending ones; `KeysInv` that each
  document's key is its place in that list; `ListsApart` that no document is at two
  places, without which its key could be only one of them.
- `StoreTypeOK`: `StoreSpec => []TypeOK`, from `ShapeInv`. The bounds on the counts come
  from `ListsApart`: a list cannot count more documents than were handed in.

`IndexProofs`, what the files show, first to a reader in another process, whatever the
writer does:

- `FailuresAreOvertaken`: `FailsOnlyIfOvertaken`. `ReadInv` says that what the reader
  loads is what its commit has as long as the file is there, and that once the cleaner
  has dropped it there are `KeepCount` newer ones (the cleaner drops the oldest, and
  only if more than `KeepCount` remain); with `DiskInv`, which holds of the writer
  whatever reads (`StoreGoesOn`), nothing a listed commit names is missing.

... then where an index is only merged, with either policy:

- `BarrelListsAreSound`: `MergingSpec => []BarrelListSound`, from `ListInv`. The base case
  is a lemma of its own (`MergingInitLists`): an index that has grown is one of those.
- `MergesKeepDocuments`: `MergingSpec => []MergeKeepsDocuments`, from `KeptInv`.
  Documents that were not deleted are in the newest commit and in the one in work
  (`LeftInv`), and deletion files have bits of deleted documents only (`AskedInv`). That
  a merge of the whole index revives nothing is `HiddenInv`: what becomes the only
  barrel was visible in the commit before it, which is still whole while it is written
  (`WholeInv`).

... and of the whole store:

- `StoreIsAtomic`: `StoreSpec => ImplementsAtomicStore`, the refinement of
  `AtomicStore`, under `MergesAtOnce`: the strategy is not the balanced tree, and there
  are fewer commits than barrels that may be open at a time, so that no proposal is cut.
  That is the code's default, which merges nothing (`GlobalConfig.cpp:57`), and the
  optimizing strategy as `IST_all` runs it, up to the 255 barrels at a time that the
  default of 1024 open files allows. Without the hypothesis the refinement need not
  hold: a merge in parts may bring back a deleted document (section 6), which
  `AtomicStore` excludes.

  The invariant is `BatchInv`, above `SoundInv`, `PlacesInv` and `ShapeInv`. A commit
  takes the head of the queue because what is being written is the newest commit's list
  and one barrel more (`StepInv`, for which the ids in a list must be without gaps,
  `RowInv`); it shows the whole batch because no deletion file is in the directory it
  fills, and no directory beyond it is left by a crash (`DirsInv`). It hides only
  documents whose deletion was asked for: so it is of the bits in the files
  (`FilesAsked`) and in the filters they are written from (`BitsAsked`, `FilterInv`),
  and every key is that of a document the keeper has (`KeysOnly`), at its place
  (`KeysInv`). A document already visible does not come back once it is gone, since
  deletion files only grow (`LatestGrows`); and what is sealed next is new
  (`HandedInv`). `StepIsAtomic` puts the steps together: `SealIsSeal`, `WriteIsCommit`,
  `EndLoses` for close and crash, and `ThreadIsSilent` for the commit thread, the merge
  and the cleaner.

`SequenceLemmas` has the lemmas these rest on: sequences of whatever they consist of,
induction over numbers as a statement on sets, and a lemma on functions defined by
recursion (`Recursion`), by which `WithoutBarrelsKeeps` says what is left of a list when
a part of it is merged. So induction over data is within the prover's reach where the
recursion is a function's.

Attempts that failed have changed the models. `NoGarbage` used to claim `KeepCount`
commits at most with every policy, and the proof did not go through for the balanced
tree: its null pointer may end the process after a first turn of a merge, whose commit
was not cleaned up after. `OneHome` and `CommittedInSealOrder` used to leave it to the
runs' constants that there is no `commit()` and one building thread; now they say so.
`CalmCommitCommits` held only because `ADC_two` calls `commit()` once: TLC finds that a
second one, however calm, does not make good what an earlier one dropped, and the
property is now about the first. `ReaderHasEveryBarrel` has no proof: with the balanced
tree, a partial merge and a barrel that only holds deletions, it does not hold for all
values of the constants, and stays with `IST_read`, whose policy is the optimizing one.

Only model-checked: everything with fairness (`TimedWaitersRecover`,
`DequeuesReachProducers`, `EventuallyCommitted`, `StopReturns`, `WaitsEnd`, `CloseEnds`,
`SearchesAnswered`, `ReplicasComeBack`), which the prover cannot treat;
`MergedAsPromised`, which is about how many turns a merge takes; `OpenedReaderIsCommit`;
and `ImplementsAtomicStore` beyond `MergesAtOnce`.
`SoloSignalsReachProducers` and `FlagIsHidden` are proved and not run.

## 5. Plan

Done: the queue, the commit scheduler, the consumer, the files with crashes, merging at
close, reading, the merge scheduler over its pool, the proxy; proofs of the queue, both
schedulers, the proxy's delivery, the consumer, what the files hold and keep, what
merging keeps, when a reader fails, and that the store is atomic.

Left, in this order:

1. `OpenedReaderIsCommit`, from `ReadInv` and an invariant on where deletion files are.
2. A merge in the middle of a session (`mergeIndex`, `optimizeIndex`), with the keeper's
   `refresh`.
3. The auto-commit thread of `IndexWriter`, and its end in `close`.
4. The query executors of `search/` as functions over sorted lists of documents.

## 6. Not modelled

- The contents of barrels: posting lists, skip lists, stored fields, forward indexes and
  their codings are sequential number coding, with no state shared between threads.
- `mergeIndex`, `optimizeIndex` and the automatic commit thread (plan, 2 and 3).
- Pools that grow and shrink: `ThreadPool`'s two sizes are equal wherever the index uses
  it, and then `housekeep` does nothing. `SynchronizedQueue` has no users.
- The proxy's pool of processors (`ProxyServiceBase`), the blender's clusters, the HTTP
  transport, and the merging of hits.
- Exceptions: one thrown by a batch's `commit()` ends the process, since the commit
  thread rethrows it. Those of a reader are modelled.
- Term readers and searching; query parsing, analysis, configuration, search server,
  watchdog, bindings: sequential, generated or input and output.
- Vendored and generated code, which is most of the tree by lines (the xpdf plug-in, the
  parsers that flex and bison write, third-party libraries and headers). Hence the
  models cover a small share of the lines.

### Seen while modelling

The following are in the models, or next to them, and are not runs: the code's own text
promises nothing to the contrary, or the run would repeat another.

- Two consumers and a `waitEmpty` can take the signals of a queue of two and leave a
  producer asleep beside an empty queue. With the code's sizes this does not occur.
- `waitCommit` misses the object the commit thread has popped and not yet marked
  (`WaitCommitMissesOnlyInHand`).
- `commit()` racing a building thread breaks `SealedOnce` and `CloseKeepsAll`, which
  therefore speak of sessions without one.
- A deletion misses a document whose barrel is sealed between the two lookups. A second
  deletion of a sealed document never ends. A deletion that matches nothing circulates
  among two or more tasks, and `stop` then waits for ever.
- A torn `barrels_N` makes the index unopenable.
- A partial merge, by the balanced tree or because a proposal was cut, may bring deleted
  documents back, and leaves gaps in the document ids, at which
  `TypedForwardIndexIterator.h:149` throws and `InMemIndexMerger.cpp:53` asserts.
- The balanced tree ends the process for a collision on level 0. `maxAllowedOpenFiles`
  from 12 to 15 makes parts of one barrel of a proposal of three, which are copied for
  ever; below 12 the number of barrels at a time is 0, by which it divides.
- `optimizeIndex` in the middle of a session leaves the keeper with barrels that are
  merged away. The id it gives the next barrel is that of the merged one, so that a
  deletion file written later for it hides documents of the merged barrel; and
  `PrimaryKeyIndex::reopen` may open a key file that was never written.
- `MultiIndexBarrelReader::reopen` runs past the end of its readers when barrels were
  merged. `SingleIndexBarrelReader.cpp:94` keeps the old filter in the term reader of a
  barrel it reuses.
- `DeletedDocumentFilter::isDeleted` (`:258`) answers false for every document of a
  barrel that has a filter, and dereferences a null one. Nothing modelled calls it.
- The null pointers in the proxy's list. The missing `erase` is also what brings back a
  replica that a search marks after the checker has marked it available.
- `IndexWriter::close` drops the consumer before it stops the auto-commit thread.
