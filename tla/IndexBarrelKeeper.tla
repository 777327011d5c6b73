-------------------------- MODULE IndexBarrelKeeper --------------------------
(***************************************************************************)
(* index/IndexBarrelKeeper (mode WRITE), with what it asks of              *)
(* IndexBarrelWriter and InMemIndexMerger: in-memory barrels are filled,   *)
(* sealed, gathered into batches and handed to the commit thread.  The     *)
(* operators are the keeper's methods; the threads that call them are in   *)
(* AsyncDocumentConsumer.  The schema has a primary key.                   *)
(*                                                                         *)
(* A barrel is named by the order of its creation (m_barrelCounter).  All  *)
(* bit vectors of deleted documents are shared by pointer, from the writer *)
(* to every clone of the on-disk filter, so they are one set.  Which of    *)
(* the deletions reach the disk is not modelled here.                      *)
(***************************************************************************)
EXTENDS Naturals, Sequences, FiniteSets, Functions

CONSTANTS
    Docs,             \* the documents, each consumed at most once
    Key,              \* [Docs -> their primary keys]
    BuildThreadCount, \* GLOBAL_CONF().Build.buildThreadCount
    CommitQueueSize   \* AsyncCommitScheduler::DEFAULT_COMMIT_QUEUE_SIZE

ASSUME KeyAssumption == DOMAIN Key = Docs
ASSUME BuildThreadAssumption == BuildThreadCount \in Nat \ {0}
ASSUME CommitQueueAssumption == CommitQueueSize \in Nat \ {0}

VARIABLES
    barrels,     \* the IndexBarrelWriters, in the order they were created
    commitMap,   \* the barrels of m_commitMap's last BarrelsInfo, in doc id order
    batch,       \* the barrels in m_pInMemBarrelMerger; <<>> if there is none
    primaryKeys, \* the documents m_pOnDiskPrimKeyIndex has an entry for
    dirty,       \* m_pOnDiskDocFilter->isDirty()
    deleted,     \* the documents whose bit is set in a deleted-document filter
    commitQueue, \* the batches the commit scheduler has accepted
    inCommit,    \* the batch its thread has taken from the queue
    onDisk       \* the barrels committed, in order

keeperVars == <<barrels, commitMap, batch, primaryKeys, dirty, deleted,
                commitQueue, inCommit, onDisk>>

\* docs: the documents added; described: those the barrel's info counts, as of
\* its last sealing; uncommitted: m_nUncommittedDocs > 0
EmptyBarrel == [docs |-> <<>>, sealed |-> FALSE, described |-> {}, uncommitted |-> FALSE]

KeeperInit(barrelCount) ==
    /\ barrels = [b \in 1..barrelCount |-> EmptyBarrel]
    /\ commitMap = <<>>
    /\ batch = <<>>
    /\ primaryKeys = {}
    /\ dirty = FALSE
    /\ deleted = {}
    /\ commitQueue = <<>>
    /\ inCommit = <<>>
    /\ onDisk = <<>>

-----------------------------------------------------------------------------
(* IndexBarrelWriter                                                       *)

\* What the writer's primary key index finds: the last document with the key
Lookup(b, key) ==
    LET added == barrels[b].docs
    IN {added[i] : i \in {i \in DOMAIN added :
            /\ Key[added[i]] = key
            /\ \A j \in (i + 1)..Len(added) : Key[added[j]] # key}}

\* mutant: the new document is deleted, not the one it replaces
AddDocumentDeleted(b, d) ==
    /\ barrels' = [barrels EXCEPT ![b].docs = Append(@, d), ![b].uncommitted = TRUE]
    /\ deleted' = IF Lookup(b, Key[d]) # {} THEN deleted \cup {d} ELSE deleted
    /\ UNCHANGED <<commitMap, batch, primaryKeys, dirty, commitQueue, inCommit, onDisk>>

\* addDocument: an older document with the same key in this barrel is deleted
AddDocument(b, d) ==
    /\ barrels' = [barrels EXCEPT ![b].docs = Append(@, d), ![b].uncommitted = TRUE]
    /\ deleted' = deleted \cup Lookup(b, Key[d])
    /\ UNCHANGED <<commitMap, batch, primaryKeys, dirty, commitQueue, inCommit, onDisk>>

\* deleteDocument returns Lookup(b, key) # {}
DeleteInMemory(b, key) ==
    /\ deleted' = deleted \cup Lookup(b, key)
    /\ UNCHANGED <<barrels, commitMap, batch, primaryKeys, dirty, commitQueue, inCommit, onDisk>>

-----------------------------------------------------------------------------
(* IndexBarrelKeeper                                                       *)

CreateBarrelWriter ==
    /\ barrels' = Append(barrels, EmptyBarrel)
    /\ UNCHANGED <<commitMap, batch, primaryKeys, dirty, deleted, commitQueue, inCommit, onDisk>>

\* commitBarrelInfo: is there anything to commit?  A barrel with no documents
\* still counts if it can carry deletions made in sealed barrels.
Counts(b) == barrels[b].uncommitted \/ dirty

\* the merger's barrels after addToMerge
Gathered(b) == IF Counts(b) THEN Append(batch, b) ELSE batch

\* what sealBarrel takes out of the lock to hand to the scheduler; <<>> if the
\* batch is not full
SealedBatch(b) ==
    IF Counts(b) /\ Len(Gathered(b)) >= BuildThreadCount THEN Gathered(b) ELSE <<>>

\* mutant: a full batch is handed over and kept
SealBarrelKeepsBatch(b) ==
    LET docs == Range(barrels[b].docs)
    IN /\ barrels' = [barrels EXCEPT ![b].sealed = TRUE,
                         ![b].described = IF barrels[b].uncommitted THEN docs ELSE @]
       /\ batch' = Gathered(b)
       /\ commitMap' = IF Counts(b) THEN Append(commitMap, b) ELSE commitMap
       /\ UNCHANGED <<primaryKeys, dirty, deleted, commitQueue, inCommit, onDisk>>

\* sealBarrel, up to the end of its lock
SealBarrel(b) ==
    LET docs == Range(barrels[b].docs)
    IN /\ barrels' = [barrels EXCEPT ![b].sealed = TRUE,
                         ![b].described = IF barrels[b].uncommitted THEN docs ELSE @]
       /\ primaryKeys' = IF Counts(b)
                         THEN primaryKeys \cup UNION {Lookup(b, Key[d]) : d \in docs}
                         ELSE primaryKeys
       /\ commitMap' = IF Counts(b) THEN Append(commitMap, b) ELSE commitMap
       /\ dirty' = (dirty /\ ~Counts(b))
       /\ batch' = IF SealedBatch(b) # <<>> THEN <<>> ELSE Gathered(b)
       /\ UNCHANGED <<deleted, commitQueue, inCommit, onDisk>>

\* forceCommit takes the batch, whatever its size, under the lock; the last
\* statement of waitCommit, m_pInMemBarrelMerger.reset(), drops it with no lock.
ResetMerger ==
    /\ batch' = <<>>
    /\ UNCHANGED <<barrels, commitMap, primaryKeys, dirty, deleted, commitQueue, inCommit, onDisk>>

\* mutant: the newest batch first
SubmitInFront(taken) ==
    /\ Len(commitQueue) < CommitQueueSize
    /\ commitQueue' = <<taken>> \o commitQueue
    /\ UNCHANGED <<barrels, commitMap, batch, primaryKeys, dirty, deleted, inCommit, onDisk>>

\* m_pCommitScheduler->commit(pCommitObj)
Submit(taken) ==
    /\ Len(commitQueue) < CommitQueueSize
    /\ commitQueue' = Append(commitQueue, taken)
    /\ UNCHANGED <<barrels, commitMap, batch, primaryKeys, dirty, deleted, inCommit, onDisk>>

\* deleteOnDiskDocument.  mergeWith leaves an older entry of the key in the hash
\* table, and the table's layout decides which of them a lookup meets.
Entries(key) == {d \in primaryKeys : Key[d] = key}

DeleteOnDisk(d) ==
    /\ d \notin deleted
    /\ deleted' = deleted \cup {d}
    /\ dirty' = TRUE
    /\ UNCHANGED <<barrels, commitMap, batch, primaryKeys, commitQueue, inCommit, onDisk>>

-----------------------------------------------------------------------------
(* The commit thread, as AsyncCommitScheduler has it                       *)

CommitTake ==
    /\ inCommit = <<>>
    /\ commitQueue # <<>>
    /\ inCommit' = Head(commitQueue)
    /\ commitQueue' = Tail(commitQueue)
    /\ UNCHANGED <<barrels, commitMap, batch, primaryKeys, dirty, deleted, onDisk>>

\* InMemIndexMerger::commit(): one barrel is written by its own writer, which
\* then counts no uncommitted documents; several are merged.
CommitBatch ==
    /\ inCommit # <<>>
    /\ onDisk' = onDisk \o inCommit
    /\ inCommit' = <<>>
    /\ barrels' = IF Len(inCommit) = 1
                  THEN [barrels EXCEPT ![inCommit[1]].uncommitted = FALSE]
                  ELSE barrels
    /\ UNCHANGED <<commitMap, batch, primaryKeys, dirty, deleted, commitQueue>>

=============================================================================
