------------------------------ MODULE IndexStore ------------------------------
(***************************************************************************)
(* The files of an index and the process that writes them: BarrelsInfo and *)
(* CommitList (the barrels_N files), BarrelDirectory, DeletedDocumentFilter*)
(* (the deletion files), what IndexBarrelKeeper, IndexBarrelWriter,        *)
(* IndexMerger and KeepByCommitIndexCleaner do to them, and a crash        *)
(* between any two file operations, after which the index is opened again. *)
(*                                                                         *)
(* One building thread, so a batch is one barrel and its own writer        *)
(* commits it; every document has a key of its own; the index is opened in *)
(* APPEND mode and merged, as MergePolicy says, when it is closed.  The    *)
(* queues between the threads are in AsyncDocumentConsumer: here a         *)
(* deletion reaches its document at once, and a document is deleted once.  *)
(* A crash ends the process, not the machine: what was written stays.      *)
(***************************************************************************)
EXTENDS MergePolicy

CONSTANTS
    MaxDocs,    \* bound: documents handed in, 1..MaxDocs in this order
    MaxDeletes, \* bound: documents whose deletion is asked for
    MaxCommit,  \* bound: commit ids
    MaxCrashes, \* bound: crashes
    KeepCount,  \* keep_count of KeepByCommitIndexCleaner; 0 never cleans
    Strategy    \* Merge.strategy

ASSUME BoundAssumption == {MaxDocs, MaxDeletes, MaxCommit, MaxCrashes} \subseteq Nat
ASSUME KeepAssumption == KeepCount \in Nat
ASSUME StrategyAssumption == Strategy \in Policies

VARIABLES
    commits,  \* [Ids -> the file barrels_N: absent, torn (created, not written), whole]
    dirs,     \* [Ids -> the directory of barrel N: absent, filling, whole]
    status,   \* of the writing process: closed, open, closing, aborted
    building, \* the documents of the barrel being built, and those deleted in it
    keeper,   \* m_commitMap's last BarrelsInfo
    filter,   \* m_pOnDiskDocFilter's m_filters
    fresh,    \* it was opened, not cloned: its vector may have room left
    bits,     \* [Ids -> the BitVector of that barrel, which all clones share]
    keyIndex, \* m_pOnDiskPrimKeyIndex: a document id for each document it has
    pending,  \* the sealed writers that wait for the commit thread
    merging,  \* the policy of the IndexMerger at work and what is left of its proposal
    pc,       \* where the commit thread is
    work,     \* the writer it commits, and the BarrelsInfo it will write
    stale,    \* the cleaner's removeCommits
    handedIn, \* history: number of documents handed in
    asked,    \* history: the documents whose deletion was asked for
    crashes   \* history: number of crashes

disk == <<commits, dirs>>
memory == <<status, building, keeper, filter, fresh, bits, keyIndex, pending, merging>>
thread == <<pc, work, stale>>
history == <<handedIn, asked, crashes>>
storeVars == <<disk, memory, thread, history>>

INVALID_COMMIT == -1
Ids == 0..MaxCommit
Documents == 1..MaxDocs

-----------------------------------------------------------------------------
(* BarrelsInfo and CommitList                                              *)

NoBarrels == [commit |-> INVALID_COMMIT, barrels |-> <<>>]

\* mutant: the number of documents, as if there were no gaps
NextBaseByCount(infos) == MapThenSumSet(LAMBDA b : b.count, Range(infos.barrels))

NextBase(infos) ==
    IF infos.barrels = <<>> THEN 0 ELSE Last(infos.barrels).base + Last(infos.barrels).count

\* newBarrel, with its document counts set
NewBarrel(infos, count, deleted) ==
    [commit  |-> infos.commit + 1,
     barrels |-> Append(infos.barrels,
                    [id      |-> infos.commit + 1, base |-> NextBase(infos),
                     count   |-> count,            deleted |-> deleted])]

Listed == {c \in Ids : commits[c].state # "absent"}

\* getLastCommit: a file that was created counts, whatever is in it
IsLast(c) ==
    \/ c \in Listed /\ \A k \in Listed : k <= c
    \/ c = INVALID_COMMIT /\ Listed = {}

\* read: of a torn file it throws, so this is asked of whole ones only
Readable(c) == c \in Ids => commits[c].state = "whole"

InfosAt(c) ==
    IF c = INVALID_COMMIT THEN NoBarrels ELSE [commit |-> c, barrels |-> commits[c].barrels]

Referenced(c) == {b.id : b \in Range(commits[c].barrels)}

-----------------------------------------------------------------------------
(* DeletedDocumentFilter                                                   *)

\* the commits from first to last in whose directory there is a deletion file
\* of the barrel
WithFilter(b, first, last) ==
    {k \in Ids : /\ first <= k /\ b <= k /\ k <= last
                 /\ dirs[k].state # "absent"
                 /\ b \in DOMAIN dirs[k].deletions}

\* loadLatestFilter, where it finds one; the empty vector open puts elsewhere
LatestFilter(b, first, last) ==
    LET found == WithFilter(b, first, last)
    IN IF found = {} THEN {}
       ELSE dirs[CHOOSE k \in found : \A j \in found : j <= k].deletions[b]

\* the documents of a barrel, without those a filter has
Without(b, gone) ==
    Selection(dirs[b].docs)[{i \in DOMAIN dirs[b].docs : i - 1 \notin gone}]

\* what a reader of a commit can find
Visible(infos) ==
    UNION {LET gone == LatestFilter(b.id, b.id, infos.commit)
               docs == dirs[b.id].docs
           IN {docs[i] : i \in {i \in DOMAIN docs : i - 1 \notin gone}} :
              b \in Range(infos.barrels)}

\* mutant: the deletion files of later commits are not looked for
OpenedBitsOwn(infos) == [b \in Ids |-> LatestFilter(b, b, b)]

\* open: the vectors ...
OpenedBits(infos) == [b \in Ids |-> LatestFilter(b, b, infos.commit)]

\* ... and the entries for them
OpenFilter(infos) ==
    [i \in DOMAIN infos.barrels |-> [barrel |-> infos.barrels[i], dirty |-> FALSE]]

Covers(entry, docId) ==
    entry.barrel.base <= docId /\ docId < entry.barrel.base + entry.barrel.count

Dirty(f) == {f[i].barrel.id : i \in {i \in DOMAIN f : f[i].dirty}}

\* clone, and the reallocation of a full vector: BarrelFilter's copy constructor
\* clears the flag
Copied(f) == [i \in DOMAIN f |-> [f[i] EXCEPT !.dirty = FALSE]]

-----------------------------------------------------------------------------
NoFile == [state |-> "absent", barrels |-> <<>>]
NoDir == [state |-> "absent", docs |-> <<>>, deletions |-> <<>>]
NoBuilding == [docs |-> <<>>, deleted |-> {}]
NotMerging == [policy |-> "none", proposals |-> <<>>]
NoWork == [infos |-> NoBarrels, docs |-> <<>>, dirty |-> {}, last |-> INVALID_COMMIT]

\* no process has the index open yet
NotRunning ==
    /\ status = "closed"
    /\ building = NoBuilding
    /\ keeper = NoBarrels
    /\ filter = <<>>
    /\ fresh = FALSE
    /\ bits = [c \in Ids |-> {}]
    /\ keyIndex = <<>>
    /\ pending = <<>>
    /\ merging = NotMerging
    /\ pc = "idle"
    /\ work = NoWork
    /\ stale = {}
    /\ crashes = 0

StoreInit ==
    /\ commits = [c \in Ids |-> NoFile]
    /\ dirs = [c \in Ids |-> NoDir]
    /\ NotRunning
    /\ handedIn = 0
    /\ asked = {}

-----------------------------------------------------------------------------
(* The client and the building thread                                      *)

\* bound: an id for the next sealing and one for the merge
Room == keeper.commit + 2 <= MaxCommit

MayDelete == Cardinality(asked) < MaxDeletes

\* mutant: as if every barrel began at 0
KeysInBarrel(docs, base) == {<<docs[i], i - 1>> : i \in DOMAIN docs}

\* PrimaryKeyIndex::mergeWith
KeysIn(docs, base) == {<<docs[i], base + i - 1>> : i \in DOMAIN docs}

KeyTable(pairs) == [d \in {p[1] : p \in pairs} |-> (CHOOSE p \in pairs : p[1] = d)[2]]

\* the keys of a new barrel added to the table
Inserted(index, keys) ==
    [d \in DOMAIN index \cup DOMAIN keys |-> IF d \in DOMAIN index THEN index[d] ELSE keys[d]]

\* Index::open and loadOnDiskDataForUpdate; a last commit that cannot be read
\* is an exception, now and at every later attempt
Open ==
    /\ status \in {"closed", "aborted"}
    /\ \E c \in Ids \cup {INVALID_COMMIT} :
        /\ IsLast(c) /\ Readable(c)
        /\ keeper' = InfosAt(c)
        /\ filter' = OpenFilter(InfosAt(c))
        /\ bits' = OpenedBits(InfosAt(c))
        /\ keyIndex' = KeyTable(UNION {KeysIn(dirs[b.id].docs, b.base) :
                                         b \in Range(InfosAt(c).barrels)})
    /\ fresh' = TRUE
    /\ status' = "open"
    /\ UNCHANGED <<disk, building, pending, merging, thread, history>>

Add ==
    /\ status = "open"
    /\ handedIn < MaxDocs
    /\ Room
    /\ handedIn' = handedIn + 1
    /\ building' = [building EXCEPT !.docs = Append(@, handedIn + 1)]
    /\ UNCHANGED <<disk, status, keeper, filter, fresh, bits, keyIndex, pending, merging,
                   thread, asked, crashes>>

\* deleteOnDiskDocument.  A bit that is already set would keep
\* DeletedDocumentFilter::deleteDocument in its loop for ever.
DeleteOnDisk(d) ==
    /\ status = "open"
    /\ Room
    /\ d \in DOMAIN keyIndex
    /\ MayDelete
    /\ \E i \in DOMAIN filter :
        LET b == filter[i].barrel
            local == keyIndex[d] - b.base
        IN /\ Covers(filter[i], keyIndex[d])
           /\ local \notin bits[b.id]
           /\ bits' = [bits EXCEPT ![b.id] = @ \cup {local}]
           /\ filter' = [filter EXCEPT ![i].dirty = TRUE]
    /\ asked' = asked \cup {d}
    /\ UNCHANGED <<disk, status, building, keeper, fresh, keyIndex, pending, merging,
                   thread, handedIn, crashes>>

\* IndexBarrelWriter::deleteDocument
DeleteInMemory(d) ==
    /\ status = "open"
    /\ MayDelete
    /\ d \in Range(building.docs) \ building.deleted
    /\ building' = [building EXCEPT !.deleted = @ \cup {d}]
    /\ asked' = asked \cup {d}
    /\ UNCHANGED <<disk, status, keeper, filter, fresh, bits, keyIndex, pending, merging,
                   thread, handedIn, crashes>>

\* What commitBarrelInfo and addToMerge make of a barrel and the filter that was
\* in use until now
Sealed(infos, docs, f) ==
    [barrel |-> Last(infos.barrels),
     docs   |-> docs,
     dirty  |-> Dirty(f),
     last   |-> IF f = <<>> THEN INVALID_COMMIT ELSE Last(f).barrel.id]

\* sealBarrel of a barrel with documents.  appendBarrel marks the new entry dirty
\* if documents of it were deleted, and push_back copies the mark away.  The other
\* marks are copied away too when the vector has to grow: always after a clone,
\* which reserves no room; after an open it depends on how the vector grew.
SealDocuments ==
    LET infos == NewBarrel(keeper, Len(building.docs), Cardinality(building.deleted))
        new == Last(infos.barrels)
        entry == [barrel |-> new, dirty |-> FALSE]
    IN /\ building.docs # <<>>
       /\ keeper' = infos
       /\ \E old \in {filter, Copied(filter)} :
            /\ old = filter => fresh \/ Dirty(filter) = {}
            /\ pending' = Append(pending,
                  Sealed(infos, building.docs, Append(old, entry)))
            /\ filter' = Copied(Append(old, entry))
       /\ bits' = [bits EXCEPT ![new.id] =
              {i - 1 : i \in {i \in DOMAIN building.docs : building.docs[i] \in building.deleted}}]
       /\ keyIndex' = Inserted(keyIndex, KeyTable(KeysIn(building.docs, new.base)))

\* ... of one without, if deletions in other barrels have to be written
SealDeletions ==
    LET infos == NewBarrel(keeper, 0, 0)
    IN /\ building.docs = <<>>
       /\ Dirty(filter) # {}
       /\ keeper' = infos
       /\ pending' = Append(pending, Sealed(infos, <<>>, filter))
       /\ filter' = Copied(filter)
       /\ UNCHANGED <<bits, keyIndex>>

\* mutant: the next barrel starts with the deletions of this one
SealKeepsDeleted ==
    /\ status = "open"
    /\ SealDocuments \/ SealDeletions
    /\ building' = [building EXCEPT !.docs = <<>>]
    /\ fresh' = FALSE
    /\ UNCHANGED <<disk, status, merging, thread, history>>

\* the barrel is full, or IndexWriter::commit was called
Seal ==
    /\ status = "open"
    /\ SealDocuments \/ SealDeletions
    /\ building' = NoBuilding
    /\ fresh' = FALSE
    /\ UNCHANGED <<disk, status, merging, thread, history>>

\* IndexWriter::close: the consumer's stop seals what is left
Close ==
    /\ status = "open"
    /\ \/ SealDocuments
       \/ SealDeletions
       \/ /\ building.docs = <<>> /\ Dirty(filter) = {}
          /\ UNCHANGED <<keeper, filter, bits, keyIndex, pending>>
    /\ building' = NoBuilding
    /\ fresh' = FALSE
    /\ status' = "closing"
    /\ UNCHANGED <<disk, merging, thread, history>>

\* ... and once everything is committed submits the last merge
MergeWith(policy) ==
    /\ status = "closing"
    /\ pending = <<>>
    /\ pc = "idle"
    /\ merging' = [NotMerging EXCEPT !.policy = policy]
    /\ pc' = "merge"
    /\ UNCHANGED <<disk, status, building, keeper, filter, fresh, bits, keyIndex, pending,
                   work, stale, history>>

LastMerge == MergeWith(Strategy)

-----------------------------------------------------------------------------
(* The commit thread: IndexBarrelWriter::commit                            *)

New == work.infos.commit

\* read the last commit, number the barrel, make its directory anew
TakeBatch ==
    /\ pc = "idle"
    /\ pending # <<>>
    /\ \E c \in Ids \cup {INVALID_COMMIT} :
        /\ IsLast(c) /\ Readable(c) /\ c < MaxCommit
        /\ work' = [infos |-> NewBarrel(InfosAt(c), Head(pending).barrel.count,
                                        Head(pending).barrel.deleted),
                    docs  |-> Head(pending).docs,
                    dirty |-> Head(pending).dirty,
                    last  |-> Head(pending).last]
        /\ dirs' = [dirs EXCEPT ![c + 1] = [NoDir EXCEPT !.state = "filling"]]
    /\ pending' = Tail(pending)
    /\ pc' = "data"
    /\ UNCHANGED <<commits, status, building, keeper, filter, fresh, bits, keyIndex,
                   merging, stale, history>>

\* postings and forward indexes
WriteData ==
    /\ pc = "data"
    /\ dirs' = [dirs EXCEPT ![New].docs = work.docs]
    /\ pc' = "deletions"
    /\ UNCHANGED <<commits, memory, work, stale, history>>

\* mutant: the bits are written to the directory of the barrel they are of
WriteDeletionsInPlace ==
    /\ pc = "deletions"
    /\ dirs' = [b \in Ids |->
           IF New >= work.last /\ b \in work.dirty
           THEN [dirs[b] EXCEPT !.deletions = (b :> bits[b]) @@ @] ELSE dirs[b]]
    /\ pc' = "rest"
    /\ UNCHANGED <<commits, memory, work, stale, history>>

\* DeletedDocumentFilter::commit, with the bits as they are now
WriteDeletions ==
    /\ pc = "deletions"
    /\ dirs' = IF New >= work.last
               THEN [dirs EXCEPT ![New].deletions = [b \in work.dirty |-> bits[b]]]
               ELSE dirs
    /\ pc' = "rest"
    /\ UNCHANGED <<commits, memory, work, stale, history>>

\* length norms and stored fields
WriteRest ==
    /\ pc = "rest"
    /\ dirs' = [dirs EXCEPT ![New].state = "whole"]
    /\ pc' = "create"
    /\ UNCHANGED <<commits, memory, work, stale, history>>

\* BarrelsInfo::write: createFile, then write
CreateCommitFile ==
    /\ pc = "create"
    /\ commits' = [commits EXCEPT ![New] = [state |-> "torn", barrels |-> <<>>]]
    /\ pc' = "write"
    /\ UNCHANGED <<dirs, memory, work, stale, history>>

\* The keeper's refresh that follows finds a commit that is not newer than its
\* own last one, and changes nothing.
WriteCommitFile ==
    /\ pc = "write"
    /\ commits' = [commits EXCEPT ![New] = [state |-> "whole", barrels |-> work.infos.barrels]]
    /\ IF merging.proposals = <<>>
       THEN /\ pc' = IF merging = NotMerging THEN "clean" ELSE "merge"
            /\ work' = NoWork
       ELSE /\ pc' = "proposal"
            /\ work' = [NoWork EXCEPT !.infos = work.infos]
    /\ UNCHANGED <<dirs, memory, stale, history>>

-----------------------------------------------------------------------------
(* KeepByCommitIndexCleaner::cleanup                                       *)

TooMany == KeepCount > 0 /\ Cardinality(Listed) > KeepCount

\* mutant: the barrels of the commit are not remembered
DropCommitOnly ==
    /\ pc = "clean"
    /\ TooMany
    /\ \E c \in Listed :
        /\ \A k \in Listed : c <= k
        /\ commits' = [commits EXCEPT ![c] = NoFile]
    /\ UNCHANGED <<dirs, memory, pc, work, stale, history>>

DropCommit ==
    /\ pc = "clean"
    /\ TooMany
    /\ \E c \in Listed :
        /\ \A k \in Listed : c <= k
        /\ stale' = stale \cup Referenced(c)
        /\ commits' = [commits EXCEPT ![c] = NoFile]
    /\ UNCHANGED <<dirs, memory, pc, work, history>>

\* mutant: only the newest commit's barrels are kept
ReserveNewest ==
    /\ pc = "clean"
    /\ ~TooMany
    /\ stale' = stale \ UNION {Referenced(c) : c \in {c \in Listed : IsLast(c)}}
    /\ pc' = "dirs"
    /\ UNCHANGED <<disk, memory, work, history>>

\* the barrels of the commits that stay
Reserve ==
    /\ pc = "clean"
    /\ ~TooMany
    /\ stale' = stale \ UNION {Referenced(c) : c \in Listed}
    /\ pc' = "dirs"
    /\ UNCHANGED <<disk, memory, work, history>>

\* mutant: the newest directory first
RemoveNewestDir ==
    /\ pc = "dirs"
    /\ \E b \in stale :
        /\ \A k \in stale : k <= b
        /\ stale' = stale \ {b}
        /\ dirs' = [dirs EXCEPT ![b] = NoDir]
    /\ UNCHANGED <<commits, memory, pc, work, history>>

\* mutant: the loop does not go on to the next directory
RemoveDirAgain ==
    /\ pc = "dirs"
    /\ \E b \in stale :
        /\ \A k \in stale : b <= k
        /\ dirs' = [dirs EXCEPT ![b] = NoDir]
    /\ UNCHANGED <<commits, memory, pc, work, stale, history>>

RemoveDir ==
    /\ pc = "dirs"
    /\ \E b \in stale :
        /\ \A k \in stale : b <= k
        /\ stale' = stale \ {b}
        /\ dirs' = [dirs EXCEPT ![b] = NoDir]
    /\ UNCHANGED <<commits, memory, pc, work, history>>

\* nothing is left in memory when the process has ended
Forgotten ==
    /\ building' = NoBuilding
    /\ keeper' = NoBarrels
    /\ filter' = <<>>
    /\ fresh' = FALSE
    /\ bits' = [c \in Ids |-> {}]
    /\ keyIndex' = <<>>
    /\ pending' = <<>>
    /\ merging' = NotMerging

\* the commit thread goes on to the next batch; after the last merge close returns
Cleaned ==
    /\ pc = "dirs"
    /\ stale = {}
    /\ pc' = "idle"
    /\ IF merging # NotMerging
       THEN status' = "closed" /\ Forgotten
       ELSE UNCHANGED memory
    /\ UNCHANGED <<disk, work, stale, history>>

-----------------------------------------------------------------------------
(* IndexMerger::merge                                                      *)

\* mutant: only the deletion file in a barrel's own directory is looked for
MergedDocsOwn(proposal) ==
    FlattenSeq([i \in DOMAIN proposal.barrels |->
        LET b == proposal.barrels[i] IN Without(b.id, LatestFilter(b.id, b.id, b.id))])

\* The documents that are not deleted, renumbered in order (DocIdRecycling); the
\* deletion files are looked for up to the commit id of the proposal.
MergedDocs(proposal) ==
    FlattenSeq([i \in DOMAIN proposal.barrels |->
        LET b == proposal.barrels[i] IN Without(b.id, LatestFilter(b.id, b.id, proposal.commit))])

\* createMergedBarrelsInfo: the other barrels keep their place
WithoutBarrels(infos, proposal) ==
    [infos EXCEPT !.barrels = Selection(@)[{i \in DOMAIN @ : @[i] \notin Range(proposal.barrels)}]]

\* what one turn of the loop will merge: lists of barrels, or nothing
Parts(infos, proposals) == IF Len(infos.barrels) <= 1 THEN <<>> ELSE Split(proposals)

\* one turn of the loop begins: what the last one wrote is read again
Merge ==
    /\ pc = "merge"
    /\ \E c \in Ids \cup {INVALID_COMMIT} :
        /\ IsLast(c) /\ Readable(c)
        /\ ~NullProposal(merging.policy, InfosAt(c).barrels)
        /\ \E proposals \in {Proposals(merging.policy, InfosAt(c))} :
            LET parts == Parts(InfosAt(c), proposals)
            IN /\ pc' = IF parts = <<>> THEN "clean" ELSE "proposal"
               /\ work' = IF parts = <<>> THEN NoWork ELSE [NoWork EXCEPT !.infos = InfosAt(c)]
               /\ merging' = [merging EXCEPT !.proposals = parts]
    /\ UNCHANGED <<disk, status, building, keeper, filter, fresh, bits, keyIndex, pending,
                   stale, history>>

\* The process ends at a null pointer.
MergeAborts ==
    /\ pc = "merge"
    /\ \E c \in Ids : /\ IsLast(c) /\ Readable(c)
                      /\ NullProposal(merging.policy, InfosAt(c).barrels)
    /\ status' = "aborted"
    /\ Forgotten
    /\ pc' = "idle"
    /\ UNCHANGED <<disk, work, stale, history>>

\* The next barrels of the proposal become one.  It has no deletion file: a bit that
\* is set belongs to a document that was dropped.
MergeProposal ==
    /\ pc = "proposal"
    /\ New < MaxCommit
    /\ LET proposal == Head(merging.proposals)
       IN \E docs \in {MergedDocs(proposal)} :
            work' = [work EXCEPT
                !.infos = NewBarrel(WithoutBarrels(work.infos, proposal), Len(docs), 0),
                !.docs = docs]
    /\ merging' = [merging EXCEPT !.proposals = Tail(@)]
    /\ dirs' = [dirs EXCEPT ![New + 1] = [NoDir EXCEPT !.state = "filling"]]
    /\ pc' = "data"
    /\ UNCHANGED <<commits, status, building, keeper, filter, fresh, bits, keyIndex, pending,
                   stale, history>>

-----------------------------------------------------------------------------
Crash ==
    /\ status \in {"open", "closing"}
    /\ crashes < MaxCrashes
    /\ crashes' = crashes + 1
    /\ status' = "closed"
    /\ Forgotten
    /\ pc' = "idle"
    /\ work' = NoWork
    /\ stale' = {}
    /\ UNCHANGED <<disk, handedIn, asked>>

CommitThread ==
    \/ TakeBatch \/ WriteData \/ WriteDeletions \/ WriteRest
    \/ CreateCommitFile \/ WriteCommitFile
    \/ DropCommit \/ Reserve \/ RemoveDir \/ Cleaned
    \/ Merge \/ MergeAborts \/ MergeProposal

StoreNext ==
    \/ Open \/ Add \/ Seal \/ Close \/ LastMerge
    \/ \E d \in Documents : DeleteOnDisk(d) \/ DeleteInMemory(d)
    \/ CommitThread
    \/ Crash

StoreSpec == StoreInit /\ [][StoreNext]_storeVars

-----------------------------------------------------------------------------
(* Properties                                                              *)

Barrels == [id : Ids, base : Nat, count : 0..MaxDocs, deleted : 0..MaxDocs]
Infos == [commit : Ids \cup {INVALID_COMMIT}, barrels : Seq(Barrels)]

\* TypeOK: every file and every piece of memory has its shape.
TypeOK ==
    /\ commits \in [Ids -> [state : {"absent", "torn", "whole"}, barrels : Seq(Barrels)]]
    /\ \A c \in Ids :
        /\ dirs[c].state \in {"absent", "filling", "whole"}
        /\ dirs[c].docs \in Seq(Documents)
        /\ DOMAIN dirs[c].deletions \subseteq Ids
        /\ \A b \in DOMAIN dirs[c].deletions : dirs[c].deletions[b] \subseteq 0..MaxDocs
    /\ status \in {"closed", "open", "closing", "aborted"}
    /\ building.docs \in Seq(Documents) /\ building.deleted \subseteq Range(building.docs)
    /\ keeper \in Infos
    /\ filter \in Seq([barrel : Barrels, dirty : BOOLEAN])
    /\ fresh \in BOOLEAN
    /\ bits \in [Ids -> SUBSET (0..MaxDocs)]
    /\ DOMAIN keyIndex \subseteq Documents
    /\ merging.policy \in Policies \cup {"none"} /\ merging.proposals \in Seq(Infos)
    /\ pc \in {"idle", "data", "deletions", "rest", "create", "write", "clean", "dirs",
               "merge", "proposal"}
    /\ work.infos \in Infos
    /\ stale \subseteq Ids
    /\ handedIn \in 0..MaxDocs /\ asked \subseteq Documents /\ crashes \in 0..MaxCrashes

\* CommitIsWhole: whatever the moment, and after any crash, a commit file that can
\* be read refers to directories that are complete and hold as many documents as it
\* says (BarrelsInfo::write comes last; the cleaner spares what is still referred to).
\* One that was created and not written is the newest, and unless it is just being
\* written the process has crashed: then nobody can open the index again.
CommitIsWhole ==
    \A c \in Ids :
        /\ commits[c].state = "whole" =>
              \A b \in Range(commits[c].barrels) :
                  dirs[b.id].state = "whole" /\ Len(dirs[b.id].docs) = b.count
        /\ commits[c].state = "torn" =>
              /\ IsLast(c)
              /\ (pc = "write" /\ New = c) \/ (crashes > 0 /\ status = "closed")

\* the keeper is in use
Writing == status \in {"open", "closing"} /\ merging = NotMerging

\* KeysPointAtDocuments: the document id under which the primary key index of the
\* writing process knows a document is its id in the newest commit that can be read,
\* although the two are numbered independently (updateBarrelInfo; newBarrel in commit).
KeysPointAtDocuments ==
    \A c \in Ids :
        IsLast(c) /\ commits[c].state = "whole" /\ Writing =>
            \A b \in Range(commits[c].barrels) : \A i \in 1..b.count :
                LET d == dirs[b.id].docs[i]
                IN d \in DOMAIN keyIndex /\ keyIndex[d] = b.base + i - 1

\* DeletionsKnown: whatever the newest commit has as deleted, the filter of the writing
\* process has too, so a deletion it writes again forgets none of the older ones.
DeletionsKnown ==
    \A c \in Ids :
        IsLast(c) /\ commits[c].state = "whole" /\ Writing =>
            \A b \in Referenced(c) : LatestFilter(b, b, c) \subseteq bits[b]

\* NoGarbage: while the commit thread rests, and if no crash interrupted it, the
\* directories on disk are those the commits on disk refer to, and there are KeepCount
\* commits at most (cleanup after every commit and at the end of a merge). The balanced
\* tree's null pointer (MergeAborts) may end the process between two turns of a merge,
\* with a commit of each turn on disk.
NoGarbage ==
    (pc = "idle" /\ crashes = 0 /\ KeepCount > 0) =>
        /\ Strategy # "dbt" => Cardinality(Listed) <= KeepCount
        /\ {b \in Ids : dirs[b].state # "absent"} = UNION {Referenced(c) : c \in Listed}

\* The newest commit that can be read
NewestInfos ==
    LET whole == {c \in Ids : commits[c].state = "whole"}
    IN IF whole = {} THEN NoBarrels
       ELSE InfosAt(CHOOSE c \in whole : \A k \in whole : k <= c)

BatchInWork == pc \in {"data", "deletions", "rest", "create", "write"} /\ merging = NotMerging

Abstract == INSTANCE AtomicStore WITH
    visible <- Visible(NewestInfos),
    queue   <- (IF BatchInWork THEN <<Range(work.docs)>> ELSE <<>>)
               \o [i \in DOMAIN pending |-> Range(pending[i].docs)],
    asked   <- asked,
    sealed  <- 1..(handedIn - Len(building.docs))

\* ImplementsAtomicStore: batches reach the disk one by one, as a whole and in the order
\* of sealing; merging, cleaning and crashes change nothing of what a reader of the
\* newest readable commit finds, and a document disappears only if it was deleted.
ImplementsAtomicStore == Abstract!Spec

=============================================================================
