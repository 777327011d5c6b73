----------------------------- MODULE IndexReading -----------------------------
(***************************************************************************)
(* A second process that has the index open in READ mode, while the one of *)
(* IndexStore writes, merges and cleans: Index::open, and acquireReader    *)
(* with its refresh, which reuses what it can of the reader it has.        *)
(* IndexBarrelKeeper, DeletedDocumentFilter, PrimaryKeyIndex and the       *)
(* barrel readers as they read the files, one directory at a time.  Files  *)
(* that are open stay readable when they are deleted.                      *)
(***************************************************************************)
EXTENDS IndexStore

VARIABLES
    place,   \* where the reading thread is
    held,    \* the reader it has: infos, filters and entries of a commit
    found,   \* the last commit of the CommitList it has loaded
    next,    \* the reader being made
    at,      \* the barrel it is at
    cursor   \* the barrels of the held reader that reopen has gone past

readVars == <<place, held, found, next, at, cursor>>
vars == <<storeVars, readVars>>

\* filters: for each barrel of infos what its filter has; entries: the barrels
\* that are open, with their documents and the filter their term readers use.
\* truth: history, what the commit had when its file was read.
NoReader == [infos |-> NoBarrels, filters |-> <<>>, entries |-> <<>>, truth |-> {}]

Refreshing == held # NoReader

ReadInit ==
    /\ place = "idle"
    /\ held = NoReader
    /\ found = INVALID_COMMIT
    /\ next = NoReader
    /\ at = 1
    /\ cursor = 0

Here == next.infos.barrels[at]
BarrelCount == Len(next.infos.barrels)
Old == held.infos.barrels

Entry(barrel, gone) == [id |-> barrel.id, docs |-> dirs[barrel.id].docs, gone |-> gone]

\* The exception leaves the reader that is held as it was.
Fail ==
    /\ place' = "failed"
    /\ UNCHANGED <<held, found, next, at, cursor>>

GoOn(last, then) ==
    IF last THEN place' = then /\ at' = 1 ELSE at' = at + 1 /\ UNCHANGED place

-----------------------------------------------------------------------------
\* CommitList::load, by BarrelsInfo::read.  acquireReader first loads a list of its
\* own and returns if there is no newer commit; a reader needs one commit.
List ==
    /\ place = "idle"
    /\ \E c \in Ids : IsLast(c) /\ c > held.infos.commit /\ found' = c
    /\ place' = "infos"
    /\ UNCHANGED <<held, next, at, cursor>>

\* BarrelsInfo::read of that commit
ReadInfos ==
    /\ place = "infos"
    /\ commits[found].state = "whole"
    /\ next' = [NoReader EXCEPT !.infos = InfosAt(found), !.truth = Visible(InfosAt(found))]
    /\ place' = "filters"
    /\ at' = 1
    /\ cursor' = 0
    /\ UNCHANGED <<held, found>>

ReadInfosFails ==
    /\ place = "infos"
    /\ commits[found].state # "whole"
    /\ Fail

\* DeletedDocumentFilter::open, one barrel
LoadFilter ==
    /\ place = "filters"
    /\ ~Refreshing
    /\ next' = [next EXCEPT !.filters =
                  Append(@, LatestFilter(Here.id, Here.id, next.infos.commit))]
    /\ GoOn(at = BarrelCount, "entries")
    /\ UNCHANGED <<held, found, cursor>>

SameAsOld == cursor < Len(Old) /\ Old[cursor + 1].id = Here.id

\* DeletedDocumentFilter::reopen, one barrel: a file written since the commit that is
\* held; or else the filter that is held, if the two lists agree so far; or else an
\* empty one.  The iterator over the old list stands still when a file was found.
ReloadFilter ==
    LET newer == WithFilter(Here.id, held.infos.commit + 1, next.infos.commit)
        gone == IF newer # {}
                THEN LatestFilter(Here.id, held.infos.commit + 1, next.infos.commit)
                ELSE IF SameAsOld THEN held.filters[cursor + 1] ELSE {}
    IN /\ place = "filters"
       /\ Refreshing
       /\ next' = [next EXCEPT !.filters = Append(@, gone)]
       /\ cursor' = IF at = BarrelCount THEN 0
                    ELSE IF newer = {} /\ cursor < Len(Old) THEN cursor + 1 ELSE cursor
       /\ GoOn(at = BarrelCount, "keys")
       /\ UNCHANGED <<held, found>>

-----------------------------------------------------------------------------
\* The directories whose key file PrimaryKeyIndex::reopen opens: the last one, those
\* of the barrels that were added, or, if something was merged, all.
KeyBarrels ==
    LET all == next.infos.barrels
        grown == next.infos.commit - held.infos.commit = BarrelCount - Len(Old)
    IN CASE BarrelCount = 1 -> {all[1]}
         [] BarrelCount # 1 /\ grown ->
              {all[i] : i \in {i \in DOMAIN all : i > Len(Old) /\ all[i].count > 0}}
         [] OTHER -> Range(all)

\* a barrel that was made only to carry deletions has no key file
OnlyDeletions(b) == b.count = 0 /\ DOMAIN dirs[b.id].deletions # {}
HasKeys(b) == dirs[b.id].state = "whole" /\ ~OnlyDeletions(b)

ReopenKeys ==
    /\ place = "keys"
    /\ IF \A b \in KeyBarrels : HasKeys(b)
       THEN place' = "entries" /\ UNCHANGED <<held, found, next, at, cursor>>
       ELSE Fail

\* reopen of the last reader's clone, or a reader of its own kind made anew
Reuses ==
    /\ Refreshing
    /\ IF BarrelCount = 1
       THEN Len(Old) = 1 /\ next.infos.commit - held.infos.commit <= 1
       ELSE Len(Old) > 1

\* SingleIndexBarrelReader::open opens the files of a directory.  In a list of
\* several barrels those without documents are passed over.
OpenEntry ==
    /\ place = "entries"
    /\ ~Reuses \/ ~SameAsOld
    /\ IF Here.count = 0 /\ BarrelCount > 1
       THEN /\ UNCHANGED next
            /\ GoOn(at = BarrelCount, "opened")
            /\ cursor' = cursor + 1
            /\ UNCHANGED <<held, found>>
       ELSE IF dirs[Here.id].state # "whole"
       THEN Fail
       ELSE /\ next' = [next EXCEPT !.entries = Append(@, Entry(Here, next.filters[at]))]
            /\ GoOn(at = BarrelCount, "opened")
            /\ cursor' = cursor + 1
            /\ UNCHANGED <<held, found>>

\* mutant: the entry is not taken over
ReuseNothing ==
    /\ place = "entries"
    /\ Reuses /\ SameAsOld
    /\ cursor' = cursor + 1
    /\ GoOn(at = BarrelCount, "opened")
    /\ UNCHANGED <<next, held, found>>

\* MultiIndexBarrelReader::reopen: the entry at the cursor, whose term reader keeps the
\* filter it was opened with.  The cursor counts barrels, the entries leave out those
\* without documents: past the end, what m_readers[cursor] is is undefined.
ReuseEntry ==
    /\ place = "entries"
    /\ Reuses /\ SameAsOld
    /\ cursor' = cursor + 1
    /\ IF cursor < Len(held.entries)
       THEN /\ next' = [next EXCEPT !.entries = Append(@, held.entries[cursor + 1])]
            /\ GoOn(at = BarrelCount, "opened")
       ELSE /\ place' = "undefined"
            /\ UNCHANGED <<next, at>>
    /\ UNCHANGED <<held, found>>

\* Index::open opens the key files last, again those of barrels with documents only
Opened ==
    /\ place = "opened"
    /\ IF Refreshing \/ \A b \in Range(next.infos.barrels) :
                            b.count > 0 => dirs[b.id].state = "whole"
       THEN /\ held' = next
            /\ next' = NoReader
            /\ place' = "idle"
            /\ cursor' = 0
            /\ UNCHANGED <<found, at>>
       ELSE Fail

\* the client tries again later
Retry ==
    /\ place = "failed"
    /\ place' = "idle"
    /\ next' = NoReader
    /\ at' = 1
    /\ cursor' = 0
    /\ UNCHANGED <<held, found>>

\* the client closes the index
CloseReader ==
    /\ place = "idle"
    /\ Refreshing
    /\ held' = NoReader
    /\ UNCHANGED <<place, found, next, at, cursor>>

Read ==
    \/ List \/ ReadInfos \/ ReadInfosFails \/ LoadFilter \/ ReloadFilter
    \/ ReopenKeys \/ OpenEntry \/ ReuseEntry \/ Opened \/ Retry \/ CloseReader

Init == StoreInit /\ ReadInit

Next ==
    \/ StoreNext /\ UNCHANGED readVars
    \/ Read /\ UNCHANGED storeVars

Spec == Init /\ [][Next]_vars

-----------------------------------------------------------------------------
(* Properties                                                              *)

\* what a search finds, and what it would find without deletions
Kept(entry) == {entry.docs[i] : i \in {i \in DOMAIN entry.docs : i - 1 \notin entry.gone}}
Found(reader) == UNION {Kept(e) : e \in Range(reader.entries)}

\* OpenedReaderIsCommit: a reader that Index::open has made finds what the commit had
\* whose file was read first, no more and no less, although the writer may have dropped
\* that commit and removed directories in the meantime: the filters are loaded before the
\* barrels are opened, and the cleaner removes the oldest directory first.
OpenedReaderIsCommit ==
    [][place = "opened" /\ place' = "idle" /\ ~Refreshing => Found(next) = next.truth]_vars

\* FailsOnlyIfOvertaken: an exception out of open or refresh means that the newest commit
\* file was not yet written, or that KeepCount newer commits have been written since the
\* list was read, or, when everything is loaded anew after a merge, that the index has a
\* barrel with deletions only (reopen opens its key file, which was never written).
FailsOnlyIfOvertaken ==
    [][place # "failed" /\ place' = "failed" =>
          \/ commits[found].state = "torn"
          \/ commits[found].state = "absent" /\ KeepCount > 0
             /\ Cardinality({c \in Listed : c > found}) >= KeepCount
          \/ place = "keys" /\ \E b \in KeyBarrels : OnlyDeletions(b)]_vars

\* ReaderHasEveryBarrel: the reader that is held, opened or refreshed, has an entry for
\* each barrel with documents of its commit, in the order of their document ids
\* (MultiIndexBarrelReader::open and reopen walk two lists with one cursor).
ReaderHasEveryBarrel ==
    Len(held.infos.barrels) > 1 =>
        [i \in DOMAIN held.entries |-> held.entries[i].id] =
        LET full == SelectSeq(held.infos.barrels, LAMBDA b : b.count > 0)
        IN [i \in DOMAIN full |-> full[i].id]

\* RefreshSeesDeletions: the filter of a reader that is held, opened or refreshed, has what
\* the deletion files of its commit say (DeletedDocumentFilter::reopen).
Filtered(reader) ==
    UNION {LET b == reader.infos.barrels[i]
           IN {dirs[b.id].docs[p] : p \in {p \in 1..b.count : p - 1 \notin reader.filters[i]}} :
              i \in DOMAIN reader.infos.barrels}

RefreshSeesDeletions ==
    [][place = "opened" /\ place' = "idle" /\ commits[next.infos.commit].state = "whole"
          => Filtered(next) = next.truth]_vars

=============================================================================
