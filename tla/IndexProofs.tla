------------------------------ MODULE IndexProofs ------------------------------
(***************************************************************************)
(* What is proved of the files as seen from outside, for any documents,    *)
(* deletions, crashes, kept commits and bounds.  Of a reader in another    *)
(* process: that it fails only if it was overtaken.  Of merging: that the  *)
(* lists of barrels stay sound and no document is lost.  Of the whole      *)
(* store, where a merge takes all barrels at once: that it is an atomic    *)
(* one, whose batches are shown all together and in the order they came.   *)
(***************************************************************************)
EXTENDS IndexReading, IndexMerging, IndexStoreProofs

-----------------------------------------------------------------------------
(* The inductive invariant                                                 *)

\* A commit has a barrel at least.
NoneEmpty == \A c \in Ids : commits[c].state = "whole" => commits[c].barrels # <<>>

Newer(c) == {k \in Listed : k > c}

\* The reader's commit is no newer than the newest, and where it was dropped there are
\* KeepCount newer ones.
FoundInv ==
    /\ found \in Ids \cup {INVALID_COMMIT}
    /\ found \in Ids =>
          /\ \E c \in Listed : found <= c
          /\ commits[found].state = "absent" => KeepCount > 0 /\ Cardinality(Newer(found)) >= KeepCount

Loading == {"filters", "keys", "entries", "opened"}

\* What is loaded is what that commit has, as long as it is there.
LoadInv ==
    /\ place \in {"idle", "infos", "failed", "undefined"} \cup Loading
    /\ place \in {"infos"} \cup Loading => found \in Ids
    /\ place \in Loading =>
          /\ next = [infos |-> next.infos, filters |-> next.filters, entries |-> next.entries,
                     truth |-> next.truth]
          /\ IsSequence(next.infos.barrels) /\ next.infos.barrels # <<>>
          /\ commits[found].state # "absent" =>
                commits[found].state = "whole" /\ commits[found].barrels = next.infos.barrels
    /\ place \in {"filters", "keys", "entries"} => at \in 1..BarrelCount

ReadInv == NoneEmpty /\ FoundInv /\ LoadInv

-----------------------------------------------------------------------------
(* The writing process                                                     *)

LEMMA WriterStep == [Next]_vars => [StoreNext]_storeVars
BY DEF Next, vars

\* Every step of the model is one of the writing process, or leaves the files alone.
LEMMA StoreGoesOn == Spec => StoreSpec
<1>1. Init => StoreInit
  BY DEF Init
<1> QED
  BY <1>1, WriterStep, PTL DEF Spec, StoreSpec

LEMMA ListedIsFinite ==
  /\ IsFiniteSet(Listed) /\ Cardinality(Listed) \in Nat
  /\ \A c : IsFiniteSet(Newer(c)) /\ Cardinality(Newer(c)) \in Nat
<1>1. IsFiniteSet(0..MaxCommit) /\ Listed \subseteq 0..MaxCommit
  BY IdsAreNumbers, FS_Interval DEF Listed, Ids
<1>2. \A c : Newer(c) \subseteq 0..MaxCommit
  BY <1>1 DEF Newer
<1> QED
  BY <1>1, <1>2, FS_Subset, FS_CardinalityType

LEMMA QuietKeepsReading ==
  ASSUME ReadInv, UNCHANGED <<commits, readVars>>
  PROVE  ReadInv'
BY DEF ReadInv, NoneEmpty, FoundInv, LoadInv, Newer, Listed, readVars, BarrelCount

LEMMA CreateKeepsReading ==
  ASSUME DiskInv, ReadInv, CreateCommitFile, UNCHANGED readVars
  PROVE  ReadInv'
<1>1. /\ New \in Ids /\ New \in Nat /\ IsLast(New - 1)
      /\ commits' = [commits EXCEPT ![New] = [state |-> "torn", barrels |-> <<>>]]
  BY IdsAreNumbers DEF CreateCommitFile, DiskInv, Writes, WorkIntact
<1>2. /\ commits'[New] = [state |-> "torn", barrels |-> <<>>]
      /\ \A c \in Ids : c # New => commits'[c] = commits[c]
  BY <1>1 DEF DiskInv, DiskShape
<1>3. Listed' = Listed \cup {New}
  BY <1>1, <1>2 DEF Listed
<1>4. \A c \in Listed : c \in Nat /\ c < New
  BY <1>1, IdsAreNumbers DEF IsLast, Listed, INVALID_COMMIT
<1>5. found \in Ids => found # New /\ commits'[found] = commits[found]
  BY <1>2, <1>4, IdsAreNumbers DEF ReadInv, FoundInv
<1>6. FoundInv'
  <2>1. Newer(found) \subseteq Newer(found)'
    BY <1>3 DEF Newer, readVars
  <2>2. Cardinality(Newer(found)) <= Cardinality(Newer(found)')
    <3>1. IsFiniteSet(Newer(found)')
      BY <1>3, ListedIsFinite, FS_AddElement, FS_Subset DEF Newer
    <3> QED
      BY <2>1, <3>1, FS_Subset
  <2>3. found' = found /\ \A c \in Listed : c \in Listed'
    BY <1>3 DEF readVars
  <2>4. ASSUME found \in Ids, commits'[found].state = "absent" PROVE KeepCount > 0 /\ Cardinality(Newer(found)') >= KeepCount
    <3>1. KeepCount > 0 /\ Cardinality(Newer(found)) >= KeepCount
      BY <1>5, <2>4 DEF ReadInv, FoundInv
    <3>2. Cardinality(Newer(found)') \in Nat
      BY <1>3, ListedIsFinite, FS_AddElement, FS_Subset, FS_CardinalityType DEF Newer
    <3> QED
      BY <2>2, <3>1, <3>2, ListedIsFinite, KeepAssumption
  <2> QED
    BY <2>3, <2>4 DEF ReadInv, FoundInv
<1>7. LoadInv' /\ NoneEmpty'
  BY <1>2, <1>5 DEF ReadInv, LoadInv, NoneEmpty, readVars, BarrelCount
<1> QED
  BY <1>6, <1>7 DEF ReadInv

LEMMA WriteKeepsReading ==
  ASSUME DiskInv, ReadInv, WriteCommitFile, UNCHANGED readVars
  PROVE  ReadInv'
<1>1. /\ New \in Ids /\ commits[New].state = "torn"
      /\ commits' = [commits EXCEPT ![New] = [state |-> "whole", barrels |-> work.infos.barrels]]
      /\ \E b \in Range(work.infos.barrels) : b.id = New
  BY DEF WriteCommitFile, DiskInv, Writes, WorkIntact
<1>2. /\ commits'[New] = [state |-> "whole", barrels |-> work.infos.barrels]
      /\ \A c \in Ids : c # New => commits'[c] = commits[c]
  BY <1>1 DEF DiskInv, DiskShape
<1>3. Listed' = Listed /\ work.infos.barrels # <<>>
  BY <1>1, <1>2, EmptySequence DEF Listed
<1>4. FoundInv'
  BY <1>2, <1>3 DEF ReadInv, FoundInv, Newer, readVars
<1>5. place \in Loading => found # New
  BY <1>1 DEF ReadInv, LoadInv
<1>6. LoadInv' /\ NoneEmpty'
  BY <1>2, <1>3, <1>5 DEF ReadInv, LoadInv, NoneEmpty, readVars, BarrelCount
<1> QED
  BY <1>4, <1>6 DEF ReadInv

\* The cleaner drops the oldest commit, and never one of the newest KeepCount.
LEMMA DropKeepsReading ==
  ASSUME DiskInv, ReadInv, DropCommit, UNCHANGED readVars
  PROVE  ReadInv'
<1>1. PICK c \in Listed : (\A k \in Listed : c <= k) /\ commits' = [commits EXCEPT ![c] = NoFile]
  BY DEF DropCommit
<1>2. /\ commits'[c] = NoFile /\ c \in Nat
      /\ \A k \in Ids : k # c => commits'[k] = commits[k]
  BY <1>1, IdsAreNumbers DEF DiskInv, DiskShape, Listed
<1>3. Listed' = Listed \ {c} /\ c \in Listed
  BY <1>1, <1>2 DEF Listed, NoFile
<1>4. /\ KeepCount \in Nat /\ KeepCount > 0 /\ Cardinality(Listed) > KeepCount
      /\ Cardinality(Listed') = Cardinality(Listed) - 1
  BY <1>3, ListedIsFinite, FS_RemoveElement, KeepAssumption DEF DropCommit, TooMany
<1>5. ASSUME found \in Ids PROVE \E k \in Listed' : found <= k
  <2>1. PICK k \in Listed : found <= k
    BY <1>5 DEF ReadInv, FoundInv
  <2>2. CASE k # c
    BY <1>3, <2>1, <2>2
  <2>3. CASE k = c
    <3>1. Listed' # {}
      BY <1>4, ListedIsFinite, FS_EmptySet
    <3>2. PICK j \in Listed' : j \in Nat /\ c <= j
      BY <1>1, <1>3, <3>1, IdsAreNumbers DEF Listed
    <3> QED
      BY <1>2, <1>5, <2>1, <2>3, <3>2, IdsAreNumbers
  <2> QED
    BY <2>2, <2>3
<1>6. ASSUME found \in Ids, commits'[found].state = "absent" PROVE Cardinality(Newer(found)') >= KeepCount
  <2>1. found' = found /\ found \in Nat
    BY <1>6, IdsAreNumbers DEF readVars
  <2>2. CASE c < found
    <3>1. Newer(found)' = Newer(found)
      BY <1>2, <1>3, <2>1, <2>2 DEF Newer
    <3> QED
      BY <1>2, <1>6, <2>1, <2>2, <3>1 DEF ReadInv, FoundInv
  <2>3. CASE found <= c
    <3>1. \A k \in Listed' : k \in Nat /\ k > found
      BY <1>1, <1>2, <1>3, <1>6, <2>1, <2>3, IdsAreNumbers DEF Listed
    <3>2. Newer(found)' = Listed'
      BY <2>1, <3>1 DEF Newer
    <3> QED
      BY <1>4, <3>2, ListedIsFinite
  <2> QED
    BY <1>2, <2>1, <2>2, <2>3
<1>7. FoundInv'
  BY <1>4, <1>5, <1>6 DEF ReadInv, FoundInv, readVars
<1>8. LoadInv' /\ NoneEmpty'
  BY <1>2 DEF ReadInv, LoadInv, NoneEmpty, readVars, BarrelCount, NoFile
<1> QED
  BY <1>7, <1>8 DEF ReadInv

-----------------------------------------------------------------------------
(* The reader                                                              *)

LEMMA GoOnStays ==
  ASSUME NEW then, ReadInv, place \in {"filters", "entries"}, GoOn(at = BarrelCount, then),
         next'.infos = next.infos
  PROVE  at' \in 1..BarrelCount'
<1>1. BarrelCount \in Nat /\ BarrelCount # 0 /\ BarrelCount' = BarrelCount /\ at \in 1..BarrelCount
  BY SequenceShape DEF ReadInv, LoadInv, Loading, BarrelCount
<1> QED
  BY <1>1 DEF GoOn

LEMMA ReadKeepsReading ==
  ASSUME DiskInv, ReadInv, Read, UNCHANGED storeVars
  PROVE  ReadInv'
<1>1. UNCHANGED commits
  BY DEF storeVars, disk
<1>2. NoneEmpty' /\ (found' = found => FoundInv')
  BY <1>1 DEF ReadInv, NoneEmpty, FoundInv, Newer, Listed
<1>3. CASE List
  <2>1. PICK c \in Ids : IsLast(c) /\ found' = c
    BY <1>3 DEF List
  <2>2. c \in Listed
    BY <2>1, IdsAreNumbers DEF IsLast
  <2>3. FoundInv'
    <3>1. c <= c /\ commits[c].state # "absent" /\ Listed' = Listed
      BY <1>1, <2>2, IdsAreNumbers DEF Listed
    <3> QED
      BY <1>1, <2>1, <2>2, <3>1 DEF FoundInv
  <2>4. LoadInv'
    BY <1>1, <1>3, <2>1 DEF List, LoadInv, Loading
  <2> QED
    BY <1>2, <2>3, <2>4 DEF ReadInv
<1>4. CASE ReadInfos
  <2>1. found \in Ids /\ found # INVALID_COMMIT /\ commits[found].state = "whole"
    BY <1>4, IdsAreNumbers DEF ReadInfos, ReadInv, LoadInv
  <2>2. /\ InfosAt(found).barrels = commits[found].barrels
        /\ IsSequence(commits[found].barrels) /\ commits[found].barrels # <<>>
    BY <2>1, InfosAtIsList DEF ReadInv, NoneEmpty, DiskInv, DiskShape, IsFile
  <2>3. next' = [infos |-> InfosAt(found), filters |-> <<>>, entries |-> <<>>, truth |-> Visible(InfosAt(found))]
    BY <1>4 DEF ReadInfos, NoReader
  <2>4. 1 \in 1..Len(commits[found].barrels)
    BY <2>2, SequenceShape
  <2>5. LoadInv'
    BY <1>1, <1>4, <2>1, <2>2, <2>3, <2>4 DEF ReadInfos, LoadInv, Loading, BarrelCount
  <2> QED
    BY <1>2, <1>4, <2>5 DEF ReadInfos, ReadInv
<1>5. CASE LoadFilter \/ ReloadFilter
  <2>1. /\ place = "filters" /\ place' \in {"filters", "entries", "keys"} /\ found' = found
        /\ \E then : GoOn(at = BarrelCount, then)
        /\ \E gone : next' = [next EXCEPT !.filters = Append(@, gone)]
    BY <1>5 DEF LoadFilter, ReloadFilter, GoOn
  <2>2. next'.infos = next.infos /\ next' = [infos |-> next'.infos, filters |-> next'.filters, entries |-> next'.entries, truth |-> next'.truth]
    BY <2>1 DEF ReadInv, LoadInv, Loading
  <2>3. at' \in 1..BarrelCount'
    BY <2>1, <2>2, GoOnStays
  <2>4. LoadInv'
    BY <1>1, <2>1, <2>2, <2>3 DEF ReadInv, LoadInv, Loading
  <2> QED
    BY <1>2, <2>1, <2>4 DEF ReadInv
<1>6. CASE ReopenKeys
  <2>1. place = "keys" /\ found' = found /\ (place' = "failed" \/ (place' = "entries" /\ UNCHANGED <<next, at>>))
    BY <1>6 DEF ReopenKeys, Fail
  <2>2. LoadInv'
    BY <1>1, <2>1 DEF ReadInv, LoadInv, Loading, BarrelCount
  <2> QED
    BY <1>2, <2>1, <2>2 DEF ReadInv
<1>7. CASE OpenEntry \/ ReuseEntry
  <2>1. /\ place = "entries" /\ found' = found
        /\ \/ place' \in {"failed", "undefined"}
           \/ /\ place' \in {"entries", "opened"}
              /\ GoOn(at = BarrelCount, "opened")
              /\ next' = next \/ \E e : next' = [next EXCEPT !.entries = Append(@, e)]
    BY <1>7 DEF OpenEntry, ReuseEntry, GoOn, Fail
  <2>2. CASE place' \in {"failed", "undefined"}
    <3>1. LoadInv'
      BY <2>1, <2>2 DEF LoadInv, Loading
    <3> QED
      BY <1>2, <2>1, <3>1 DEF ReadInv
  <2>3. CASE place' \in {"entries", "opened"}
    <3>1. next'.infos = next.infos /\ next' = [infos |-> next'.infos, filters |-> next'.filters, entries |-> next'.entries, truth |-> next'.truth]
      BY <2>1, <2>3 DEF ReadInv, LoadInv, Loading
    <3>2. at' \in 1..BarrelCount'
      BY <2>1, <2>3, <3>1, GoOnStays
    <3>3. LoadInv'
      BY <1>1, <2>1, <2>3, <3>1, <3>2 DEF ReadInv, LoadInv, Loading
    <3> QED
      BY <1>2, <2>1, <3>3 DEF ReadInv
  <2> QED
    BY <2>1, <2>2, <2>3
<1>8. CASE ReadInfosFails \/ Opened \/ Retry \/ CloseReader
  <2>1. found' = found /\ place' \in {"idle", "failed"}
    BY <1>8 DEF ReadInfosFails, Opened, Retry, CloseReader, Fail
  <2>2. LoadInv'
    BY <2>1 DEF LoadInv, Loading
  <2> QED
    BY <1>2, <2>1, <2>2 DEF ReadInv
<1> QED
  BY <1>3, <1>4, <1>5, <1>6, <1>7, <1>8 DEF Read

LEMMA ReadInvHolds == Spec => [](DiskInv /\ ReadInv)
<1>1. Init => ReadInv
  BY IdsAreNumbers DEF Init, StoreInit, ReadInit, NoFile, ReadInv, NoneEmpty, FoundInv, LoadInv, Loading
<1>2. DiskInv /\ ReadInv /\ [Next]_vars => ReadInv'
  <2> SUFFICES ASSUME DiskInv, ReadInv, [Next]_vars PROVE ReadInv'
    OBVIOUS
  <2>1. CASE UNCHANGED readVars
    BY <2>1, WriterStep, CommitFileSteps, QuietKeepsReading, CreateKeepsReading, WriteKeepsReading,
       DropKeepsReading
  <2>2. CASE Read /\ UNCHANGED storeVars
    BY <2>2, ReadKeepsReading
  <2> QED
    BY <2>1, <2>2 DEF Next, vars
<1> QED
  BY <1>1, <1>2, StoreGoesOn, DiskInvHolds, PTL DEF Spec

\* An exception out of open or refresh means that the newest commit file was torn, or
\* that the reader was overtaken by KeepCount commits, or that a barrel with deletions
\* only was asked for its keys: what is listed is never missing.
THEOREM FailuresAreOvertaken == Spec => FailsOnlyIfOvertaken
<1> DEFINE Overtaken ==
             \/ commits[found].state = "torn"
             \/ commits[found].state = "absent" /\ KeepCount > 0
                /\ Cardinality({c \in Listed : c > found}) >= KeepCount
             \/ place = "keys" /\ \E b \in KeyBarrels : OnlyDeletions(b)
<1>1. ASSUME DiskInv, ReadInv, [Next]_vars, place # "failed", place' = "failed" PROVE Overtaken
  <2>1. Read /\ place' # place
    BY <1>1 DEF Next, vars, readVars
  <2>2. found \in Ids /\ place \in {"infos"} \cup Loading
    BY <1>1, <2>1 DEF Read, List, ReadInfos, ReadInfosFails, LoadFilter, ReloadFilter, GoOn, ReopenKeys,
       OpenEntry, ReuseEntry, Opened, Retry, CloseReader, Loading, ReadInv, LoadInv
  <2>3. commits[found].state \in {"absent", "torn", "whole"}
    BY <1>1, <2>2 DEF DiskInv, DiskShape, IsFile
  <2>4. commits[found].state = "absent" => Overtaken
    BY <1>1, <2>2 DEF ReadInv, FoundInv, Newer
  <2>5. ASSUME commits[found].state = "whole" PROVE Overtaken
    <3>1. place \in Loading => \A b \in Range(next.infos.barrels) : dirs[b.id].state = "whole"
      BY <1>1, <2>2, <2>5 DEF ReadInv, LoadInv, DiskInv, CommitsIntact, Intact
    <3>2. place \in Loading => DOMAIN next.infos.barrels = 1..BarrelCount /\ BarrelCount \in Nat /\ BarrelCount # 0
      BY <1>1, SequenceShape DEF ReadInv, LoadInv, BarrelCount
    <3>3. CASE ReopenKeys
      <4>1. place \in Loading
        BY <3>3 DEF ReopenKeys, Loading
      <4>2. PICK b \in KeyBarrels : ~HasKeys(b)
        BY <1>1, <3>3 DEF ReopenKeys
      <4>3. KeyBarrels \subseteq Range(next.infos.barrels)
        <5>1. 1 \in DOMAIN next.infos.barrels
          BY <3>2, <4>1
        <5> QED
          BY <5>1 DEF KeyBarrels, Range
      <4> QED
        BY <3>1, <3>3, <4>1, <4>2, <4>3 DEF HasKeys, ReopenKeys
    <3>4. CASE OpenEntry
      <4>1. place = "entries" /\ dirs[Here.id].state # "whole"
        BY <1>1, <3>4 DEF OpenEntry, GoOn
      <4>2. Here \in Range(next.infos.barrels)
        BY <1>1, <3>2, <4>1 DEF ReadInv, LoadInv, Loading, Here, Range
      <4> QED
        BY <3>1, <4>1, <4>2 DEF Loading
    <3>5. ~ Opened
      BY <1>1, <3>1 DEF Opened, Loading
    <3>6. ~ ReadInfosFails
      BY <2>5 DEF ReadInfosFails
    <3> QED
      BY <1>1, <2>1, <3>3, <3>4, <3>5, <3>6 DEF Read, List, ReadInfos, LoadFilter, ReloadFilter, GoOn,
         ReuseEntry, Retry, CloseReader
  <2> QED
    BY <2>3, <2>4, <2>5
<1>2. DiskInv /\ ReadInv /\ [Next]_vars => [place # "failed" /\ place' = "failed" => Overtaken]_vars
  BY <1>1
<1> QED
  BY <1>2, ReadInvHolds, PTL DEF Spec, FailsOnlyIfOvertaken

-----------------------------------------------------------------------------
(* An index that has grown                                                 *)

LEMMA SumsAreThere ==
  ASSUME NEW n \in Nat, NEW size, \A i \in 1..n : size[i] \in Nat
  PROVE  \E f \in [0..n -> Nat] : f[0] = 0 /\ \A i \in 1..n : f[i] = f[i - 1] + size[i]
<1> DEFINE S == Nat
           first == 0
           step == [i \in 1..n |-> [x \in Nat |-> x + size[i]]]
<1>1. first \in S /\ step \in [1..n -> [S -> S]]
  OBVIOUS
<1>2. \E f \in [0..n -> S] : f[0] = first /\ \A i \in 1..n : f[i] = step[i][f[i - 1]]
  <2> HIDE DEF S, first, step
  <2> QED
    BY <1>1, Recursion
<1>3. PICK f \in [0..n -> Nat] : f[0] = 0 /\ \A i \in 1..n : f[i] = step[i][f[i - 1]]
  BY <1>2
<1>4. ASSUME NEW i \in 1..n PROVE f[i] = f[i - 1] + size[i]
  <2>1. f[i - 1] \in Nat
    OBVIOUS
  <2> QED
    BY <1>3, <2>1
<1> QED
  BY <1>3, <1>4

LEMMA GrownBarrels ==
  ASSUME NEW n \in Nat \ {0}, NEW sizes \in [1..n -> Nat], NEW deleted \in Nat
  PROVE  LET barrels == Grown(sizes, deleted)
         IN /\ IsSequence(barrels) /\ Len(barrels) = n
            /\ barrels[1].base = 0
            /\ \A i \in 1..n : /\ barrels[i] = [id |-> i - 1, base |-> barrels[i].base, count |-> sizes[i],
                                                deleted |-> barrels[i].deleted]
                               /\ barrels[i].base \in Nat /\ barrels[i].deleted \in Nat
            /\ \A i, k \in 1..n : i < k => barrels[i].base + sizes[i] <= barrels[k].base
            /\ \A i \in 1..(n - 1) : barrels[i + 1].base = barrels[i].base + sizes[i]
<1> DEFINE IsBase(f) == f = [i \in 1..n |-> IF i = 1 THEN 0 ELSE f[i - 1] + sizes[i - 1]]
<1>1. /\ n \in Nat /\ n - 1 \in Nat /\ 1 \in 1..n /\ n \in 1..n
      /\ sizes = [i \in 1..n |-> sizes[i]] /\ \A i \in 1..n : sizes[i] \in Nat
  OBVIOUS
<1>2. Len(sizes) = n /\ DOMAIN sizes = 1..n
  BY <1>1, FunctionSequence
<1>3. PICK f \in [0..(n - 1) -> Nat] : f[0] = 0 /\ \A i \in 1..(n - 1) : f[i] = f[i - 1] + sizes[i]
  <2> DEFINE m == n - 1
  <2>1. m \in Nat /\ \A i \in 1..m : sizes[i] \in Nat
    BY <1>1
  <2> HIDE DEF m
  <2>2. \E f \in [0..m -> Nat] : f[0] = 0 /\ \A i \in 1..m : f[i] = f[i - 1] + sizes[i]
    BY ZenonT(60), <2>1, SumsAreThere
  <2> QED
    BY <2>2 DEF m
<1> DEFINE g == [i \in 1..n |-> f[i - 1]]
<1>4. IsBase(g)
  <2>1. ASSUME NEW i \in 1..n, i # 1
        PROVE  g[i] = g[i - 1] + sizes[i - 1]
    <3>1. i - 1 \in 1..(n - 1) /\ i - 1 \in 1..n /\ i - 1 \in 0..(n - 1) /\ (i - 1) - 1 \in 0..(n - 1)
      BY <1>1, <2>1
    <3>2. f[i - 1] = f[(i - 1) - 1] + sizes[i - 1]
      BY <1>3, <3>1
    <3>3. g[i] = f[i - 1] /\ g[i - 1] = f[(i - 1) - 1]
      BY <3>1
    <3> QED
      BY <3>2, <3>3
  <2>2. g = [i \in 1..n |-> g[i]] /\ g[1] = 0
    BY <1>1, <1>3
  <2> HIDE DEF g
  <2>3. g = [i \in 1..n |-> IF i = 1 THEN 0 ELSE g[i - 1] + sizes[i - 1]]
    BY <2>1, <2>2
  <2> QED
    BY <2>3
<1> DEFINE base == CHOOSE h : IsBase(h)
           Made(i) == [id |-> i - 1, base |-> base[i], count |-> sizes[i],
                        deleted |-> IF deleted < sizes[i] THEN deleted ELSE 0]
           barrels == Grown(sizes, deleted)
<1>5. IsBase(base)
  <2> HIDE DEF IsBase
  <2> QED
    BY <1>4
<1>6. barrels = [i \in 1..n |-> Made(i)]
  BY <1>2 DEF Grown
<1> HIDE DEF barrels
<1>7. ASSUME NEW i \in 1..n PROVE base[i] = IF i = 1 THEN 0 ELSE base[i - 1] + sizes[i - 1]
  <2> HIDE DEF base
  <2>1. base = [k \in 1..n |-> IF k = 1 THEN 0 ELSE base[k - 1] + sizes[k - 1]]
    BY <1>5
  <2> QED
    BY <2>1, Zenon
<1> HIDE DEF base
<1>8. ASSUME NEW i \in 1..n PROVE base[i] \in Nat
  <2> DEFINE m == n - 1
             T == {k \in 0..m : base[k + 1] \in Nat}
  <2>1. 0 \in T
    BY <1>1, <1>7
  <2>2. ASSUME NEW k \in 1..m, k - 1 \in T PROVE k \in T
    <3>1. k \in 1..n /\ k + 1 \in 1..n /\ k + 1 # 1 /\ k \in 0..m
      BY <1>1
    <3>2. base[k] \in Nat
      <4>1. (k - 1) + 1 = k
        BY <3>1
      <4> QED
        BY <2>2, <4>1
    <3>3. base[k + 1] = base[k] + sizes[k]
      <4>1. (k + 1) - 1 = k
        BY <3>1
      <4> QED
        BY <1>7, <3>1, <4>1
    <3>4. base[k + 1] \in Nat
      BY <1>1, <3>1, <3>2, <3>3
    <3> QED
      BY <3>1, <3>4
  <2>3. m \in Nat
    BY <1>1
  <2> HIDE DEF m
  <2> HIDE DEF T
  <2>4. 0..m \subseteq T
    BY <2>1, <2>2, <2>3, InductionUpto
  <2>5. i - 1 \in T
    BY <1>1, <2>4 DEF m
  <2>6. base[(i - 1) + 1] \in Nat /\ (i - 1) + 1 = i
    BY <2>5 DEF T
  <2> QED
    BY <2>6
<1>9. ASSUME NEW i \in 1..(n - 1) PROVE base[i + 1] = base[i] + sizes[i] /\ i \in 1..n /\ i + 1 \in 1..n
  <2>1. i + 1 \in 1..n /\ i + 1 # 1 /\ (i + 1) - 1 = i /\ i \in 1..n
    BY <1>1
  <2> QED
    BY <1>7, <2>1
<1>10. ASSUME NEW i \in 1..n, NEW k \in 1..n, i < k PROVE base[i] + sizes[i] <= base[k]
  <2> DEFINE m == n - 1
             T == {j \in 0..m : i <= j => base[i] + sizes[i] <= base[j + 1]}
  <2>1. 0 \in T
    BY <1>1
  <2>2. ASSUME NEW j \in 1..m, j - 1 \in T PROVE j \in T
    <3>1. j \in 1..n /\ j + 1 \in 1..n /\ j \in 0..m /\ (j - 1) + 1 = j /\ base[j + 1] = base[j] + sizes[j]
      <4>1. j \in 1..n /\ j + 1 \in 1..n /\ j \in 0..m /\ (j - 1) + 1 = j /\ j \in 1..(n - 1)
        BY <1>1
      <4> QED
        BY <1>9, <4>1
    <3>2. base[i] \in Nat /\ sizes[i] \in Nat /\ base[j] \in Nat /\ sizes[j] \in Nat
      BY <1>1, <1>8, <3>1
    <3>3. i <= j - 1 => base[i] + sizes[i] <= base[j]
      BY <2>2, <3>1
    <3>4. i <= j => base[i] + sizes[i] <= base[j + 1]
      <4>1. CASE i = j
        BY <3>1, <3>2, <4>1
      <4>2. CASE i <= j - 1
        <5>1. base[i] + sizes[i] <= base[j] /\ base[j + 1] = base[j] + sizes[j]
          BY <3>1, <3>3, <4>2
        <5> DEFINE x == base[i]
                   y == base[j]
        <5>2. x + sizes[i] <= y /\ base[j + 1] = y + sizes[j] /\ x \in Nat /\ y \in Nat
          BY <3>2, <5>1
        <5> HIDE DEF x, y
        <5>3. x + sizes[i] <= base[j + 1]
          BY SMTT(60), <3>2, <5>2
        <5> QED
          BY <5>3 DEF x
      <4> QED
        BY <3>1, <4>1, <4>2
    <3> QED
      BY <3>1, <3>4
  <2>3. m \in Nat
    BY <1>1
  <2> HIDE DEF m
  <2> HIDE DEF T
  <2>4. 0..m \subseteq T
    BY <2>1, <2>2, <2>3, InductionUpto
  <2>5. k - 1 \in T
    BY <1>1, <2>4 DEF m
  <2>6. (k - 1) + 1 = k /\ i <= k - 1
    BY <1>10
  <2> QED
    BY <2>5, <2>6 DEF T
<1>11. IsSequence(barrels) /\ Len(barrels) = n
  <2>1. barrels = [i \in 1..n |-> barrels[i]]
    BY <1>6
  <2> QED
    BY <1>1, <2>1, FunctionSequence
<1>12. \A i \in 1..n : barrels[i] = Made(i)
  BY <1>6
<1>13. \A i \in 1..n : /\ barrels[i].base = base[i] /\ barrels[i].deleted \in Nat
                       /\ barrels[i] = [id |-> i - 1, base |-> barrels[i].base, count |-> sizes[i],
                                        deleted |-> barrels[i].deleted]
  <2> TAKE i \in 1..n
  <2>1. barrels[i] = [id |-> i - 1, base |-> base[i], count |-> sizes[i],
                      deleted |-> IF deleted < sizes[i] THEN deleted ELSE 0]
    BY <1>12
  <2> DEFINE gone == IF deleted < sizes[i] THEN deleted ELSE 0
  <2>2. gone \in Nat
    OBVIOUS
  <2>3. barrels[i] = [id |-> i - 1, base |-> base[i], count |-> sizes[i], deleted |-> gone]
    BY <2>1
  <2> HIDE DEF gone
  <2> QED
    BY <2>2, <2>3
<1>14. barrels[1].base = 0
  BY <1>1, <1>7, <1>13
<1>15. \A i \in 1..n : barrels[i].base \in Nat
  BY <1>8, <1>13
<1>16. \A i, k \in 1..n : i < k => barrels[i].base + sizes[i] <= barrels[k].base
  BY <1>10, <1>13
<1>17. \A i \in 1..(n - 1) : barrels[i + 1].base = barrels[i].base + sizes[i]
  BY <1>9, <1>13
<1> QED
  BY <1>11, <1>13, <1>14, <1>15, <1>16, <1>17 DEF barrels

\* What the index is at first
GrownIndex(n, barrels, gone) ==
    /\ n \in Nat \ {0} /\ n - 1 \in Ids
    /\ Ordered(barrels) /\ Len(barrels) = n
    /\ barrels[1].base = 0
    /\ \A i \in 1..n : barrels[i].id = i - 1
    /\ \A i \in 1..(n - 1) : barrels[i + 1].base = barrels[i].base + barrels[i].count
    /\ gone \subseteq 1..(n - 1) /\ \A i \in gone : barrels[i].count > 0
    /\ OnDisk(barrels, gone)
    /\ handedIn = barrels[n].base + barrels[n].count
    /\ asked = {barrels[i].base + 1 : i \in gone}

LEMMA MergingInitIs ==
  ASSUME MergingInit
  PROVE  NotRunning /\ \E n, barrels, gone : GrownIndex(n, barrels, gone)
<1>1. PICK n \in 1..MaxBarrels : \E sizes \in [1..n -> Sizes] : \E gone \in Deletions(sizes) :
         \E deleted \in {0, 2} :
            /\ OnDisk(Grown(sizes, deleted), gone)
            /\ handedIn = Grown(sizes, deleted)[n].base + Grown(sizes, deleted)[n].count
            /\ asked = {Grown(sizes, deleted)[i].base + 1 : i \in gone}
  BY DEF MergingInit
<1>2. PICK sizes \in [1..n -> Sizes] : \E gone \in Deletions(sizes) : \E deleted \in {0, 2} :
            /\ OnDisk(Grown(sizes, deleted), gone)
            /\ handedIn = Grown(sizes, deleted)[n].base + Grown(sizes, deleted)[n].count
            /\ asked = {Grown(sizes, deleted)[i].base + 1 : i \in gone}
  BY <1>1
<1>3. PICK gone \in Deletions(sizes), deleted \in {0, 2} :
            /\ OnDisk(Grown(sizes, deleted), gone)
            /\ handedIn = Grown(sizes, deleted)[n].base + Grown(sizes, deleted)[n].count
            /\ asked = {Grown(sizes, deleted)[i].base + 1 : i \in gone}
  BY <1>2
<1> DEFINE barrels == Grown(sizes, deleted)
<1>4. /\ OnDisk(barrels, gone)
      /\ handedIn = barrels[n].base + barrels[n].count
      /\ asked = {barrels[i].base + 1 : i \in gone}
  BY <1>3
<1>5. /\ n \in Nat \ {0} /\ n - 1 \in Ids /\ \A i \in 1..n : i - 1 \in Ids
      /\ sizes \in [1..n -> Nat] /\ deleted \in Nat
  <2>1. MaxCommit \in Nat /\ MaxBarrels \in 1..(MaxCommit + 1) /\ Sizes \subseteq Nat
    BY IdsAreNumbers, GrownAssumption
  <2>2. n \in 1..(MaxCommit + 1)
    BY <2>1
  <2>3. n \in Nat \ {0} /\ n - 1 \in Ids /\ \A i \in 1..n : i - 1 \in Ids
    BY <2>1, <2>2 DEF Ids
  <2>4. sizes \in [1..n -> Nat]
    BY <2>1
  <2> QED
    BY <2>3, <2>4
<1>6. /\ IsSequence(barrels) /\ Len(barrels) = n
      /\ barrels[1].base = 0
      /\ \A i \in 1..n : /\ barrels[i] = [id |-> i - 1, base |-> barrels[i].base, count |-> sizes[i],
                                          deleted |-> barrels[i].deleted]
                         /\ barrels[i].base \in Nat /\ barrels[i].deleted \in Nat
      /\ \A i, k \in 1..n : i < k => barrels[i].base + sizes[i] <= barrels[k].base
      /\ \A i \in 1..(n - 1) : barrels[i + 1].base = barrels[i].base + sizes[i]
  BY <1>5, GrownBarrels
<1> HIDE DEF barrels
<1>7. \A i \in 1..n : /\ barrels[i].id = i - 1 /\ barrels[i].count = sizes[i] /\ sizes[i] \in Nat
                      /\ barrels[i] = [id |-> barrels[i].id, base |-> barrels[i].base,
                                       count |-> barrels[i].count, deleted |-> barrels[i].deleted]
  <2> TAKE i \in 1..n
  <2>1. sizes[i] \in Nat
    BY <1>5
  <2>2. barrels[i] = [id |-> i - 1, base |-> barrels[i].base, count |-> sizes[i],
                      deleted |-> barrels[i].deleted]
    BY <1>6
  <2>3. barrels[i].id = i - 1 /\ barrels[i].count = sizes[i]
    BY <2>2
  <2> QED
    BY <2>1, <2>2, <2>3
<1>8. Ordered(barrels)
  <2>1. \A i \in 1..n : i - 1 \in Ids
    BY <1>5
  <2>2. \A i, k \in 1..n : i < k => barrels[i].id < barrels[k].id
    <3>1. \A i, k \in 1..n : i < k => i - 1 < k - 1
      OBVIOUS
    <3> QED
      BY <1>7, <3>1
  <2> QED
    BY <1>6, <1>7, <2>1, <2>2 DEF Ordered
<1>9. \A i \in 1..(n - 1) : barrels[i + 1].base = barrels[i].base + barrels[i].count
  <2> TAKE i \in 1..(n - 1)
  <2>1. i \in 1..n
    BY <1>5
  <2> QED
    BY <1>6, <1>7, <2>1
<1>10. gone \subseteq 1..(n - 1) /\ \A i \in gone : barrels[i].count > 0
  <2>1. gone \subseteq {i \in 1..(Len(sizes) - 1) : sizes[i] > 0}
    BY DEF Deletions
  <2>2. Len(sizes) = n
    BY <1>5, FunctionSequence
  <2>3. \A i \in gone : i \in 1..(n - 1) /\ sizes[i] > 0 /\ i \in 1..n
    BY <1>5, <2>1, <2>2
  <2> QED
    BY <1>7, <2>3
<1>11. GrownIndex(n, barrels, gone)
  BY <1>4, <1>5, <1>6, <1>7, <1>8, <1>9, <1>10 DEF GrownIndex
<1>12. NotRunning
  BY DEF MergingInit
<1> QED
  BY <1>11, <1>12

LEMMA GrownFiles ==
  ASSUME NEW n, NEW barrels, NEW gone, GrownIndex(n, barrels, gone)
  PROVE  /\ commits = [c \in Ids |-> commits[c]] /\ dirs = [c \in Ids |-> dirs[c]]
         /\ \A c \in Ids : c \in {n - 2, n - 1} =>
               /\ commits[c] = [state |-> "whole", barrels |-> commits[c].barrels]
               /\ IsSequence(commits[c].barrels) /\ Len(commits[c].barrels) = c + 1
               /\ \A i \in 1..(c + 1) : commits[c].barrels[i] = barrels[i]
               /\ \A b \in Range(commits[c].barrels) : \E i \in 1..(c + 1) : i \in 1..n /\ b = barrels[i]
         /\ \A c \in Ids : c \notin {n - 2, n - 1} => commits[c] = NoFile
         /\ \A i \in 1..n :
               /\ i - 1 \in Ids
               /\ dirs[i - 1] = [state |-> "whole", docs |-> DocsOf(barrels[i]), deletions |-> dirs[i - 1].deletions]
               /\ IsSequence(dirs[i - 1].docs) /\ Len(dirs[i - 1].docs) = barrels[i].count
               /\ \A k \in 1..barrels[i].count : dirs[i - 1].docs[k] = barrels[i].base + k
         /\ \A c \in Ids : c >= n => dirs[c] = NoDir
<1>1. /\ n \in Nat \ {0} /\ n - 1 \in Ids /\ Len(barrels) = n /\ IsSequence(barrels)
      /\ OnDisk(barrels, gone)
      /\ \A i \in 1..n : barrels[i].count \in Nat /\ barrels[i].base \in Nat
  BY DEF GrownIndex, Ordered
<1>2. /\ commits = [c \in Ids |->
            IF c \in {n - 2, n - 1}
            THEN [state |-> "whole", barrels |-> SubSeq(barrels, 1, c + 1)] ELSE NoFile]
      /\ dirs = [c \in Ids |->
            IF c < n
            THEN [state     |-> "whole",
                  docs      |-> DocsOf(barrels[c + 1]),
                  deletions |-> IF c = n - 1 THEN [b \in {i - 1 : i \in gone} |-> {0}]
                                ELSE <<>>] ELSE NoDir]
  BY <1>1 DEF OnDisk
<1>3. \A c \in Ids : c \in Nat
  BY IdIsNumber
<1>4. ASSUME NEW c \in Ids, c \in {n - 2, n - 1}
      PROVE  /\ commits[c] = [state |-> "whole", barrels |-> commits[c].barrels]
             /\ IsSequence(commits[c].barrels) /\ Len(commits[c].barrels) = c + 1
             /\ \A i \in 1..(c + 1) : commits[c].barrels[i] = barrels[i]
             /\ \A b \in Range(commits[c].barrels) : \E i \in 1..(c + 1) : i \in 1..n /\ b = barrels[i]
  <2> DEFINE s == SubSeq(barrels, 1, c + 1)
  <2>1. commits[c] = [state |-> "whole", barrels |-> s]
    BY <1>2, <1>4
  <2>2. c + 1 \in 1..n /\ 1 \in 1..n
    BY <1>1, <1>3, <1>4
  <2>3. s = [i \in 1..(c + 1) |-> barrels[i]]
    <3>1. barrels \in Seq(Range(barrels))
      BY <1>1 DEF IsSequence
    <3> QED
      BY <1>1, <2>2, <3>1
  <2> HIDE DEF s
  <2>4. IsSequence(s) /\ Len(s) = c + 1
    <3>1. s = [i \in 1..(c + 1) |-> s[i]] /\ c + 1 \in Nat
      BY <2>2, <2>3
    <3> QED
      BY <3>1, FunctionSequence
  <2>5. \A i \in 1..(c + 1) : s[i] = barrels[i] /\ i \in 1..n
    <3>1. \A i \in 1..(c + 1) : i \in 1..n
      BY <1>1, <2>2
    <3> QED
      BY <2>3, <3>1
  <2>6. Range(s) = {s[i] : i \in 1..(c + 1)}
    BY <2>4, SequenceShape
  <2> QED
    BY <2>1, <2>4, <2>5, <2>6
<1>5. ASSUME NEW i \in 1..n
      PROVE  /\ i - 1 \in Ids
             /\ dirs[i - 1] = [state |-> "whole", docs |-> DocsOf(barrels[i]), deletions |-> dirs[i - 1].deletions]
             /\ IsSequence(dirs[i - 1].docs) /\ Len(dirs[i - 1].docs) = barrels[i].count
             /\ \A k \in 1..barrels[i].count : dirs[i - 1].docs[k] = barrels[i].base + k
  <2>1. i - 1 \in Ids /\ i - 1 < n /\ (i - 1) + 1 = i
    BY <1>1, IdsAreNumbers DEF Ids
  <2>2. dirs[i - 1] = [state |-> "whole", docs |-> DocsOf(barrels[i]), deletions |-> dirs[i - 1].deletions]
    BY <1>2, <2>1
  <2> DEFINE s == DocsOf(barrels[i])
  <2>3. s = [k \in 1..barrels[i].count |-> barrels[i].base + k]
    BY DEF DocsOf
  <2> HIDE DEF s
  <2>4. IsSequence(s) /\ Len(s) = barrels[i].count
    <3>1. s = [k \in 1..barrels[i].count |-> s[k]]
      BY <2>3
    <3> QED
      BY <1>1, <3>1, FunctionSequence
  <2>5. dirs[i - 1].docs = s
    BY <2>2 DEF s
  <2> QED
    BY <2>1, <2>2, <2>3, <2>4, <2>5
<1>6. \A c \in Ids : c >= n => dirs[c] = NoDir
  BY <1>1, <1>2, <1>3
<1>7. \A c \in Ids : c \notin {n - 2, n - 1} => commits[c] = NoFile
  BY <1>2
<1>8. commits = [c \in Ids |-> commits[c]] /\ dirs = [c \in Ids |-> dirs[c]]
  BY <1>2
<1> QED
  BY <1>4, <1>5, <1>6, <1>7, <1>8

LEMMA MergingInitLists == MergingInit => DiskInv /\ DocsShape /\ ListInv
<1> SUFFICES ASSUME MergingInit PROVE DiskInv /\ DocsShape /\ ListInv
  OBVIOUS
<1>1. PICK n, barrels, gone : GrownIndex(n, barrels, gone)
  BY MergingInitIs
<1>2. NotRunning
  BY MergingInitIs
<1>3. /\ n \in Nat \ {0} /\ n - 1 \in Ids /\ Ordered(barrels) /\ Len(barrels) = n
      /\ \A i \in 1..n : barrels[i].id = i - 1
  BY <1>1 DEF GrownIndex
<1>4. /\ commits = [c \in Ids |-> commits[c]] /\ dirs = [c \in Ids |-> dirs[c]]
      /\ \A c \in Ids : c \in {n - 2, n - 1} =>
               /\ commits[c] = [state |-> "whole", barrels |-> commits[c].barrels]
               /\ IsSequence(commits[c].barrels) /\ Len(commits[c].barrels) = c + 1
               /\ \A i \in 1..(c + 1) : commits[c].barrels[i] = barrels[i]
               /\ \A b \in Range(commits[c].barrels) : \E i \in 1..(c + 1) : i \in 1..n /\ b = barrels[i]
      /\ \A c \in Ids : c \notin {n - 2, n - 1} => commits[c] = NoFile
      /\ \A i \in 1..n :
               /\ i - 1 \in Ids
               /\ dirs[i - 1] = [state |-> "whole", docs |-> DocsOf(barrels[i]), deletions |-> dirs[i - 1].deletions]
               /\ IsSequence(dirs[i - 1].docs) /\ Len(dirs[i - 1].docs) = barrels[i].count
               /\ \A k \in 1..barrels[i].count : dirs[i - 1].docs[k] = barrels[i].base + k
      /\ \A c \in Ids : c >= n => dirs[c] = NoDir
  BY <1>1, GrownFiles
<1>5. \A c \in Ids : IsFile(commits[c]) /\ commits[c].state # "torn"
  BY <1>4, EmptySequence DEF IsFile, NoFile
<1>6. ASSUME NEW c \in Ids PROVE IsDir(dirs[c]) /\ IsSequence(dirs[c].docs)
  <2>1. CASE c >= n
    <3>1. dirs[c] = NoDir
      BY <1>4, <2>1
    <3>2. IsSequence(<<>>) /\ DOMAIN <<>> = {}
      BY EmptySequence, SequenceShape
    <3> QED
      BY <3>1, <3>2 DEF NoDir, IsDir
  <2>2. CASE ~(c >= n)
    <3>1. c + 1 \in 1..n /\ (c + 1) - 1 = c
      BY <1>3, <2>2, IdIsNumber
    <3> DEFINE i == c + 1
    <3>2. /\ dirs[i - 1] = [state |-> "whole", docs |-> DocsOf(barrels[i]), deletions |-> dirs[i - 1].deletions]
          /\ IsSequence(dirs[i - 1].docs)
      BY <1>4, <3>1
    <3>3. /\ dirs[c] = [state |-> "whole", docs |-> DocsOf(barrels[i]), deletions |-> dirs[c].deletions]
          /\ IsSequence(dirs[c].docs)
      BY <3>1, <3>2
    <3> HIDE DEF i
    <3> QED
      BY <3>3 DEF IsDir
  <2> QED
    BY <2>1, <2>2
<1>7. DiskShape
  BY <1>4, <1>5, <1>6 DEF DiskShape
<1>8. MemoryShape /\ ThreadShape /\ Phases /\ pc = "idle"
  BY <1>2, NotRunningShapes
<1>9. ASSUME NEW c \in Ids, NEW b \in Range(commits[c].barrels)
      PROVE  b.id \in 0..c /\ Intact(b)
  <2>1. CASE c \in {n - 2, n - 1}
    <3>1. PICK i \in 1..(c + 1) : i \in 1..n /\ b = barrels[i]
      BY <1>4, <2>1
    <3>2. b.id = i - 1 /\ dirs[i - 1].state = "whole" /\ Len(dirs[i - 1].docs) = barrels[i].count
      <4>1. dirs[i - 1] = [state |-> "whole", docs |-> DocsOf(barrels[i]), deletions |-> dirs[i - 1].deletions]
        BY <1>4, <3>1
      <4>2. dirs[i - 1].state = "whole"
        BY <4>1
      <4> QED
        BY <1>3, <1>4, <3>1, <4>2
    <3>3. i - 1 \in 0..c
      BY <2>1, IdIsNumber
    <3> QED
      BY <3>1, <3>2, <3>3 DEF Intact
  <2>2. CASE c \notin {n - 2, n - 1}
    <3>1. commits[c].barrels = <<>>
      BY <1>4, <2>2 DEF NoFile
    <3> QED
      BY <3>1, EmptySequence
  <2> QED
    BY <2>1, <2>2
<1>10. CommitsIntact /\ TornIsNewest /\ WorkIntact /\ StaleUnused
  BY <1>5, <1>8, <1>9 DEF CommitsIntact, TornIsNewest, WorkIntact, StaleUnused, Writes
<1>11. ASSUME NEW c \in Ids PROVE IsIndex(InfosAt(c))
  <2>1. InfosAt(c) = [commit |-> c, barrels |-> commits[c].barrels]
    BY IdsAreNumbers DEF InfosAt
  <2>2. \A b \in Range(commits[c].barrels) : b.id <= c
    BY <1>9, IdIsNumber
  <2>3. IsSequence(commits[c].barrels)
    BY <1>5 DEF IsFile
  <2>4. Ordered(commits[c].barrels)
    <3>1. CASE c \in {n - 2, n - 1}
      <4> DEFINE s == commits[c].barrels
      <4>1. Len(s) = c + 1 /\ \A i \in 1..(c + 1) : s[i] = barrels[i]
        BY <1>4, <3>1
      <4>2. \A i \in 1..(c + 1) : i \in 1..n
        BY <1>3, <3>1, IdIsNumber
      <4>3. IsSequence(s)
        BY <2>3
      <4> HIDE DEF s
      <4>4. Ordered(s)
        BY <1>3, <4>1, <4>2, <4>3 DEF Ordered
      <4> QED
        BY <4>4 DEF s
    <3>2. CASE c \notin {n - 2, n - 1}
      <4>1. commits[c].barrels = <<>> /\ 1..Len(<<>>) = {}
        BY <1>4, <3>2, EmptySequence DEF NoFile
      <4> QED
        BY <2>3, <4>1 DEF Ordered
    <3> QED
      BY <3>1, <3>2
  <2> QED
    BY <2>1, <2>2, <2>3, <2>4 DEF IsIndex, IsList
<1> QED
  BY <1>2, <1>6, <1>7, <1>8, <1>10, <1>11, InitLists DEF DiskInv

LEMMA MergingStep == [MergingNext]_storeVars => [WriterNext]_storeVars
BY DEF MergingNext, WriterNext, StoreNext, AnyMerge, Policies

LEMMA ListsAreSound ==
  ASSUME DiskInv, ListInv
  PROVE  BarrelListSound
<1>1. ASSUME NEW c \in Ids, NEW i \in 2..Len(commits[c].barrels)
      PROVE  LET b == commits[c].barrels[i - 1]
                 d == commits[c].barrels[i]
             IN b.id < d.id /\ b.base + b.count <= d.base
  <2>1. InfosAt(c) = [commit |-> c, barrels |-> commits[c].barrels]
    BY IdsAreNumbers DEF InfosAt
  <2>2. Ordered(commits[c].barrels)
    BY <2>1 DEF ListInv, IsIndex
  <2>3. Len(commits[c].barrels) \in Nat
    BY <2>2, SequenceShape DEF Ordered
  <2>4. i \in 1..Len(commits[c].barrels) /\ i - 1 \in 1..Len(commits[c].barrels) /\ i - 1 < i
    BY <2>3
  <2> QED
    BY <2>2, <2>4 DEF Ordered
<1>2. ASSUME NEW i \in DOMAIN merging.proposals
      PROVE  /\ Range(merging.proposals[i].barrels) \subseteq Range(work.infos.barrels)
             /\ Len(merging.proposals[i].barrels) \in 1..MaxAllowedBarrels
             /\ \A k \in DOMAIN merging.proposals :
                   k # i => Range(merging.proposals[i].barrels) \cap Range(merging.proposals[k].barrels) = {}
  <2>1. SoundParts(merging.proposals, work.infos) /\ FewParts(merging.proposals)
    BY DEF ListInv
  <2>2. DOMAIN merging.proposals = 1..Len(merging.proposals)
    BY <2>1, SequenceShape DEF SoundParts
  <2> QED
    BY <2>1, <2>2 DEF SoundParts, FewParts
<1> QED
  BY <1>1, <1>2 DEF BarrelListSound

\* In every commit, those between two parts of a merge and those a crash leaves included,
\* the barrels' ids and ranges of document ids ascend without overlap; what is left of a
\* proposal is in the list at hand, each barrel in one part, and no part needs more files
\* than may be open: for any index that has grown, and whatever the policy proposes.
THEOREM BarrelListsAreSound == MergingSpec => []BarrelListSound
<1>1. MergingInit => DiskInv /\ DocsShape /\ ListInv
  BY MergingInitLists
<1>2. DiskInv /\ DocsShape /\ ListInv /\ [MergingNext]_storeVars => (DiskInv /\ DocsShape /\ ListInv)'
  BY MergingStep, StepKeepsDiskInv, StepKeepsLists
<1>3. DiskInv /\ DocsShape /\ ListInv => BarrelListSound
  BY ListsAreSound
<1> QED
  BY <1>1, <1>2, <1>3, PTL DEF MergingSpec

-----------------------------------------------------------------------------
(* Merging keeps the documents                                             *)

\* While an index is only merged nothing is added, deleted or sealed.
QuietInv ==
    /\ building = NoBuilding /\ pending = <<>> /\ Dirty(filter) = {}
    /\ pc \in Writes => merging # NotMerging

\* Some commit is whole, and so is the one a merge began with; each has its newest barrel.
WholeInv ==
    /\ \E c \in Ids : commits[c].state = "whole"
    /\ \A c \in Ids : commits[c].state = "whole" => c \in Referenced(c)
    /\ pc \in Writes => New - 1 \in Ids /\ commits[New - 1].state = "whole"

\* The deletion files are of commits, and of documents whose deletion was asked for.
AskedInv ==
    \A d, b \in Ids : HasFile(d, b) =>
        /\ \E c \in Listed : d <= c
        /\ \A i \in DOMAIN dirs[b].docs : i - 1 \in dirs[d].deletions[b] => dirs[b].docs[i] \in asked

\* the documents of which it was not
Left == (1..handedIn) \ asked

Holds(S) == \A x \in Left : \E b \in S : x \in Range(DocsIn(b.id))

IsNewest(c) == commits[c].state = "whole" /\ \A k \in Ids : commits[k].state = "whole" => k <= c

\* They are in the newest commit, and in the one that is being written.
LeftInv ==
    /\ \A c \in Ids : IsNewest(c) => Holds(Range(commits[c].barrels))
    /\ pc \in Writes => Holds(Range(work.infos.barrels))

\* What becomes the only barrel was found in the commit before it.
HiddenInv ==
    pc \in Writes /\ Len(work.infos.barrels) = 1 =>
        \A c \in Ids : c + 1 = New => Range(work.docs) \subseteq Visible(InfosAt(c))

KeptInv == QuietInv /\ WholeInv /\ AskedInv /\ LeftInv /\ HiddenInv

LEMMA QuietStep ==
  ASSUME SoundInv, QuietInv, [MergingNext]_storeVars
  PROVE  QuietInv' /\ UNCHANGED <<handedIn, asked>> /\ ~TakeBatch
<1>1. ~TakeBatch
  BY DEF TakeBatch, QuietInv
<1>2. "optimize" # "none" /\ "dbt" # "none" /\ NotMerging.policy = "none" /\ "none" \notin Policies
  BY DEF NotMerging, Policies
<1>3. CASE Open
  <2>1. PICK c \in Ids \cup {INVALID_COMMIT} : filter' = OpenFilter(InfosAt(c))
    BY <1>3 DEF Open
  <2>2. Ordered(InfosAt(c).barrels)
    BY NoList DEF SoundInv, ListInv, InfosAt, IsIndex
  <2>3. Dirty(filter') = {}
    BY <2>1, <2>2, OpenedFilter
  <2>4. Dirty(filter)' = Dirty(filter')
    BY DEF Dirty
  <2> QED
    BY <1>1, <1>3, <2>3, <2>4 DEF Open, QuietInv, thread, history
<1>4. CASE Close
  <2>1. UNCHANGED <<keeper, filter, bits, keyIndex, pending>>
    BY <1>4 DEF Close, QuietInv, SealDocuments, SealDeletions, NoBuilding
  <2> QED
    BY <1>1, <1>4, <2>1 DEF Close, QuietInv, thread, history, Dirty
<1>5. CASE MergeWith("optimize") \/ MergeWith("dbt")
  <2>1. pc' = "merge" /\ UNCHANGED <<building, filter, pending, handedIn, asked>>
    BY <1>5 DEF MergeWith, history
  <2> QED
    BY <1>1, <2>1 DEF QuietInv, Writes, Dirty
<1>6. CASE Crash \/ MergeAborts
  <2>1. building' = NoBuilding /\ pending' = <<>> /\ filter' = <<>> /\ pc' = "idle" /\ UNCHANGED <<handedIn, asked>>
    BY <1>6 DEF Crash, MergeAborts, Forgotten, history
  <2>2. Dirty(filter)' = {}
    BY <2>1 DEF Dirty
  <2> QED
    BY <1>1, <2>1, <2>2 DEF QuietInv, Writes
<1>7. CASE Cleaned
  <2>1. CASE Forgotten
    <3>1. building' = NoBuilding /\ pending' = <<>> /\ filter' = <<>> /\ pc' = "idle" /\ UNCHANGED <<handedIn, asked>>
      BY <1>7, <2>1 DEF Cleaned, Forgotten, history
    <3>2. Dirty(filter)' = {}
      BY <3>1 DEF Dirty
    <3> QED
      BY <1>1, <3>1, <3>2 DEF QuietInv, Writes
  <2>2. CASE UNCHANGED memory
    BY <1>1, <1>7, <2>2 DEF Cleaned, memory, QuietInv, Writes, Dirty, history
  <2> QED
    BY <1>7, <2>1, <2>2 DEF Cleaned
<1>8. CASE WriteData \/ WriteDeletions \/ WriteRest \/ CreateCommitFile
  <2>1. UNCHANGED <<building, filter, pending, merging, handedIn, asked>> /\ pc \in Writes
    BY <1>8 DEF WriteData, WriteDeletions, WriteRest, CreateCommitFile, memory, history, Writes
  <2> QED
    BY <1>1, <2>1 DEF QuietInv, Dirty
<1>9. CASE WriteCommitFile \/ DropCommit \/ Reserve \/ RemoveDir \/ Merge
  <2>1. UNCHANGED <<building, filter, pending, handedIn, asked>> /\ pc' \notin Writes
    BY <1>9 DEF WriteCommitFile, DropCommit, Reserve, RemoveDir, Merge, memory, history, Writes
  <2> QED
    BY <1>1, <2>1 DEF QuietInv, Dirty
<1>10. CASE MergeProposal
  <2>1. merging' = [merging EXCEPT !.proposals = Tail(@)] /\ UNCHANGED <<building, filter, pending, handedIn, asked>>
        /\ pc = "proposal"
    BY <1>10 DEF MergeProposal, history
  <2>2. merging # NotMerging /\ merging = [policy |-> merging.policy, proposals |-> merging.proposals]
    BY <2>1 DEF SoundInv, DiskInv, Phases, MemoryShape
  <2>3. merging.policy \in Policies
    BY <2>2 DEF SoundInv, DiskInv, Phases
  <2>4. merging'.policy = merging.policy
    BY <2>1, <2>2
  <2>5. merging' # NotMerging
    BY <1>2, <2>3, <2>4
  <2> QED
    BY <1>1, <2>1, <2>5 DEF QuietInv, Dirty
<1>11. CASE UNCHANGED storeVars
  BY <1>1, <1>11 DEF storeVars, memory, thread, history, QuietInv, Dirty
<1> QED
  BY <1>1, <1>3, <1>4, <1>5, <1>6, <1>7, <1>8, <1>9, <1>10, <1>11 DEF MergingNext, CommitThread

\* The cleaner leaves a commit newer than the one it drops.
LEMMA DropLeaves ==
  ASSUME DiskInv, DropCommit
  PROVE  /\ \A c \in Listed : commits[c].state = "whole"
         /\ \E c, k \in Listed : /\ c < k /\ \A j \in Listed : c <= j
                                 /\ commits' = [commits EXCEPT ![c] = NoFile] /\ Listed' = Listed \ {c}
<1>1. PICK c \in Listed : (\A k \in Listed : c <= k) /\ commits' = [commits EXCEPT ![c] = NoFile]
  BY DEF DropCommit
<1>2. Listed' = Listed \ {c}
  BY <1>1 DEF Listed, NoFile, DiskInv, DiskShape
<1>3. Listed \subseteq Nat /\ KeepCount \in Nat /\ KeepCount > 0 /\ Cardinality(Listed) > KeepCount
  BY IdsAreNumbers, KeepAssumption DEF Listed, DropCommit, TooMany
<1>4. PICK k \in Listed : k # c
  <2> SUFFICES ASSUME Listed \subseteq {c} PROVE FALSE
    OBVIOUS
  <2>1. Listed = {c}
    BY <1>1
  <2>2. Cardinality(Listed) = 1
    BY <2>1, FS_Singleton
  <2> QED
    BY <1>3, <2>2
<1>5. c < k
  BY <1>1, <1>3, <1>4
<1>6. \A d \in Listed : commits[d].state = "whole"
  BY DEF DropCommit, DiskInv, TornIsNewest, Phases, Listed, DiskShape, IsFile
<1> QED
  BY <1>1, <1>2, <1>4, <1>5, <1>6

\* how the directories go on while only merges write
LEMMA DirGoesOn ==
  ASSUME SoundInv, QuietInv, [MergingNext]_storeVars, NEW x \in Ids
  PROVE  \/ dirs'[x] = dirs[x]
         \/ DOMAIN dirs'[x].deletions = {} /\ dirs'[x].docs = <<>>
         \/ /\ x = New /\ pc \in Writes \ {"write"}
            /\ DOMAIN dirs'[x].deletions = {} \/ dirs'[x].deletions = dirs[x].deletions
<1>0. dirs = [d \in Ids |-> dirs[d]] /\ NoDir.deletions = <<>> /\ NoDir.docs = <<>> /\ DOMAIN <<>> = {}
  BY DEF SoundInv, DiskInv, DiskShape, NoDir
<1>1. dirs[x] = [state |-> dirs[x].state, docs |-> dirs[x].docs, deletions |-> dirs[x].deletions]
  BY DEF SoundInv, DiskInv, DiskShape, IsDir
<1>2. ~TakeBatch /\ [WriterNext]_storeVars
  BY QuietStep, MergingStep
<1>3. CASE UNCHANGED dirs
  BY <1>3
<1>4. CASE WriteData \/ WriteRest
  <2>1. dirs' = [dirs EXCEPT ![New].docs = work.docs] \/ dirs' = [dirs EXCEPT ![New].state = "whole"]
    BY <1>4 DEF WriteData, WriteRest
  <2>2. pc \in Writes \ {"write"}
    BY <1>4 DEF WriteData, WriteRest, Writes
  <2>3. x # New => dirs'[x] = dirs[x]
    BY <1>0, <2>1
  <2>4. dirs'[x] \in {dirs[x], [dirs[x] EXCEPT !.docs = work.docs], [dirs[x] EXCEPT !.state = "whole"]}
    BY <1>0, <2>1
  <2>5. dirs'[x].deletions = dirs[x].deletions
    BY <1>1, <2>4
  <2> QED
    BY <2>2, <2>3, <2>5
<1>5. CASE WriteDeletions
  <2>1. dirs' = [dirs EXCEPT ![New].deletions = [b \in work.dirty |-> bits[b]]] \/ dirs' = dirs
    BY <1>5 DEF WriteDeletions
  <2>2. pc \in Writes \ {"write"} /\ work.dirty = {}
    BY <1>5 DEF WriteDeletions, Writes, QuietInv, SoundInv, DiskInv, Phases
  <2>3. x # New => dirs'[x] = dirs[x]
    BY <1>0, <2>1
  <2>4. dirs'[x] \in {dirs[x], [dirs[x] EXCEPT !.deletions = [b \in {} |-> bits[b]]]}
    BY <1>0, <2>1, <2>2
  <2>5. dirs'[x].deletions = dirs[x].deletions \/ DOMAIN dirs'[x].deletions = {}
    BY <1>1, <2>4
  <2> QED
    BY <2>2, <2>3, <2>5
<1>6. CASE MergeProposal
  <2>1. dirs' = [dirs EXCEPT ![New + 1] = [NoDir EXCEPT !.state = "filling"]]
    BY <1>6 DEF MergeProposal
  <2> QED
    BY <1>0, <2>1 DEF NoDir
<1>7. CASE RemoveDir
  <2>1. \E k : dirs' = [dirs EXCEPT ![k] = NoDir]
    BY <1>7 DEF RemoveDir
  <2> QED
    BY <1>0, <2>1
<1> QED
  BY <1>2, <1>3, <1>4, <1>5, <1>6, <1>7, DirSteps

LEMMA CommitsChange ==
  ASSUME [WriterNext]_storeVars
  PROVE  UNCHANGED commits \/ CreateCommitFile \/ WriteCommitFile \/ DropCommit
<1>1. CASE AnyMerge
  BY <1>1 DEF AnyMerge, MergeWith, disk
<1> QED
  BY <1>1, CommitFileSteps DEF WriterNext

LEMMA ListedGoOn ==
  ASSUME DiskInv, [WriterNext]_storeVars, NEW c \in Listed
  PROVE  \E k \in Listed' : c <= k
<1>1. c \in Ids /\ c \in Nat
  BY IdIsNumber DEF Listed
<1>2. CASE UNCHANGED commits
  BY <1>1, <1>2 DEF Listed
<1>3. CASE CreateCommitFile \/ WriteCommitFile
  <2>1. commits'[c].state # "absent"
    BY <1>1, <1>3 DEF CreateCommitFile, WriteCommitFile, DiskInv, DiskShape, Listed
  <2> QED
    BY <1>1, <2>1 DEF Listed
<1>4. CASE DropCommit
  BY <1>1, <1>4, DropLeaves, IdIsNumber DEF Listed
<1> QED
  BY <1>2, <1>3, <1>4, CommitsChange

LEMMA StepKeepsAsked ==
  ASSUME SoundInv, QuietInv, AskedInv, [MergingNext]_storeVars
  PROVE  AskedInv'
<1>1. UNCHANGED <<handedIn, asked>> /\ [WriterNext]_storeVars /\ DiskInv
  BY QuietStep, MergingStep DEF SoundInv
<1>2. ASSUME NEW d \in Ids, NEW b \in Ids, HasFile(d, b), pc \in Writes \ {"write"} PROVE d # New /\ b # New
  <2>1. PICK c \in Listed : d <= c
    BY <1>2 DEF AskedInv
  <2>2. New \in Nat /\ IsLast(New - 1) /\ c \in Nat /\ d \in Nat /\ b \in Nat /\ b <= d
    BY <1>2, IdIsNumber DEF SoundInv, DiskInv, WorkIntact, Listed, HasFile
  <2>3. c <= New - 1
    BY <2>2, IdsAreNumbers DEF IsLast
  <2> QED
    BY <2>1, <2>2, <2>3
<1>3. ASSUME NEW d \in Ids, NEW b \in Ids, HasFile(d, b)' 
      PROVE  /\ \E c \in Listed' : d <= c
             /\ \A i \in DOMAIN dirs'[b].docs : i - 1 \in dirs'[d].deletions[b] => dirs'[b].docs[i] \in asked
  <2>1. HasFile(d, b) /\ dirs'[d].deletions = dirs[d].deletions
    <3>1. b \in DOMAIN dirs'[d].deletions /\ b <= d
      BY <1>3 DEF HasFile
    <3>2. dirs'[d].deletions = dirs[d].deletions
      BY <3>1, DirGoesOn
    <3> QED
      BY <3>1, <3>2 DEF HasFile
  <2>2. \E c \in Listed' : d <= c
    <3>1. PICK c \in Listed : d <= c
      BY <2>1 DEF AskedInv
    <3>2. PICK k \in Listed' : c <= k
      BY <1>1, ListedGoOn
    <3>3. d \in Nat /\ c \in Nat /\ k \in Nat
      BY <3>1, <3>2, IdIsNumber DEF Listed
    <3> QED
      BY <3>1, <3>2, <3>3
  <2>3. dirs'[b] = dirs[b] \/ dirs'[b].docs = <<>>
    BY <1>2, <2>1, DirGoesOn
  <2>4. DOMAIN <<>> = {}
    OBVIOUS
  <2> QED
    BY <2>1, <2>2, <2>3, <2>4 DEF AskedInv
<1> QED
  BY <1>1, <1>3 DEF AskedInv

LEMMA StepKeepsWhole ==
  ASSUME SoundInv, QuietInv, WholeInv, [MergingNext]_storeVars
  PROVE  WholeInv'
<1>1. [WriterNext]_storeVars /\ DiskInv /\ ~TakeBatch
  BY QuietStep, MergingStep DEF SoundInv
<1>2. commits = [c \in Ids |-> commits[c]]
  BY <1>1 DEF DiskInv, DiskShape
<1>3. CASE UNCHANGED commits
  <2>1. \A c \in Ids : commits'[c].state = "whole" => c \in Referenced(c)'
    BY <1>3 DEF WholeInv, Referenced
  <2>2. ASSUME pc' \in Writes PROVE New' - 1 \in Ids /\ commits'[New' - 1].state = "whole"
    <3>1. CASE MergeProposal
      <4>1. New \in Ids /\ New' = New + 1 /\ commits[New].state = "whole"
        BY <3>1, MergedProposal
      <4>2. New' - 1 = New
        BY <4>1, IdIsNumber
      <4> QED
        BY <1>3, <4>1, <4>2
    <3>2. CASE ~MergeProposal
      <4>1. pc \in Writes /\ UNCHANGED work
        BY <1>1, <2>2, <3>2, WorkGoesOn
      <4> QED
        BY <1>3, <4>1 DEF WholeInv, New
    <3> QED
      BY <3>1, <3>2
  <2> QED
    BY <1>3, <2>1, <2>2 DEF WholeInv
<1>4. CASE CreateCommitFile
  <2>1. commits' = [commits EXCEPT ![New] = [state |-> "torn", barrels |-> <<>>]] /\ UNCHANGED work /\ pc \in Writes
    BY <1>4 DEF CreateCommitFile, Writes
  <2>2. New - 1 \in Ids /\ commits[New - 1].state = "whole" /\ New \in Nat /\ New - 1 # New
    BY <1>1, <2>1, IdIsNumber DEF WholeInv, DiskInv, WorkIntact
  <2>3. commits'[New - 1].state = "whole"
    BY <1>2, <2>1, <2>2
  <2>4. \A c \in Ids : commits'[c].state = "whole" => c # New /\ commits'[c] = commits[c]
    BY <1>2, <2>1
  <2>5. New' = New
    BY <2>1 DEF New
  <2> QED
    BY <2>2, <2>3, <2>4, <2>5 DEF WholeInv, Referenced
<1>5. CASE WriteCommitFile
  <2>1. commits' = [commits EXCEPT ![New] = [state |-> "whole", barrels |-> work.infos.barrels]] /\ pc = "write" /\ pc' \notin Writes
    BY <1>5 DEF WriteCommitFile, Writes
  <2>2. New \in Ids /\ \E b \in Range(work.infos.barrels) : b.id = New
    BY <1>1, <2>1 DEF DiskInv, WorkIntact, Writes
  <2>3. commits'[New] = [state |-> "whole", barrels |-> work.infos.barrels]
    BY <1>2, <2>1, <2>2
  <2>4. commits'[New].state = "whole" /\ commits'[New].barrels = work.infos.barrels
    BY <2>3
  <2>5. \A c \in Ids : c # New => commits'[c] = commits[c]
    BY <1>2, <2>1
  <2> QED
    BY <2>1, <2>2, <2>4, <2>5 DEF WholeInv, Referenced
<1>6. CASE DropCommit
  <2>1. \A c \in Listed : commits[c].state = "whole"
    BY <1>1, <1>6, DropLeaves
  <2>2. PICK c, k \in Listed : c < k /\ commits' = [commits EXCEPT ![c] = NoFile]
    BY <1>1, <1>6, DropLeaves
  <2>3. c \in Nat /\ k \in Nat /\ c \in Ids /\ k \in Ids
    BY IdIsNumber DEF Listed
  <2>4. commits'[k] = commits[k]
    BY <1>2, <2>2, <2>3
  <2>5. \A d \in Ids : commits'[d].state = "whole" => commits'[d] = commits[d]
    BY <1>2, <2>2 DEF NoFile
  <2>6. pc' \notin Writes
    BY <1>6 DEF DropCommit, Writes
  <2> QED
    BY <2>1, <2>3, <2>4, <2>5, <2>6 DEF WholeInv, Referenced
<1> QED
  BY <1>1, <1>3, <1>4, <1>5, <1>6, CommitsChange

\* What is looked for from a barrel up to a commit depends on the directories between.
LEMMA LatestKept ==
  ASSUME NEW b \in Ids, NEW c \in Int, \A d \in Ids : b <= d /\ d <= c => dirs'[d] = dirs[d]
  PROVE  LatestFilter(b, b, c)' = LatestFilter(b, b, c)
<1> DEFINE F == WithFilter(b, b, c)
           m == CHOOSE k \in F : \A j \in F : j <= k
<1>1. WithFilter(b, b, c)' = F
  BY DEF WithFilter
<1>2. LatestFilter(b, b, c) = IF F = {} THEN {} ELSE dirs[m].deletions[b]
  BY DEF LatestFilter
<1>3. LatestFilter(b, b, c)' = IF F = {} THEN {} ELSE dirs'[m].deletions[b]
  <2> HIDE DEF F
  <2> QED
    BY <1>1 DEF LatestFilter
<1>4. F \subseteq Ids /\ F \subseteq Nat /\ \A k \in F : b <= k /\ k <= c
  BY IdIsNumber DEF WithFilter
<1> HIDE DEF F
<1>5. CASE F # {}
  <2>1. PICK x \in F : x \in Nat /\ x <= c
    BY <1>4, <1>5
  <2>2. c \in Nat
    BY <2>1
  <2>3. \E k \in F : \A j \in F : j <= k
    BY <1>4, <1>5, <2>2, Largest
  <2>4. m \in F
    BY <2>3
  <2> HIDE DEF m
  <2>5. m \in Ids /\ b <= m /\ m <= c
    BY <1>4, <2>4
  <2> QED
    BY <1>2, <1>3, <2>5
<1> QED
  BY <1>2, <1>3, <1>5

\* ... nor does what a reader finds in it.
LEMMA VisibleStays ==
  ASSUME DiskInv, NEW c \in Ids, commits'[c] = commits[c], \A d \in Ids : d <= c => dirs'[d] = dirs[d]
  PROVE  Visible(InfosAt(c))' = Visible(InfosAt(c))
<1>1. InfosAt(c) = [commit |-> c, barrels |-> commits[c].barrels] /\ InfosAt(c)' = InfosAt(c)
  BY IdsAreNumbers DEF InfosAt
<1>2. PICK infos : infos = InfosAt(c)
  OBVIOUS
<1>3. \A b \in Range(infos.barrels) : b.id \in Ids /\ b.id <= c
  BY <1>1, <1>2, ListedBarrels
<1>4. infos.commit = c /\ c \in Int
  BY <1>1, <1>2, IdIsNumber
<1>5. \A b \in Range(infos.barrels) :
         /\ LatestFilter(b.id, b.id, c)' = LatestFilter(b.id, b.id, c)
         /\ dirs'[b.id] = dirs[b.id]
  BY <1>3, <1>4, LatestKept DEF DiskInv
<1>6. Visible(infos)' = Visible(infos)
  BY <1>4, <1>5 DEF Visible
<1>7. Visible(InfosAt(c))' = Visible(infos)'
  BY <1>1, <1>2
<1> QED
  BY <1>2, <1>6, <1>7

LEMMA NewestGoesOn ==
  ASSUME SoundInv, QuietInv, [MergingNext]_storeVars, NEW c \in Ids, IsNewest(c)'
  PROVE  \/ IsNewest(c) /\ commits'[c] = commits[c]
         \/ WriteCommitFile /\ c = New /\ commits'[c].barrels = work.infos.barrels
<1>1. [WriterNext]_storeVars /\ DiskInv
  BY MergingStep DEF SoundInv
<1>2. commits = [k \in Ids |-> commits[k]]
  BY <1>1 DEF DiskInv, DiskShape
<1>3. commits'[c].state = "whole" /\ \A k \in Ids : commits'[k].state = "whole" => k <= c
  BY DEF IsNewest
<1>4. CASE UNCHANGED commits
  BY <1>3, <1>4 DEF IsNewest
<1>5. CASE CreateCommitFile
  <2>1. commits' = [commits EXCEPT ![New] = [state |-> "torn", barrels |-> <<>>]] /\ pc = "create" /\ pc \in Writes
    BY <1>5 DEF CreateCommitFile, Writes
  <2>2. New \in Nat /\ IsLast(New - 1)
    BY <1>1, <2>1, IdIsNumber DEF DiskInv, WorkIntact
  <2>3. ASSUME NEW k \in Ids, commits[k].state = "whole" PROVE k # New
    <3>1. k <= New - 1 /\ k \in Nat
      BY <2>2, <2>3, IdIsNumber DEF IsLast, Listed
    <3> QED
      BY <2>2, <3>1
  <2>4. \A k \in Ids : commits[k].state = "whole" => commits'[k] = commits[k]
    BY <1>2, <2>1, <2>3
  <2>5. c # New /\ commits'[c] = commits[c]
    <3>1. c = New => commits'[c].state = "torn"
      BY <1>2, <2>1
    <3> QED
      BY <1>2, <1>3, <2>1, <3>1
  <2> QED
    BY <1>3, <2>4, <2>5 DEF IsNewest
<1>6. CASE WriteCommitFile
  <2>1. commits' = [commits EXCEPT ![New] = [state |-> "whole", barrels |-> work.infos.barrels]] /\ pc = "write" /\ pc \in Writes
    BY <1>6 DEF WriteCommitFile, Writes
  <2>2. New \in Ids /\ IsLast(New) /\ New \in Nat /\ c \in Nat
    BY <1>1, <2>1, IdIsNumber DEF DiskInv, WorkIntact
  <2>3. commits'[New] = [state |-> "whole", barrels |-> work.infos.barrels]
    BY <1>2, <2>1, <2>2
  <2>4. commits'[New].state = "whole" /\ commits'[New].barrels = work.infos.barrels
    BY <2>3
  <2>5. New <= c
    BY <1>3, <2>2, <2>4
  <2>6. c # New => commits'[c] = commits[c]
    BY <1>2, <2>1
  <2>7. c # New => c <= New
    BY <1>3, <2>2, <2>6, IdsAreNumbers DEF IsLast, Listed
  <2>8. c = New
    BY <2>2, <2>5, <2>7
  <2> QED
    BY <1>6, <2>4, <2>8
<1>7. CASE DropCommit
  <2>1. PICK x, k \in Listed : x < k /\ commits' = [commits EXCEPT ![x] = NoFile]
    BY <1>1, <1>7, DropLeaves
  <2>2. \A j \in Listed : commits[j].state = "whole"
    BY <1>1, <1>7, DropLeaves
  <2>3. x \in Nat /\ k \in Nat /\ x \in Ids /\ k \in Ids /\ c \in Nat
    BY IdIsNumber DEF Listed
  <2>4. \A j \in Ids : j # x => commits'[j] = commits[j]
    BY <1>2, <2>1
  <2>5. c # x
    <3>1. commits'[x].state = "absent"
      BY <1>2, <2>1, <2>3 DEF NoFile
    <3> QED
      BY <1>3, <3>1
  <2>6. k <= c
    BY <1>3, <2>1, <2>2, <2>3, <2>4
  <2>7. ASSUME NEW j \in Ids, commits[j].state = "whole" PROVE j <= c
    BY <1>3, <2>1, <2>3, <2>4, <2>6, <2>7
  <2> QED
    BY <1>3, <2>4, <2>5, <2>7 DEF IsNewest
<1> QED
  BY <1>1, <1>4, <1>5, <1>6, <1>7, CommitsChange

\* A merge leaves out no document that was not deleted.
LEMMA MergeLeaves ==
  ASSUME SoundInv, AskedInv, NEW part, NEW b, IsSequence(dirs[b.id].docs), b.id \in Ids,
         part.commit \in Ids, NEW x \in Range(dirs[b.id].docs), x \notin asked
  PROVE  x \in Range(PieceOf(part, b))
<1>1. PICK i \in DOMAIN dirs[b.id].docs : x = dirs[b.id].docs[i]
  BY DEF Range
<1> DEFINE F == WithFilter(b.id, b.id, part.commit)
<1>2. LatestFilter(b.id, b.id, part.commit) =
        IF F = {} THEN {} ELSE dirs[CHOOSE k \in F : \A j \in F : j <= k].deletions[b.id]
  BY DEF LatestFilter
<1>3. \A k \in F : HasFile(k, b.id) /\ k \in Ids
  BY DEF WithFilter, HasFile
<1>4. F \subseteq Nat /\ \A k \in F : k <= part.commit
  BY <1>3, IdIsNumber DEF WithFilter
<1>5. part.commit \in Nat
  BY IdIsNumber
<1> HIDE DEF F
<1>6. i - 1 \notin LatestFilter(b.id, b.id, part.commit)
  <2>1. CASE F # {}
    <3>1. \E k \in F : \A j \in F : j <= k
      BY <1>4, <1>5, <2>1, Largest
    <3>2. PICK m \in F : m = CHOOSE k \in F : \A j \in F : j <= k
      BY <3>1
    <3>3. HasFile(m, b.id) /\ m \in Ids
      BY <1>3
    <3>4. i - 1 \notin dirs[m].deletions[b.id]
      BY <1>1, <3>3 DEF AskedInv
    <3> QED
      BY <1>2, <2>1, <3>2, <3>4
  <2>2. CASE F = {}
    BY <1>2, <2>2
  <2> QED
    BY <2>1, <2>2
<1>7. Range(Without(b.id, LatestFilter(b.id, b.id, part.commit))) =
        {dirs[b.id].docs[k] : k \in {k \in DOMAIN dirs[b.id].docs : k - 1 \notin LatestFilter(b.id, b.id, part.commit)}}
  BY WithoutIsSequence
<1> QED
  BY <1>1, <1>6, <1>7 DEF PieceOf

LEMMA WorkHolds ==
  ASSUME SoundInv, QuietInv, AskedInv, LeftInv, [MergingNext]_storeVars, pc' \in Writes
  PROVE  Holds(Range(work.infos.barrels))'
<1>1. UNCHANGED <<handedIn, asked>> /\ ~TakeBatch /\ [WriterNext]_storeVars /\ DiskInv
  BY QuietStep, MergingStep DEF SoundInv
<1>2. Left' = Left
  BY <1>1 DEF Left
<1>3. CASE /\ pc \in Writes /\ UNCHANGED work
           /\ \A d \in Ids : d # New => dirs'[d] = dirs[d]
  <2>1. New' = New
    BY <1>3 DEF New
  <2>2. ASSUME NEW b \in Range(work.infos.barrels) PROVE DocsIn(b.id)' = DocsIn(b.id)
    <3>1. CASE b.id = New
      BY <1>3, <2>1, <3>1 DEF DocsIn
    <3>2. CASE b.id # New
      <4>1. b.id \in Ids
        <5>1. b.id \in 0..(New - 1) /\ New \in Nat /\ New <= MaxCommit
          BY <1>1, <1>3, <3>2, IdIsNumber, IdsAreNumbers DEF DiskInv, WorkIntact, Ids
        <5> QED
          BY <5>1, IdsAreNumbers DEF Ids
      <4>2. dirs'[b.id] = dirs[b.id]
        BY <1>3, <3>2, <4>1
      <4> QED
        BY <1>3, <2>1, <3>2, <4>2 DEF DocsIn
    <3> QED
      BY <3>1, <3>2
  <2>3. Holds(Range(work.infos.barrels))
    BY <1>3 DEF LeftInv
  <2> QED
    BY <1>2, <1>3, <2>2, <2>3 DEF Holds
<1>4. CASE MergeProposal
  <2>1. /\ pc = "proposal" /\ pc' = "data" /\ New \in Ids /\ New + 1 \in Ids /\ New' = New + 1
        /\ IsLast(New)
        /\ commits[New] = [state |-> "whole", barrels |-> work.infos.barrels]
        /\ dirs' = [dirs EXCEPT ![New + 1] = [NoDir EXCEPT !.state = "filling"]]
        /\ IsSequence(work.docs')
        /\ \E part, new, which, home : part = Head(merging.proposals) /\ IsMerge(part, new, which, home)
    BY <1>4, MergedProposal
  <2>2. PICK part, new, which, home : IsMerge(part, new, which, home)
    BY <2>1
  <2>3. PICK S : S = Range(work.infos.barrels)
    OBVIOUS
  <2>4. S = Range(commits[New].barrels) /\ commits[New].state = "whole"
    BY <2>1, <2>3
  <2>5. IsNewest(New)
    BY <2>1, <2>4, IdsAreNumbers DEF IsNewest, IsLast, Listed
  <2>6. Holds(S)
    BY <2>1, <2>4, <2>5 DEF LeftInv
  <2>7. ASSUME NEW b \in S
        PROVE  b.id \in Ids /\ DocsIn(b.id) = dirs[b.id].docs /\ DocsIn(b.id)' = dirs[b.id].docs
    <3>1. b.id \in Ids /\ b.id <= New /\ DocsIn(b.id) = dirs[b.id].docs
      BY <1>1, <2>1, <2>4, ListedBarrels
    <3>2. b.id # New + 1
      BY <2>1, <3>1, IdIsNumber
    <3>3. dirs'[b.id] = dirs[b.id]
      BY <1>1, <2>1, <3>1, <3>2 DEF DiskInv, DiskShape
    <3>4. DocsIn(b.id)' = dirs'[b.id].docs
      BY <2>1, <3>2 DEF DocsIn
    <3> QED
      BY <3>1, <3>3, <3>4
  <2>8. /\ Range(work.infos.barrels)' = (S \ Range(part.barrels)) \cup {new}
        /\ DocsIn(new.id)' = work.docs' /\ part.commit \in Ids
        /\ Range(work.docs') = UNION {Range(PieceOf(part, part.barrels[i])) : i \in 1..Len(part.barrels)}
        /\ Range(part.barrels) = {part.barrels[i] : i \in 1..Len(part.barrels)}
    <3>1. DocsIn(new.id)' = work.docs'
      BY <2>1, <2>2 DEF IsMerge, DocsIn, Writes
    <3>2. Range(part.barrels) = {part.barrels[i] : i \in 1..Len(part.barrels)}
      BY <2>2, SequenceShape DEF IsMerge, Ordered
    <3> QED
      BY <2>2, <2>3, <3>1, <3>2 DEF IsMerge
  <2>9. ASSUME NEW x \in Left
        PROVE  \E d \in (S \ Range(part.barrels)) \cup {new} : x \in Range(DocsIn(d.id)')
    <3>1. PICK b \in S : x \in Range(DocsIn(b.id))
      BY <2>6 DEF Holds
    <3>2. CASE b \notin Range(part.barrels)
      BY <2>7, <3>1, <3>2
    <3>3. CASE b \in Range(part.barrels)
      <4>1. x \notin asked /\ IsSequence(dirs[b.id].docs) /\ b.id \in Ids /\ x \in Range(dirs[b.id].docs)
        BY <2>7, <3>1 DEF Left, SoundInv, DocsShape
      <4>2. x \in Range(PieceOf(part, b))
        BY <2>8, <4>1, MergeLeaves
      <4>3. x \in Range(work.docs')
        BY <2>8, <3>3, <4>2
      <4> QED
        BY <2>8, <4>3
    <3> QED
      BY <3>2, <3>3
  <2> QED
    BY <1>2, <2>8, <2>9 DEF Holds
<1> QED
  BY <1>1, <1>3, <1>4, WorkGoesOn

LEMMA StepKeepsLeft ==
  ASSUME SoundInv, QuietInv, AskedInv, LeftInv, [MergingNext]_storeVars
  PROVE  LeftInv'
<1>1. UNCHANGED <<handedIn, asked>> /\ [WriterNext]_storeVars /\ DiskInv
  BY QuietStep, MergingStep DEF SoundInv
<1>2. Left' = Left
  BY <1>1 DEF Left
<1>3. DiskInv'
  BY <1>1, StepKeepsDiskInv
<1>4. ASSUME NEW c \in Ids, IsNewest(c)' PROVE Holds(Range(commits[c].barrels))'
  <2>1. ASSUME NEW b \in Range(commits'[c].barrels) PROVE DocsIn(b.id)' = dirs'[b.id].docs
    BY <1>3, ListedBarrelsNext
  <2>2. CASE IsNewest(c) /\ commits'[c] = commits[c]
    <3>1. ASSUME NEW b \in Range(commits[c].barrels) PROVE DocsIn(b.id)' = DocsIn(b.id)
      <4>1. dirs'[b.id] = dirs[b.id] /\ DocsIn(b.id) = dirs[b.id].docs
        BY <1>1, ListedStay, ListedBarrels
      <4> QED
        BY <2>1, <2>2, <4>1
    <3>2. Holds(Range(commits[c].barrels))
      BY <2>2 DEF LeftInv
    <3> QED
      BY <1>2, <2>2, <3>1, <3>2 DEF Holds
  <2>3. CASE WriteCommitFile /\ c = New /\ commits'[c].barrels = work.infos.barrels
    <3>1. pc = "write" /\ pc \in Writes /\ dirs' = dirs
      BY <2>3 DEF WriteCommitFile, Writes
    <3>2. dirs[New].docs = work.docs
      BY <1>1, <3>1 DEF DiskInv, WorkIntact
    <3>3. ASSUME NEW b \in Range(work.infos.barrels) PROVE DocsIn(b.id)' = DocsIn(b.id)
      <4>1. DocsIn(b.id)' = dirs[b.id].docs
        BY <2>1, <2>3, <3>1
      <4>2. DocsIn(b.id) = dirs[b.id].docs
        BY <3>2 DEF DocsIn
      <4> QED
        BY <4>1, <4>2
    <3>4. Holds(Range(work.infos.barrels))
      BY <3>1 DEF LeftInv
    <3> QED
      BY <1>2, <2>3, <3>3, <3>4 DEF Holds
  <2> QED
    BY <1>4, <2>2, <2>3, NewestGoesOn
<1> QED
  BY <1>4, WorkHolds DEF LeftInv

\* What one merge of all the barrels has, a reader found.
LEMMA MergeHides ==
  ASSUME SoundInv, WholeInv, MergeProposal, Len(work.infos.barrels)' = 1, NEW c \in Ids, c = New
  PROVE  Range(work.docs') \subseteq Visible(InfosAt(c))
<1>1. /\ pc = "proposal" /\ New \in Ids /\ New' = New + 1
      /\ commits[New] = [state |-> "whole", barrels |-> work.infos.barrels]
      /\ \E part, new, which, home : part = Head(merging.proposals) /\ IsMerge(part, new, which, home)
  BY MergedProposal
<1>2. PICK part, new, which, home : IsMerge(part, new, which, home)
  BY <1>1
<1>3. PICK S, P : S = Range(work.infos.barrels) /\ P = Range(part.barrels)
  OBVIOUS
<1>4. S = Range(commits[c].barrels) /\ commits[c].state = "whole" /\ c \in Nat
  BY <1>1, <1>3, IdIsNumber
<1>5. \A b \in S : b.id \in Ids /\ b.id <= c /\ b.id \in Nat
  BY <1>4, ListedBarrels, IdIsNumber DEF SoundInv
<1>6. /\ Range(work.infos.barrels)' = (S \ P) \cup {new} /\ P \subseteq S /\ new.id = c + 1
      /\ part.commit \in Ids /\ part.commit <= c /\ \A b \in P : b.id <= part.commit
      /\ Range(work.docs') = UNION {Range(PieceOf(part, part.barrels[i])) : i \in 1..Len(part.barrels)}
  BY <1>2, <1>3 DEF IsMerge
<1>7. S \subseteq P
  <2>1. IsSequence(work.infos.barrels)'
    <3>1. [WriterNext]_storeVars
      BY DEF WriterNext, StoreNext, CommitThread
    <3>2. ListInv'
      BY <3>1, StepKeepsSound DEF SoundInv
    <3> QED
      BY <3>2 DEF ListInv, IsIndex, IsList
  <2>2. PICK list : list = work.infos.barrels'
    OBVIOUS
  <2>3. IsSequence(list) /\ Len(list) = 1 /\ Range(list) = (S \ P) \cup {new}
    BY <1>6, <2>1, <2>2
  <2>4. Range(list) = {list[i] : i \in 1..1}
    BY <2>3, SequenceShape
  <2>5. \A b \in S : b # new
    BY <1>4, <1>5, <1>6
  <2> QED
    BY <2>3, <2>4, <2>5
<1>8. part.commit = c
  <2>1. PICK b \in S : b.id = c
    BY <1>4 DEF WholeInv, Referenced
  <2>2. c <= part.commit /\ part.commit \in Nat
    BY <1>6, <1>7, <2>1, IdIsNumber
  <2> QED
    BY <1>4, <1>6, <2>2
<1>9. ASSUME NEW i \in 1..Len(part.barrels) PROVE Range(PieceOf(part, part.barrels[i])) \subseteq Visible(InfosAt(c))
  <2>1. PICK b : b = part.barrels[i]
    OBVIOUS
  <2>2. b \in S
    BY <1>2, <1>3, <1>6, <2>1, SequenceShape DEF IsMerge, Ordered
  <2>3. IsSequence(dirs[b.id].docs)
    BY <1>5, <2>2 DEF SoundInv, DocsShape
  <2>4. Range(PieceOf(part, b)) =
           {dirs[b.id].docs[k] : k \in {k \in DOMAIN dirs[b.id].docs : k - 1 \notin LatestFilter(b.id, b.id, c)}}
    BY <1>8, <2>3, WithoutIsSequence DEF PieceOf
  <2>5. InfosAt(c) = [commit |-> c, barrels |-> commits[c].barrels]
    BY IdsAreNumbers DEF InfosAt
  <2>6. InfosAt(c).commit = c /\ Range(InfosAt(c).barrels) = S
    BY <1>4, <2>5
  <2> QED
    BY <2>1, <2>2, <2>4, <2>6 DEF Visible
<1> QED
  BY <1>6, <1>9

LEMMA StepKeepsHidden ==
  ASSUME SoundInv, QuietInv, WholeInv, HiddenInv, [MergingNext]_storeVars
  PROVE  HiddenInv'
<1>1. ~TakeBatch /\ [WriterNext]_storeVars /\ DiskInv
  BY QuietStep, MergingStep DEF SoundInv
<1>2. commits = [k \in Ids |-> commits[k]] /\ dirs = [k \in Ids |-> dirs[k]]
  BY <1>1 DEF DiskInv, DiskShape
<1> SUFFICES ASSUME pc' \in Writes, Len(work.infos.barrels)' = 1, NEW c \in Ids, c + 1 = New'
             PROVE  Range(work.docs') \subseteq Visible(InfosAt(c))'
  BY DEF HiddenInv
<1>3. c \in Nat
  BY IdIsNumber
<1>4. CASE MergeProposal
  <2>1. /\ New \in Ids /\ New' = New + 1 /\ UNCHANGED commits
        /\ dirs' = [dirs EXCEPT ![New + 1] = [NoDir EXCEPT !.state = "filling"]]
    BY <1>4, MergedProposal
  <2>2. c = New
    BY <1>3, <2>1, IdIsNumber
  <2>3. Range(work.docs') \subseteq Visible(InfosAt(c))
    BY <1>4, <2>2, MergeHides
  <2>4. ASSUME NEW d \in Ids, d <= c PROVE dirs'[d] = dirs[d]
    <3>1. d # c + 1
      BY <1>3, <2>4, IdIsNumber
    <3> QED
      BY <1>2, <2>1, <2>2, <3>1
  <2>5. Visible(InfosAt(c))' = Visible(InfosAt(c))
    BY <1>1, <2>1, <2>4, VisibleStays
  <2> QED
    BY <2>3, <2>5
<1>5. CASE /\ pc \in Writes /\ UNCHANGED work
           /\ \A d \in Ids : d # New => dirs'[d] = dirs[d]
  <2>1. New' = New
    BY <1>5 DEF New
  <2>2. commits'[c] = commits[c]
    <3>1. c # New
      BY <1>3, <2>1
    <3>2. ~WriteCommitFile /\ ~DropCommit
      BY DEF WriteCommitFile, DropCommit, Writes
    <3>3. CreateCommitFile => commits' = [commits EXCEPT ![New] = [state |-> "torn", barrels |-> <<>>]]
      BY DEF CreateCommitFile
    <3> QED
      BY <1>1, <1>2, <3>1, <3>2, <3>3, CommitsChange
  <2>3. ASSUME NEW d \in Ids, d <= c PROVE dirs'[d] = dirs[d]
    <3>1. d # New
      BY <1>3, <2>1, <2>3, IdIsNumber
    <3> QED
      BY <1>5, <3>1
  <2>4. Visible(InfosAt(c))' = Visible(InfosAt(c))
    BY <1>1, <2>2, <2>3, VisibleStays
  <2>5. Range(work.docs) \subseteq Visible(InfosAt(c))
    BY <1>5, <2>1 DEF HiddenInv
  <2> QED
    BY <1>5, <2>4, <2>5
<1> QED
  BY <1>1, <1>4, <1>5, WorkGoesOn

\* What is kept stays kept.
LEMMA StepKeepsKept == SoundInv /\ KeptInv /\ [MergingNext]_storeVars => KeptInv'
BY QuietStep, StepKeepsWhole, StepKeepsAsked, StepKeepsLeft, StepKeepsHidden DEF KeptInv

\* where the documents of an index that has grown are
LEMMA GrownPlaces ==
  ASSUME NotRunning, NEW n, NEW barrels, NEW gone, GrownIndex(n, barrels, gone)
  PROVE  /\ handedIn \in Nat
         /\ \A c \in Ids : \A b \in Range(commits[c].barrels) : \E i \in 1..n : b = barrels[i]
         /\ \A i \in 1..n :
               /\ barrels[i].id = i - 1 /\ i - 1 \in Ids /\ DocsIn(i - 1) = dirs[i - 1].docs
               /\ IsSequence(dirs[i - 1].docs) /\ Len(dirs[i - 1].docs) = barrels[i].count
               /\ barrels[i].base \in Nat /\ barrels[i].count \in Nat
               /\ barrels[i].base + barrels[i].count <= handedIn
               /\ \A k \in 1..barrels[i].count : dirs[i - 1].docs[k] = barrels[i].base + k
         /\ \A c \in Ids : dirs[c].docs = <<>> \/ c + 1 \in 1..n
<1>1. /\ n \in Nat \ {0} /\ n - 1 \in Ids /\ Ordered(barrels) /\ Len(barrels) = n
      /\ \A i \in 1..n : barrels[i].id = i - 1
      /\ handedIn = barrels[n].base + barrels[n].count
  BY DEF GrownIndex
<1>2. /\ \A c \in Ids : c \in {n - 2, n - 1} =>
               /\ commits[c] = [state |-> "whole", barrels |-> commits[c].barrels]
               /\ IsSequence(commits[c].barrels) /\ Len(commits[c].barrels) = c + 1
               /\ \A i \in 1..(c + 1) : commits[c].barrels[i] = barrels[i]
               /\ \A b \in Range(commits[c].barrels) : \E i \in 1..(c + 1) : i \in 1..n /\ b = barrels[i]
      /\ \A c \in Ids : c \notin {n - 2, n - 1} => commits[c] = NoFile
      /\ \A i \in 1..n :
               /\ i - 1 \in Ids
               /\ dirs[i - 1] = [state |-> "whole", docs |-> DocsOf(barrels[i]), deletions |-> dirs[i - 1].deletions]
               /\ IsSequence(dirs[i - 1].docs) /\ Len(dirs[i - 1].docs) = barrels[i].count
               /\ \A k \in 1..barrels[i].count : dirs[i - 1].docs[k] = barrels[i].base + k
      /\ \A c \in Ids : c >= n => dirs[c] = NoDir
  BY GrownFiles
<1>3. \A i \in 1..n : barrels[i].base \in Nat /\ barrels[i].count \in Nat
  BY <1>1 DEF Ordered
<1>4. handedIn \in Nat /\ n \in 1..n
  BY <1>1, <1>3
<1>5. ASSUME NEW i \in 1..n PROVE barrels[i].base + barrels[i].count <= handedIn
  <2>1. CASE i = n
    BY <1>1, <1>4, <2>1
  <2>2. CASE i # n
    <3>1. i < n
      BY <1>1, <2>2
    <3>2. barrels[i].base + barrels[i].count <= barrels[n].base
      BY <1>1, <1>4, <3>1 DEF Ordered
    <3> QED
      BY <1>1, <1>3, <1>4, <3>2
  <2> QED
    BY <2>1, <2>2
<1>6. pc \notin Writes
  BY NotRunningShapes DEF Writes
<1>7. ASSUME NEW c \in Ids, NEW b \in Range(commits[c].barrels) PROVE \E i \in 1..n : b = barrels[i]
  <2>1. CASE c \in {n - 2, n - 1}
    BY <1>2, <2>1
  <2>2. CASE c \notin {n - 2, n - 1}
    <3>1. commits[c].barrels = <<>>
      BY <1>2, <2>2 DEF NoFile
    <3> QED
      BY <3>1, EmptySequence
  <2> QED
    BY <2>1, <2>2
<1>8. ASSUME NEW c \in Ids PROVE dirs[c].docs = <<>> \/ c + 1 \in 1..n
  <2>1. c >= n => dirs[c].docs = <<>>
    BY <1>2 DEF NoDir
  <2>2. ~(c >= n) => c + 1 \in 1..n
    BY <1>1, IdIsNumber
  <2> QED
    BY <2>1, <2>2
<1>9. \A i \in 1..n : DocsIn(i - 1) = dirs[i - 1].docs
  BY <1>6 DEF DocsIn
<1> QED
  BY <1>1, <1>2, <1>3, <1>4, <1>5, <1>7, <1>8, <1>9

\* ... and its deletions
LEMMA GrownDeletions ==
  ASSUME NotRunning, NEW n, NEW barrels, NEW gone, GrownIndex(n, barrels, gone),
         NEW d \in Ids, NEW b \in Ids, HasFile(d, b)
  PROVE  /\ d = n - 1 /\ commits[n - 1].state = "whole"
         /\ b + 1 \in 1..n /\ dirs[d].deletions[b] = {0}
         /\ barrels[b + 1].count > 0 /\ barrels[b + 1].base + 1 \in asked
<1>1. /\ n \in Nat \ {0} /\ n - 1 \in Ids
      /\ gone \subseteq 1..(n - 1) /\ \A i \in gone : barrels[i].count > 0
      /\ OnDisk(barrels, gone) /\ Len(barrels) = n
      /\ asked = {barrels[i].base + 1 : i \in gone}
  BY DEF GrownIndex
<1>2. /\ commits = [c \in Ids |->
            IF c \in {n - 2, n - 1}
            THEN [state |-> "whole", barrels |-> SubSeq(barrels, 1, c + 1)] ELSE NoFile]
      /\ dirs = [c \in Ids |->
            IF c < n
            THEN [state     |-> "whole",
                  docs      |-> DocsOf(barrels[c + 1]),
                  deletions |-> IF c = n - 1 THEN [x \in {i - 1 : i \in gone} |-> {0}]
                                ELSE <<>>] ELSE NoDir]
  BY <1>1 DEF OnDisk
<1>3. DOMAIN <<>> = {} /\ NoDir.deletions = <<>>
  BY DEF NoDir
<1>4. d < n /\ d = n - 1
  BY <1>2, <1>3 DEF HasFile
<1>5. dirs[d] = [state |-> "whole", docs |-> DocsOf(barrels[d + 1]), deletions |-> [x \in {i - 1 : i \in gone} |-> {0}]]
  BY <1>2, <1>4
<1>6. dirs[d].deletions = [x \in {i - 1 : i \in gone} |-> {0}]
  BY <1>5
<1>7. b \in {i - 1 : i \in gone} /\ dirs[d].deletions[b] = {0}
  BY <1>6 DEF HasFile
<1>8. PICK i \in gone : b = i - 1
  BY <1>7
<1>9. i \in 1..n /\ b + 1 = i
  BY <1>1, <1>8
<1>10. commits[n - 1].state = "whole"
  BY <1>1, <1>2
<1> QED
  BY <1>1, <1>4, <1>7, <1>8, <1>9, <1>10

LEMMA GrownSound ==
  ASSUME MergingInit
  PROVE  SoundInv /\ PlacesInv
<1>1. NotRunning /\ ~Writing
  BY DEF MergingInit, NotRunning, Writing
<1>2. PICK n, barrels, gone : GrownIndex(n, barrels, gone)
  BY MergingInitIs
<1>3. /\ pc = "idle" /\ work.docs = <<>> /\ pending = <<>> /\ building = NoBuilding
      /\ keyIndex = <<>> /\ filter = <<>> /\ status = "closed" /\ pc \notin Writes
  BY <1>1, NotRunningShapes DEF NotRunning, Writes
<1>4. Ordered(barrels) /\ n = Len(barrels) /\ n \in Nat
  BY <1>2 DEF GrownIndex
<1>5. /\ handedIn \in Nat
      /\ \A c \in Ids : \A b \in Range(commits[c].barrels) : \E i \in 1..n : b = barrels[i]
      /\ \A i \in 1..n :
            /\ barrels[i].id = i - 1 /\ i - 1 \in Ids /\ DocsIn(i - 1) = dirs[i - 1].docs
            /\ IsSequence(dirs[i - 1].docs) /\ Len(dirs[i - 1].docs) = barrels[i].count
            /\ barrels[i].base \in Nat /\ barrels[i].count \in Nat
            /\ barrels[i].base + barrels[i].count <= handedIn
            /\ \A k \in 1..barrels[i].count : dirs[i - 1].docs[k] = barrels[i].base + k
      /\ \A c \in Ids : dirs[c].docs = <<>> \/ c + 1 \in 1..n
  BY <1>1, <1>2, GrownPlaces
<1>6. FilesGrow
  <2>1. ASSUME NEW d \in Ids, NEW e \in Ids, NEW b \in Ids, HasFile(d, b), HasFile(e, b) PROVE d = e
    <3>1. d = n - 1 /\ e = n - 1
      BY <1>1, <1>2, <2>1, GrownDeletions
    <3> QED
      BY <3>1
  <2>2. \A d, e \in Ids : d < e => d # e
    BY IdIsNumber
  <2> QED
    BY <2>1, <2>2 DEF FilesGrow
<1>7. SoundInv
  BY <1>1, <1>6, MergingInitLists DEF SoundInv, DeletionsInv, KeeperAhead, BitsKnown
<1>8. ListsApart
  <2>1. ASSUME NEW i \in 1..n, NEW k \in 1..n, NEW p \in 1..barrels[i].count, NEW q \in 1..barrels[k].count,
               DocsIn(barrels[i].id)[p] = DocsIn(barrels[k].id)[q]
        PROVE  i = k /\ p = q
    <3>1. /\ barrels[i].base \in Nat /\ barrels[i].count \in Nat /\ barrels[k].base \in Nat /\ barrels[k].count \in Nat
      BY <1>5
    <3>2. barrels[i].base + p = barrels[k].base + q
      <4>1. DocsIn(barrels[i].id)[p] = barrels[i].base + p
        <5>1. DocsIn(barrels[i].id) = dirs[i - 1].docs
          BY <1>5
        <5> QED
          BY <1>5, <5>1
      <4>2. DocsIn(barrels[k].id)[q] = barrels[k].base + q
        <5>1. DocsIn(barrels[k].id) = dirs[k - 1].docs
          BY <1>5
        <5> QED
          BY <1>5, <5>1
      <4> QED
        BY <2>1, <4>1, <4>2
    <3>3. /\ i < k => barrels[i].base + barrels[i].count <= barrels[k].base
          /\ k < i => barrels[k].base + barrels[k].count <= barrels[i].base
      BY <1>4 DEF Ordered
    <3>4. ~(i < k) /\ ~(k < i)
      BY <3>1, <3>2, <3>3
    <3>5. i = k
      BY <1>4, <3>4
    <3> QED
      BY <3>1, <3>2, <3>5
  <2>2. ASSUME NEW c \in Ids PROVE Apart(Range(commits[c].barrels))
    <3> SUFFICES ASSUME NEW b \in Range(commits[c].barrels), NEW d \in Range(commits[c].barrels),
                        NEW p \in 1..b.count, NEW q \in 1..d.count, DocsIn(b.id)[p] = DocsIn(d.id)[q]
                 PROVE  b = d /\ p = q
      BY DEF Apart
    <3>1. PICK i, k \in 1..n : b = barrels[i] /\ d = barrels[k]
      BY <1>5
    <3> QED
      BY <2>1, <3>1
  <2> QED
    BY <1>3, <2>2 DEF ListsApart
<1>9. DocsKnown
  <2>1. ASSUME NEW c \in Ids PROVE Range(dirs[c].docs) \subseteq 1..handedIn
    <3>1. CASE dirs[c].docs = <<>>
      BY <3>1, EmptySequence
    <3>2. CASE c + 1 \in 1..n
      <4>1. PICK i \in 1..n : i = c + 1
        BY <3>2
      <4>2. c = i - 1
        BY <4>1, IdIsNumber
      <4>3. Range(dirs[c].docs) = {dirs[c].docs[k] : k \in 1..barrels[i].count}
        BY <1>5, <4>2, SequenceShape
      <4>4. /\ barrels[i].base \in Nat /\ barrels[i].count \in Nat /\ barrels[i].base + barrels[i].count <= handedIn
            /\ \A k \in 1..barrels[i].count : dirs[c].docs[k] = barrels[i].base + k
        BY <1>5, <4>2
      <4>5. \A k \in 1..barrels[i].count : barrels[i].base + k \in 1..handedIn
        BY <1>5, <4>4
      <4> QED
        BY <4>3, <4>4, <4>5
    <3> QED
      BY <1>5, <3>1, <3>2
  <2> QED
    BY <1>3, <1>5, <2>1, EmptySequence DEF DocsKnown
<1>10. BuildingInv
  <2>1. building.docs = <<>> /\ DOMAIN keyIndex = {} /\ Range(<<>>) = {} /\ 1..Len(<<>>) = {}
    BY <1>3, EmptySequence DEF NoBuilding
  <2> QED
    BY <2>1 DEF BuildingInv
<1>11. RoomInv
  BY <1>3, EmptySequence DEF RoomInv, IsFilter
<1> QED
  BY <1>1, <1>7, <1>8, <1>9, <1>10, <1>11 DEF PlacesInv, KeeperInv, KeysInv

LEMMA GrownKept ==
  ASSUME MergingInit
  PROVE  KeptInv
<1>1. NotRunning
  BY DEF MergingInit
<1>2. PICK n, barrels, gone : GrownIndex(n, barrels, gone)
  BY MergingInitIs
<1>3. /\ pc = "idle" /\ pending = <<>> /\ building = NoBuilding /\ filter = <<>> /\ pc \notin Writes
  BY <1>1, NotRunningShapes DEF NotRunning, Writes
<1>4. /\ n \in Nat \ {0} /\ n - 1 \in Ids /\ Len(barrels) = n
      /\ barrels[1].base = 0 /\ handedIn = barrels[n].base + barrels[n].count
      /\ \A i \in 1..(n - 1) : barrels[i + 1].base = barrels[i].base + barrels[i].count
  BY <1>2 DEF GrownIndex
<1>5. /\ \A i \in 1..n :
            /\ barrels[i].id = i - 1 /\ i - 1 \in Ids /\ DocsIn(i - 1) = dirs[i - 1].docs
            /\ IsSequence(dirs[i - 1].docs) /\ Len(dirs[i - 1].docs) = barrels[i].count
            /\ barrels[i].base \in Nat /\ barrels[i].count \in Nat
            /\ \A k \in 1..barrels[i].count : dirs[i - 1].docs[k] = barrels[i].base + k
      /\ \A c \in Ids : dirs[c].docs = <<>> \/ c + 1 \in 1..n
  BY SMTT(60), <1>1, <1>2, GrownPlaces
<1>6. /\ \A c \in Ids : c \in {n - 2, n - 1} =>
               /\ commits[c] = [state |-> "whole", barrels |-> commits[c].barrels]
               /\ IsSequence(commits[c].barrels) /\ Len(commits[c].barrels) = c + 1
               /\ \A i \in 1..(c + 1) : commits[c].barrels[i] = barrels[i]
      /\ \A c \in Ids : c \notin {n - 2, n - 1} => commits[c] = NoFile
  <2>1. /\ \A c \in Ids : c \in {n - 2, n - 1} =>
               /\ commits[c] = [state |-> "whole", barrels |-> commits[c].barrels]
               /\ IsSequence(commits[c].barrels) /\ Len(commits[c].barrels) = c + 1
               /\ \A i \in 1..(c + 1) : commits[c].barrels[i] = barrels[i]
               /\ \A b \in Range(commits[c].barrels) : \E i \in 1..(c + 1) : i \in 1..n /\ b = barrels[i]
        /\ \A c \in Ids : c \notin {n - 2, n - 1} => commits[c] = NoFile
    BY <1>2, GrownFiles
  <2> QED
    BY <2>1
<1>7. \A c \in Ids : commits[c].state = "whole" => c \in {n - 2, n - 1}
  BY <1>6 DEF NoFile
<1>8. commits[n - 1].state = "whole" /\ n - 1 \in Listed
  <2>1. commits[n - 1] = [state |-> "whole", barrels |-> commits[n - 1].barrels]
    BY <1>4, <1>6
  <2>2. commits[n - 1].state = "whole"
    BY <2>1
  <2> QED
    BY <1>4, <2>2 DEF Listed
<1>9. QuietInv
  BY <1>3, EmptySequence, SequenceShape DEF QuietInv, Dirty
<1>10. WholeInv
  <2>1. ASSUME NEW c \in Ids, commits[c].state = "whole" PROVE c \in Referenced(c)
    <3>1. c \in {n - 2, n - 1} /\ c \in Nat
      BY <1>7, <2>1, IdIsNumber
    <3>2. c + 1 \in 1..(c + 1) /\ c + 1 \in 1..n /\ (c + 1) - 1 = c
      BY <1>4, <3>1
    <3>3. Range(commits[c].barrels) = {commits[c].barrels[i] : i \in 1..(c + 1)}
      <4>1. IsSequence(commits[c].barrels) /\ Len(commits[c].barrels) = c + 1
        BY <1>6, <3>1
      <4>2. PICK s : s = commits[c].barrels
        OBVIOUS
      <4>3. Range(s) = {s[i] : i \in 1..Len(s)}
        BY <4>1, <4>2, SequenceShape
      <4> QED
        BY <4>1, <4>2, <4>3
    <3>4. commits[c].barrels[c + 1] = barrels[c + 1] /\ barrels[c + 1].id = c
      BY <1>5, <1>6, <3>1, <3>2
    <3> QED
      BY <3>2, <3>3, <3>4 DEF Referenced
  <2> QED
    BY <1>3, <1>4, <1>8, <2>1 DEF WholeInv
<1>11. AskedInv
  <2> SUFFICES ASSUME NEW d \in Ids, NEW b \in Ids, HasFile(d, b)
               PROVE  /\ \E c \in Listed : d <= c
                      /\ \A i \in DOMAIN dirs[b].docs : i - 1 \in dirs[d].deletions[b] => dirs[b].docs[i] \in asked
    BY DEF AskedInv
  <2>1. /\ d = n - 1 /\ b + 1 \in 1..n /\ dirs[d].deletions[b] = {0}
        /\ barrels[b + 1].count > 0 /\ barrels[b + 1].base + 1 \in asked
    BY <1>1, <1>2, GrownDeletions
  <2>2. PICK i \in 1..n : i = b + 1
    BY <2>1
  <2>3. b = i - 1
    BY <2>2, IdIsNumber
  <2>4. DOMAIN dirs[b].docs = 1..barrels[i].count
    BY <1>5, <2>3, SequenceShape
  <2>5. dirs[b].docs[1] \in asked
    BY SMTT(60), <1>5, <2>1, <2>2, <2>3
  <2>6. \A k \in DOMAIN dirs[b].docs : k - 1 \in {0} => k = 1
    BY <1>5, <2>4
  <2>7. d <= n - 1
    BY <1>4, <2>1
  <2> QED
    BY <1>8, <2>1, <2>5, <2>6, <2>7
<1>12. LeftInv
  <2>1. ASSUME NEW c \in Ids, IsNewest(c) PROVE c = n - 1
    <3>1. c \in {n - 2, n - 1} /\ n - 1 <= c
      BY <1>4, <1>7, <1>8, <2>1 DEF IsNewest
    <3> QED
      BY <1>4, <3>1
  <2>2. ASSUME NEW x \in Left PROVE \E b \in Range(commits[n - 1].barrels) : x \in Range(DocsIn(b.id))
    <3> DEFINE T == {i \in 1..n : x <= barrels[i].base + barrels[i].count}
    <3>1. x \in Nat /\ 1 <= x /\ x <= handedIn /\ n \in 1..n /\ handedIn \in Nat
      BY <1>4, <1>5 DEF Left
    <3>2. n \in T /\ T \subseteq Nat
      BY <1>4, <3>1
    <3>3. PICK i \in T : \A j \in T : i <= j
      <4> HIDE DEF T
      <4> QED
        BY <3>2, Smallest
    <3>4. /\ i \in 1..n /\ x <= barrels[i].base + barrels[i].count
          /\ barrels[i].base \in Nat /\ barrels[i].count \in Nat
      BY <1>5
    <3>5. barrels[i].base < x
      <4>1. CASE i = 1
        BY <1>4, <3>1, <4>1
      <4>2. CASE i # 1
        <5>1. i - 1 \in 1..(n - 1) /\ i - 1 \in 1..n /\ (i - 1) + 1 = i /\ ~(i <= i - 1)
          BY <1>4, <3>4, <4>2
        <5>2. barrels[i].base = barrels[i - 1].base + barrels[i - 1].count
          BY <1>4, <5>1
        <5>3. i - 1 \notin T
          BY <3>3, <5>1
        <5>4. ~(x <= barrels[i - 1].base + barrels[i - 1].count)
          BY <5>1, <5>3
        <5> QED
          BY <3>1, <3>4, <5>2, <5>4
      <4> QED
        BY <4>1, <4>2
    <3> HIDE DEF T
    <3>6. x - barrels[i].base \in 1..barrels[i].count /\ barrels[i].base + (x - barrels[i].base) = x
      BY <3>1, <3>4, <3>5
    <3>7. dirs[i - 1].docs[x - barrels[i].base] = x /\ DocsIn(i - 1) = dirs[i - 1].docs
      BY <1>5, <3>4, <3>6
    <3>8. x \in Range(DocsIn(barrels[i].id))
      <4>1. PICK s : s = dirs[i - 1].docs
        OBVIOUS
      <4>2. IsSequence(s) /\ Len(s) = barrels[i].count /\ DocsIn(barrels[i].id) = s
        BY <1>5, <3>4, <4>1
      <4>3. Range(s) = {s[k] : k \in 1..Len(s)}
        BY <4>2, SequenceShape
      <4> QED
        BY <3>6, <3>7, <4>1, <4>2, <4>3
    <3>9. barrels[i] \in Range(commits[n - 1].barrels)
      <4>1. (n - 1) + 1 = n /\ n - 1 \in Ids
        BY <1>4
      <4>2. IsSequence(commits[n - 1].barrels) /\ Len(commits[n - 1].barrels) = n /\ commits[n - 1].barrels[i] = barrels[i]
        BY <1>6, <3>4, <4>1
      <4> QED
        BY <3>4, <4>2, SequenceShape
    <3> QED
      BY <3>8, <3>9
  <2> QED
    BY <1>3, <2>1, <2>2 DEF LeftInv, Holds
<1> QED
  BY <1>3, <1>9, <1>10, <1>11, <1>12 DEF KeptInv, HiddenInv

LEMMA MergingKeeps == MergingSpec => [](SoundInv /\ PlacesInv /\ KeptInv)
<1>1. MergingInit => SoundInv /\ PlacesInv /\ KeptInv
  BY GrownSound, GrownKept
<1>2. SoundInv /\ PlacesInv /\ KeptInv /\ [MergingNext]_storeVars => (SoundInv /\ PlacesInv /\ KeptInv)'
  BY MergingStep, StepKeepsSound, StepKeepsPlaces, StepKeepsKept
<1> QED
  BY <1>1, <1>2, PTL DEF MergingSpec

LEMMA KeptIsPromised == SoundInv /\ PlacesInv /\ KeptInv => MergeKeepsDocuments
<1> SUFFICES ASSUME SoundInv, PlacesInv, KeptInv PROVE MergeKeepsDocuments
  OBVIOUS
<1>1. DiskInv /\ DocsShape /\ ListsApart /\ DocsKnown /\ WholeInv /\ AskedInv /\ LeftInv /\ HiddenInv
  BY DEF SoundInv, PlacesInv, KeptInv
<1>2. PICK c \in Ids : IsNewest(c) /\ NewestInfos = [commit |-> c, barrels |-> commits[c].barrels]
  <2> DEFINE whole == {k \in Ids : commits[k].state = "whole"}
  <2>1. NewestInfos = IF whole = {} THEN NoBarrels ELSE InfosAt(CHOOSE k \in whole : \A j \in whole : j <= k)
    BY DEF NewestInfos
  <2>2. whole # {}
    BY <1>1 DEF WholeInv
  <2>3. MaxCommit \in Nat /\ whole \subseteq Nat /\ \A k \in whole : k \in Ids /\ k <= MaxCommit
    BY IdsAreNumbers DEF Ids
  <2> HIDE DEF whole
  <2>4. \E k \in whole : \A j \in whole : j <= k
    BY <2>2, <2>3, Largest
  <2>5. PICK k \in whole : k = (CHOOSE j \in whole : \A i \in whole : i <= j) /\ \A j \in whole : j <= k
    BY <2>4
  <2>6. NewestInfos = InfosAt(k) /\ k \in Ids
    BY <2>1, <2>2, <2>3, <2>5
  <2>7. IsNewest(k)
    BY <2>5 DEF IsNewest, whole
  <2> QED
    BY <2>6, <2>7, IdsAreNumbers DEF InfosAt
<1>3. PICK S, infos : S = Range(commits[c].barrels) /\ infos = NewestInfos
  OBVIOUS
<1>4. infos.commit = c /\ Range(infos.barrels) = S
  BY <1>2, <1>3
<1>5. ASSUME NEW b \in S
      PROVE  /\ b.id \in Ids /\ IsSequence(dirs[b.id].docs) /\ Len(dirs[b.id].docs) = b.count
             /\ DocsIn(b.id) = dirs[b.id].docs
  BY <1>1, <1>3, ListedBarrels DEF Intact, DocsShape
<1>6. Apart(S) /\ Holds(S)
  BY <1>1, <1>2, <1>3 DEF ListsApart, LeftInv
<1>7. ASSUME NEW b \in S
      PROVE  /\ FoundIn(b) = PieceOf(infos, b) /\ Range(PieceOf(infos, b)) \subseteq Range(dirs[b.id].docs)
             /\ Range(PieceOf(infos, b)) =
                  {dirs[b.id].docs[i] : i \in {i \in DOMAIN dirs[b.id].docs : i - 1 \notin LatestFilter(b.id, b.id, c)}}
  <2>1. Range(PieceOf(infos, b)) =
                  {dirs[b.id].docs[i] : i \in {i \in DOMAIN dirs[b.id].docs : i - 1 \notin LatestFilter(b.id, b.id, c)}}
    BY <1>4, <1>5, WithoutIsSequence DEF PieceOf
  <2>2. FoundIn(b) = PieceOf(infos, b)
    BY <1>3 DEF FoundIn, PieceOf
  <2> QED
    BY <2>1, <2>2 DEF Range
<1>8. Visible(infos) = UNION {Range(PieceOf(infos, b)) : b \in S}
  <2>1. ASSUME NEW b \in S
        PROVE  LET gone == LatestFilter(b.id, b.id, infos.commit)
                   docs == dirs[b.id].docs
               IN {docs[i] : i \in {i \in DOMAIN docs : i - 1 \notin gone}} = Range(PieceOf(infos, b))
    BY <1>4, <1>7
  <2> QED
    BY <1>4, <2>1 DEF Visible
<1>9. (1..handedIn) \ asked \subseteq Visible(infos)
  <2> SUFFICES ASSUME NEW x \in Left PROVE x \in Visible(infos)
    BY DEF Left
  <2>1. PICK b \in S : x \in Range(DocsIn(b.id))
    BY <1>6 DEF Holds
  <2>2. x \in Range(dirs[b.id].docs) /\ x \notin asked
    BY <1>5, <2>1 DEF Left
  <2>3. x \in Range(PieceOf(infos, b))
    BY <1>1, <1>4, <1>5, <2>2, MergeLeaves
  <2> QED
    BY <1>8, <2>3
<1>10. Visible(infos) \subseteq 1..handedIn
  BY <1>1, <1>5, <1>7, <1>8 DEF DocsKnown
<1>11. ASSUME NEW b \in S PROVE \E to : IsPiece(FoundIn(b), dirs[b.id].docs, to) /\ DOMAIN FoundIn(b) = 1..Len(FoundIn(b))
  <2>1. IsSequence(FoundIn(b))
    BY <1>5, WithoutIsSequence DEF FoundIn
  <2>2. \E to : IsPiece(FoundIn(b), dirs[b.id].docs, to)
    BY <1>5, PieceFrom DEF FoundIn
  <2> QED
    BY <2>1, <2>2, SequenceShape
<1>12. ASSUME NEW b \in S PROVE IsInjective(FoundIn(b))
  <2>1. PICK to : IsPiece(FoundIn(b), dirs[b.id].docs, to) /\ DOMAIN FoundIn(b) = 1..Len(FoundIn(b))
    BY <1>11
  <2>2. PICK w : w = FoundIn(b)
    OBVIOUS
  <2>3. ASSUME NEW k \in DOMAIN w, NEW l \in DOMAIN w, w[k] = w[l] PROVE k = l
    <3>1. k \in 1..Len(w) /\ l \in 1..Len(w)
      BY <2>1, <2>2
    <3>2. /\ to[k] \in 1..b.count /\ to[l] \in 1..b.count
          /\ DocsIn(b.id)[to[k]] = DocsIn(b.id)[to[l]]
      BY <1>5, <2>1, <2>2, <2>3, <3>1 DEF IsPiece
    <3>3. to[k] = to[l]
      BY <1>6, <3>2 DEF Apart
    <3> QED
      BY <2>1, <2>2, <3>1, <3>3 DEF IsPiece
  <2> QED
    BY <2>2, <2>3 DEF IsInjective
<1>13. ASSUME NEW b \in S, NEW d \in S, b # d PROVE Range(FoundIn(b)) \cap Range(FoundIn(d)) = {}
  <2> SUFFICES ASSUME NEW x \in Range(FoundIn(b)), x \in Range(FoundIn(d)) PROVE FALSE
    OBVIOUS
  <2>1. x \in Range(dirs[b.id].docs) /\ x \in Range(dirs[d.id].docs)
    BY <1>7
  <2>2. Range(dirs[b.id].docs) = {dirs[b.id].docs[p] : p \in 1..b.count}
    BY <1>5, SequenceShape
  <2>3. Range(dirs[d.id].docs) = {dirs[d.id].docs[q] : q \in 1..d.count}
    BY <1>5, SequenceShape
  <2>4. PICK p \in 1..b.count, q \in 1..d.count : DocsIn(b.id)[p] = DocsIn(d.id)[q]
    BY <1>5, <2>1, <2>2, <2>3
  <2> QED
    BY <1>6, <1>13, <2>4 DEF Apart
<1>14. ASSUME pc = "write", Len(work.infos.barrels) = 1 PROVE Range(work.docs) \subseteq Visible(infos)
  <2>1. pc \in Writes
    BY <1>14 DEF Writes
  <2>2. New - 1 \in Ids /\ commits[New - 1].state = "whole" /\ IsLast(New) /\ commits[New].state = "torn" /\ New \in Ids
    BY <1>1, <1>14, <2>1 DEF WholeInv, DiskInv, WorkIntact
  <2>3. New \in Nat /\ c \in Nat /\ c \in Listed /\ commits[c].state = "whole"
    BY <1>2, <2>2, IdIsNumber DEF IsNewest, Listed
  <2>4. c # New /\ c <= New /\ New - 1 <= c
    BY <1>2, <2>2, <2>3, IdsAreNumbers DEF IsNewest, IsLast
  <2>5. c + 1 = New
    BY <2>3, <2>4
  <2>6. Range(work.docs) \subseteq Visible(InfosAt(c))
    BY <1>1, <1>14, <2>1, <2>5 DEF HiddenInv
  <2>7. InfosAt(c) = infos
    BY <1>2, <1>3, IdsAreNumbers DEF InfosAt
  <2> QED
    BY <2>6, <2>7
<1> QED
  BY <1>3, <1>4, <1>9, <1>10, <1>12, <1>13, <1>14 DEF MergeKeepsDocuments, Newest

\* Whatever is merged, however the proposal was cut, and whenever the process crashes, a
\* reader of the newest commit finds every document that was not deleted, once; and a
\* merge of the whole index brings no deleted document back that is still hidden
\* (IndexMerger::merge, createMergedBarrelsInfo, initDeletionFilter): for any index that
\* has grown, with deletions in it, and either policy.
THEOREM MergesKeepDocuments == MergingSpec => []MergeKeepsDocuments
BY MergingKeeps, KeptIsPromised, PTL

-----------------------------------------------------------------------------
(* Batches reach the disk one by one                                       *)

\* A merge is of all the barrels at once: for no other is what follows true, since a
\* merge in parts may bring back a document that was deleted.
MergesAtOnce == Strategy # "dbt" /\ MaxCommit < MaxAllowedBarrels

\* A commit's barrels are numbered one after the other, up to its own id.
InRow(barrels, c) == \A i \in 1..Len(barrels) : barrels[i].id = c - Len(barrels) + i

\* Every commit's list, and the one in work.
RowInv ==
    /\ \A c \in Ids : InRow(commits[c].barrels, c)
    /\ pc \in Writes => InRow(work.infos.barrels, New)

\* What is written is the commit before and one barrel more, or, in a merge, one barrel
\* with what a reader of the commit before finds.
AddsBatch ==
    \E last \in Range(work.infos.barrels) :
        last.id = New /\ Range(work.infos.barrels) = Range(InfosAt(New - 1).barrels) \cup {last}

MakesOne ==
    /\ merging.proposals = <<>> /\ New - 1 \in Ids
    /\ \E last : last.id = New /\ Range(work.infos.barrels) = {last}
    /\ Range(work.docs) = Visible(InfosAt(New - 1))

\* What a write step is about to add: a batch behind the commit before it, or a merge of it.
StepInv ==
    /\ OwnPolicy
    /\ pc = "proposal" => merging.proposals = <<work.infos>>
    /\ pc \in Writes /\ New - 1 \in Ids => commits[New - 1].state = "whole"
    /\ BatchInWork => AddsBatch
    /\ pc \in Writes /\ merging # NotMerging => MakesOne

\* What is being built was handed in last.
HandedInv ==
    /\ \A i \in 1..Len(building.docs) : building.docs[i] = handedIn - Len(building.docs) + i
    /\ building.deleted \subseteq asked

\* No directory is newer than the next commit's, and that one has no deletion file yet.
DirsInv ==
    /\ \A d \in Ids : dirs[d].state # "absent" => d = 0 \/ \E c \in Listed : d <= c + 1
    /\ pc = "data" \/ (pc \in Writes /\ merging # NotMerging) => DOMAIN dirs[New].deletions = {}

\* Only what was asked for is deleted, in the files:
FilesAsked ==
    \A d, b \in Ids : HasFile(d, b) =>
        \A i \in DOMAIN dirs[b].docs : i - 1 \in dirs[d].deletions[b] => dirs[b].docs[i] \in asked

\* the same of the filter, for the keeper's barrels
BitsAsked ==
    Writing =>
        \A j \in 1..Len(keeper.barrels) : \A p \in 1..keeper.barrels[j].count :
            p - 1 \in bits[keeper.barrels[j].id] => DocsInKeeper(j)[p] \in asked

\* Each key is that of a document the keeper has.
KeysOnly ==
    Writing =>
        \A d \in DOMAIN keyIndex : \E j \in 1..Len(keeper.barrels) :
            \E p \in 1..keeper.barrels[j].count : DocsInKeeper(j)[p] = d

KnownIds == {b.id : b \in Range(keeper.barrels)}

\* The filter is of the keeper's barrels, and so is what is written of it.
FilterInv ==
    Writing =>
        /\ \A i \in 1..Len(filter) : filter[i].barrel \in Range(keeper.barrels)
        /\ \A k \in 1..Len(pending) : pending[k].dirty \subseteq KnownIds
        /\ pc \in Writes => work.dirty \subseteq KnownIds

\* The invariant under which every step is one of AtomicStore, or a stutter.
BatchInv ==
    /\ RowInv /\ StepInv /\ HandedInv /\ DirsInv
    /\ FilesAsked /\ BitsAsked /\ KeysOnly /\ FilterInv

\* One merge of all the barrels has what a reader finds.
LEMMA WholeMerge ==
  ASSUME SoundInv, StepInv, MergeProposal, NEW c \in Ids, c = New
  PROVE  /\ merging'.proposals = <<>> /\ New' = c + 1 /\ c + 1 \in Ids
         /\ \E last : last.id = c + 1 /\ Range(work.infos.barrels)' = {last}
         /\ Len(work.infos.barrels)' = 1
         /\ Range(work.docs') = Visible(InfosAt(c))
         /\ Visible(InfosAt(c))' = Visible(InfosAt(c))
<1>1. /\ pc = "proposal" /\ New' = New + 1 /\ New + 1 \in Ids
      /\ commits[New] = [state |-> "whole", barrels |-> work.infos.barrels]
      /\ dirs' = [dirs EXCEPT ![New + 1] = [NoDir EXCEPT !.state = "filling"]]
      /\ UNCHANGED commits
      /\ \E part, new, which, home : part = Head(merging.proposals) /\ IsMerge(part, new, which, home)
  BY MergedProposal
<1>2. merging.proposals = <<work.infos>>
  BY <1>1 DEF StepInv
<1>3. Head(<<work.infos>>) = work.infos /\ Tail(<<work.infos>>) = <<>>
  OBVIOUS
<1>4. PICK part, new, which, home : part = Head(merging.proposals) /\ IsMerge(part, new, which, home)
  BY <1>1
<1>5. merging'.proposals = <<>>
  <2>1. merging' = [merging EXCEPT !.proposals = Tail(merging.proposals)]
    BY DEF MergeProposal
  <2>2. merging = [policy |-> merging.policy, proposals |-> merging.proposals]
    BY DEF SoundInv, DiskInv, MemoryShape
  <2>3. merging'.proposals = Tail(merging.proposals)
    BY <2>1, <2>2
  <2> QED
    BY <1>2, <1>3, <2>3
<1>6. PICK infos, S : infos = work.infos /\ S = Range(commits[c].barrels)
  OBVIOUS
<1>7. part = infos /\ Range(infos.barrels) = S /\ infos.commit = c
  BY <1>1, <1>2, <1>3, <1>4, <1>6 DEF New
<1>8. /\ Range(work.infos.barrels)' = {new} /\ new.id = c + 1
      /\ Range(work.docs') = UNION {Range(PieceOf(infos, infos.barrels[i])) : i \in 1..Len(infos.barrels)}
      /\ Ordered(infos.barrels)
  BY <1>4, <1>6, <1>7 DEF IsMerge
<1>9. Len(work.infos.barrels)' = 1
  <2>1. Ordered(work.infos.barrels)'
    <3>1. [WriterNext]_storeVars
      BY DEF WriterNext, StoreNext, CommitThread
    <3>2. ListInv'
      BY <3>1, StepKeepsSound DEF SoundInv
    <3> QED
      BY <3>2 DEF ListInv, IsIndex
  <2>2. PICK list : list = work.infos.barrels'
    OBVIOUS
  <2>3. Ordered(list) /\ Range(list) = {new}
    BY <1>8, <2>1, <2>2 DEF Ordered
  <2>4. Len(list) \in Nat /\ Range(list) = {list[i] : i \in 1..Len(list)}
    BY <2>3, SequenceShape DEF Ordered
  <2>5. Len(list) # 0
    BY <2>3, <2>4
  <2>6. ASSUME Len(list) > 1 PROVE FALSE
    <3>1. 1 \in 1..Len(list) /\ 2 \in 1..Len(list) /\ 1 < 2
      BY <2>4, <2>6
    <3>2. list[1] = new /\ list[2] = new
      BY <2>3, <2>4, <3>1
    <3>3. list[1].id \in Ids /\ list[1].id < list[2].id
      BY <2>3, <3>1 DEF Ordered
    <3> QED
      BY <3>2, <3>3, IdIsNumber
  <2>7. Len(list) = 1
    <3>1. PICK n \in Nat : n = Len(list)
      BY <2>4
    <3>2. n # 0 /\ ~(n > 1)
      BY <2>5, <2>6, <3>1
    <3> QED
      BY <3>1, <3>2
  <2> QED
    BY <2>2, <2>7
<1>10. \A b \in S : b.id \in Ids /\ b.id <= c
  BY <1>6, ListedBarrels DEF SoundInv
<1>11. Range(work.docs') = Visible(InfosAt(c))
  <2>1. InfosAt(c) = [commit |-> c, barrels |-> commits[c].barrels]
    BY IdsAreNumbers DEF InfosAt
  <2>2. InfosAt(c).commit = c /\ Range(InfosAt(c).barrels) = S
    BY <1>6, <2>1
  <2>3. S = {infos.barrels[i] : i \in 1..Len(infos.barrels)}
    BY <1>7, <1>8, SequenceShape DEF Ordered
  <2>4. ASSUME NEW b \in S
        PROVE  Range(PieceOf(infos, b)) =
                 {dirs[b.id].docs[k] : k \in {k \in DOMAIN dirs[b.id].docs : k - 1 \notin LatestFilter(b.id, b.id, c)}}
    BY <1>7, <1>10, WithoutIsSequence DEF PieceOf, SoundInv, DocsShape
  <2>5. Range(work.docs') = UNION {Range(PieceOf(infos, b)) : b \in S}
    BY <1>8, <2>3
  <2>6. Visible(InfosAt(c)) =
           UNION {{dirs[b.id].docs[k] : k \in {k \in DOMAIN dirs[b.id].docs : k - 1 \notin LatestFilter(b.id, b.id, c)}} : b \in S}
    BY <2>2 DEF Visible
  <2> QED
    BY <2>4, <2>5, <2>6
<1>12. Visible(InfosAt(c))' = Visible(InfosAt(c))
  <2>1. ASSUME NEW d \in Ids, d <= c PROVE dirs'[d] = dirs[d]
    <3>1. d # c + 1
      BY <2>1, IdIsNumber
    <3> QED
      BY <1>1, <3>1 DEF SoundInv, DiskInv, DiskShape
  <2> QED
    BY <1>1, <2>1, VisibleStays DEF SoundInv
<1> QED
  BY <1>1, <1>5, <1>8, <1>9, <1>11, <1>12

LEMMA StoreStep == ASSUME [StoreNext]_storeVars PROVE [WriterNext]_storeVars
BY DEF WriterNext

\* Between two barrels of a commit no id is left.
LEMMA StepKeepsRow ==
  ASSUME SoundInv, PlacesInv, RowInv, StepInv, [StoreNext]_storeVars
  PROVE  RowInv'
<1>1. [WriterNext]_storeVars /\ DiskInv
  BY StoreStep DEF SoundInv
<1>2. ASSUME NEW c \in Ids PROVE InRow(commits[c].barrels, c)'
  <2>1. CASE commits'[c].barrels = commits[c].barrels
    BY <2>1 DEF RowInv, InRow
  <2>2. CASE commits'[c].barrels = <<>>
    <3>1. 1..Len(<<>>) = {}
      BY EmptySequence
    <3> QED
      BY <2>2, <3>1 DEF InRow
  <2>3. CASE WriteCommitFile /\ c = New /\ commits'[c].barrels = work.infos.barrels
    <3>1. pc \in Writes
      BY <2>3 DEF WriteCommitFile, Writes
    <3>2. InRow(work.infos.barrels, c)
      BY <2>3, <3>1 DEF RowInv
    <3> QED
      BY <2>3, <3>2 DEF InRow
  <2> QED
    BY <1>1, <2>1, <2>2, <2>3, CommitsGoOn
<1>3. ASSUME pc' \in Writes PROVE InRow(work.infos.barrels, New)'
  <2>1. CASE TakeBatch
    <3>1. PICK m, r, k : m = Committed /\ r = Reached /\ k = keeper.barrels
      OBVIOUS
    <3>2. /\ r \in Ids \cup {INVALID_COMMIT} /\ m \in Nat
          /\ Len(InfosAt(r).barrels) = m
          /\ \A i \in 1..m : InfosAt(r).barrels[i] = k[i]
          /\ New' = r + 1 /\ k[m + 1].id = r + 1
          /\ Len(work'.infos.barrels) = m + 1
          /\ \A i \in 1..(m + 1) : work'.infos.barrels[i] = k[i]
      BY <2>1, <3>1, TakenBatch
    <3>3. ASSUME NEW i \in 1..(m + 1) PROVE k[i].id = (r + 1) - (m + 1) + i
      <4>1. r \in Int
        BY <3>2, IdsAreNumbers
      <4>2. CASE i = m + 1
        BY <3>2, <4>1, <4>2
      <4>3. CASE i # m + 1
        <5>1. i \in 1..m
          BY <3>2, <4>3
        <5>2. r # INVALID_COMMIT
          BY <3>2, <5>1, EmptySequence DEF InfosAt, NoBarrels
        <5>3. r \in Ids /\ InfosAt(r).barrels = commits[r].barrels
          BY <3>2, <5>2 DEF InfosAt
        <5>4. commits[r].barrels[i].id = r - m + i
          BY <3>2, <5>1, <5>3 DEF RowInv, InRow
        <5> QED
          BY <3>2, <4>1, <5>1, <5>3, <5>4
      <4> QED
        BY <4>2, <4>3
    <3> QED
      BY <3>2, <3>3 DEF InRow
  <2>2. CASE MergeProposal
    <3>1. New \in Ids
      BY <2>2, MergedProposal
    <3>2. PICK c \in Ids : c = New
      BY <3>1
    <3>3. PICK last : last.id = c + 1 /\ Range(work.infos.barrels)' = {last}
      BY <2>2, <3>2, WholeMerge
    <3>4. Len(work.infos.barrels)' = 1 /\ New' = c + 1
      BY <2>2, <3>2, WholeMerge
    <3>5. ListInv'
      BY <1>1, StepKeepsSound DEF SoundInv
    <3>6. PICK list : list = work.infos.barrels'
      OBVIOUS
    <3>7. IsSequence(list) /\ Len(list) = 1 /\ Range(list) = {last}
      BY <3>3, <3>4, <3>5, <3>6 DEF ListInv, IsIndex, Ordered
    <3>8. list[1] = last
      BY <3>7, SequenceShape
    <3>9. ASSUME NEW i \in 1..Len(list) PROVE list[i].id = (c + 1) - Len(list) + i
      <4>1. i = 1 /\ c \in Int
        BY <3>7, IdIsNumber
      <4> QED
        BY <3>3, <3>7, <3>8, <4>1
    <3> QED
      BY <3>4, <3>6, <3>9 DEF InRow
  <2>3. CASE pc' \in Writes => pc \in Writes /\ UNCHANGED work
    <3>1. pc \in Writes /\ UNCHANGED work /\ New' = New
      BY <1>3, <2>3 DEF New
    <3>2. InRow(work.infos.barrels, New)
      BY <3>1 DEF RowInv
    <3> QED
      BY <3>1, <3>2 DEF InRow
  <2> QED
    BY <1>1, <2>1, <2>2, <2>3, WorkGoesOn
<1> QED
  BY <1>2, <1>3 DEF RowInv

\* A list that needs no more files than may be open is merged whole.
LEMMA WholeProposal ==
  ASSUME MergesAtOnce, NEW infos, IsIndex(infos), infos.commit \in Ids,
         InRow(infos.barrels, infos.commit), NEW policy \in {"nomerge", "optimize"}
  PROVE  LET parts == Parts(infos, Proposals(policy, infos))
         IN parts = <<>> \/ parts = <<infos>>
<1> DEFINE n == Len(infos.barrels)
           parts == Parts(infos, Proposals(policy, infos))
<1>1. n \in Nat
  BY SequenceShape DEF IsIndex, Ordered
<1>2. CASE n <= 1
  BY <1>2 DEF Parts
<1>3. CASE ~(n <= 1) /\ policy = "nomerge"
  <2>1. parts = FlattenSeq([i \in DOMAIN <<>> |-> Cut(<<>>[i])])
    BY <1>3 DEF Parts, Split, Proposals
  <2> DEFINE none == [i \in DOMAIN <<>> |-> Cut(<<>>[i])]
  <2>2. none = [i \in 1..0 |-> none[i]]
    OBVIOUS
  <2>3. parts = FlattenSeq(none)
    BY <2>1
  <2> HIDE DEF none, parts
  <2>4. IsSequence(none) /\ Len(none) = 0
    BY <2>2, FunctionSequence
  <2>5. none = <<>>
    BY <2>4, SequenceShape
  <2>6. FlattenSeq(<<>>) = <<>>
    BY DEF FlattenSeq
  <2> QED
    BY <2>3, <2>5, <2>6 DEF parts
<1>4. CASE ~(n <= 1) /\ policy = "optimize"
  <2>1. parts = Split(<<infos>>)
    BY <1>4 DEF Parts, Proposals
  <2>2. MaxAllowedBarrels \in Nat /\ MaxAllowedBarrels > 0 /\ MaxCommit < MaxAllowedBarrels /\ MaxCommit \in Nat
    BY SplitAssumption, IdsAreNumbers DEF MergesAtOnce
  <2>3. n <= MaxAllowedBarrels
    <3>1. 1 \in 1..n
      BY <1>1, <1>4
    <3>2. infos.barrels[1].id \in Ids /\ infos.barrels[1].id = infos.commit - n + 1
      BY <3>1 DEF InRow, IsIndex, Ordered
    <3>3. infos.commit \in 0..MaxCommit /\ infos.barrels[1].id \in 0..MaxCommit
      BY <3>2 DEF Ids
    <3> HIDE DEF n
    <3> QED
      BY <1>1, <2>2, <3>2, <3>3
  <2>4. Ceiling(n, MaxAllowedBarrels) = 1
    <3> HIDE DEF n
    <3>1. PICK q, m : q = Ceiling(n, MaxAllowedBarrels) /\ m = MaxAllowedBarrels
      OBVIOUS
    <3>2. q \in Nat /\ m \in Nat /\ m > 0 /\ q * m < n + m /\ n <= q * m /\ n <= m /\ n > 1
      BY <1>1, <1>4, <2>2, <2>3, <3>1, CeilingCovers
    <3>3. q # 0
      BY <1>1, <3>2
    <3>4. ASSUME q >= 2 PROVE FALSE
      <4>1. 2 * m <= q * m
        BY <3>2, <3>4, TimesGrows
      <4>2. PICK k : k = q * m
        OBVIOUS
      <4>3. k \in Nat
        BY <3>2, <4>2, TimesGrows
      <4> QED
        BY <1>1, <3>2, <4>1, <4>2, <4>3
    <3> QED
      BY <3>1, <3>2, <3>3, <3>4
  <2>5. Cut(infos) = <<infos>>
    BY <2>4 DEF Cut
  <2>6. [i \in DOMAIN <<infos>> |-> Cut(<<infos>>[i])] = << <<infos>> >>
    BY <2>5
  <2>7. parts = FlattenSeq(<< <<infos>> >>)
    BY <2>1, <2>6 DEF Split
  <2> HIDE DEF parts
  <2> QED
    BY <2>7, FlattenOne DEF parts
<1> QED
  BY <1>2, <1>3, <1>4

LEMMA WritesGoOn ==
  ASSUME DiskInv, [StoreNext]_storeVars, pc' \in Writes
  PROVE  \/ TakeBatch \/ MergeProposal
         \/ /\ pc \in Writes /\ UNCHANGED <<work, merging>>
            /\ UNCHANGED commits \/ CreateCommitFile
            /\ \A d \in Ids : d # New => dirs'[d] = dirs[d]
<1>1. [WriterNext]_storeVars
  BY StoreStep
<1>2. CASE TakeBatch \/ MergeProposal
  BY <1>2
<1>3. CASE /\ pc' \in Writes => pc \in Writes /\ UNCHANGED work
           /\ \A d \in Ids : pc' \in Writes /\ d # New => dirs'[d] = dirs[d]
  <2>1. pc \in Writes
    BY <1>3
  <2>2. UNCHANGED merging
    <3>1. CASE Open \/ Add \/ Seal \/ Close \/ \E d \in Documents : DeleteOnDisk(d) \/ DeleteInMemory(d)
      BY <3>1 DEF Open, Add, Seal, Close, DeleteOnDisk, DeleteInMemory
    <3>2. CASE LastMerge \/ Merge \/ MergeAborts \/ MergeProposal \/ Crash \/ Cleaned
      BY <2>1, <3>2 DEF LastMerge, MergeWith, Merge, MergeAborts, MergeProposal, Crash, Cleaned, Writes
    <3>3. CASE UNCHANGED storeVars
      BY <3>3 DEF storeVars, memory
    <3> QED
      BY <3>1, <3>2, <3>3 DEF StoreNext, CommitThread, TakeBatch, WriteData, WriteDeletions, WriteRest,
         CreateCommitFile, WriteCommitFile, DropCommit, Reserve, RemoveDir, memory
  <2>3. UNCHANGED commits \/ CreateCommitFile
    <3>1. ~WriteCommitFile
      BY DEF WriteCommitFile, Writes
    <3>2. ~DropCommit
      BY <2>1 DEF DropCommit, Writes
    <3> QED
      BY <1>1, <3>1, <3>2, CommitsChange
  <2> QED
    BY <1>3, <2>1, <2>2, <2>3
<1> QED
  BY <1>1, <1>2, <1>3, WorkGoesOn DEF DiskInv

LEMMA ProposalSteps ==
  ASSUME [StoreNext]_storeVars, pc' = "proposal"
  PROVE  Merge \/ WriteCommitFile \/ (pc = "proposal" /\ UNCHANGED <<work, merging>>)
<1>1. CASE Open \/ Add \/ Seal \/ Close \/ \E d \in Documents : DeleteOnDisk(d) \/ DeleteInMemory(d)
  BY <1>1 DEF Open, Add, Seal, Close, DeleteOnDisk, DeleteInMemory, thread
<1>2. CASE LastMerge \/ MergeAborts \/ MergeProposal \/ Crash \/ Cleaned
  BY <1>2 DEF LastMerge, MergeWith, MergeAborts, MergeProposal, Crash, Cleaned
<1>3. CASE UNCHANGED storeVars
  BY <1>3 DEF storeVars, memory, thread
<1> QED
  BY <1>1, <1>2, <1>3 DEF StoreNext, CommitThread, TakeBatch, WriteData, WriteDeletions, WriteRest,
     CreateCommitFile, DropCommit, Reserve, RemoveDir, memory

LEMMA StepKeepsStep ==
  ASSUME MergesAtOnce, SoundInv, PlacesInv, RowInv, StepInv, [StoreNext]_storeVars
  PROVE  StepInv'
<1>1. [WriterNext]_storeVars /\ DiskInv /\ OwnPolicy
  BY StoreStep DEF SoundInv, StepInv
<1>2. OwnPolicy'
  BY <1>1, StepKeepsPolicy
<1>3. ASSUME pc' = "proposal" PROVE merging'.proposals = <<work'.infos>>
  <2>1. CASE Merge
    <3>1. PICK c \in Ids \cup {INVALID_COMMIT} :
             LET parts == Parts(InfosAt(c), Proposals(merging.policy, InfosAt(c)))
             IN /\ parts # <<>>
                /\ work' = [NoWork EXCEPT !.infos = InfosAt(c)]
                /\ merging' = [merging EXCEPT !.proposals = parts]
      BY <1>3, <2>1 DEF Merge
    <3>2. merging.policy \in {"nomerge", "optimize"} /\ merging = [policy |-> merging.policy, proposals |-> merging.proposals]
      <4>1. merging # NotMerging
        BY <1>1, <2>1 DEF Merge, DiskInv, Phases
      <4> QED
        BY <1>1, <4>1, StrategyAssumption DEF OwnPolicy, MergesAtOnce, Policies, DiskInv, MemoryShape
    <3>3. work'.infos = InfosAt(c) /\ merging'.proposals = Parts(InfosAt(c), Proposals(merging.policy, InfosAt(c)))
      BY <3>1, <3>2 DEF NoWork
    <3>4. c \in Ids
      <4>1. c # INVALID_COMMIT
        BY <3>1, EmptySequence DEF InfosAt, NoBarrels, Parts
      <4> QED
        BY <4>1
    <3>5. IsIndex(InfosAt(c)) /\ InfosAt(c).commit = c /\ InfosAt(c).barrels = commits[c].barrels
      BY <3>4, IdsAreNumbers DEF SoundInv, ListInv, InfosAt
    <3>6. InRow(InfosAt(c).barrels, InfosAt(c).commit)
      BY <3>4, <3>5 DEF RowInv
    <3>7. PICK infos, policy : infos = InfosAt(c) /\ policy = merging.policy
      OBVIOUS
    <3>8. LET parts == Parts(infos, Proposals(policy, infos)) IN parts = <<>> \/ parts = <<infos>>
      BY <3>2, <3>4, <3>5, <3>6, <3>7, WholeProposal
    <3> QED
      BY <3>1, <3>3, <3>7, <3>8
  <2>2. CASE WriteCommitFile
    <3>1. merging.proposals # <<>> /\ pc \in Writes
      BY <1>3, <2>2 DEF WriteCommitFile, Writes
    <3>2. merging # NotMerging
      BY <3>1 DEF NotMerging
    <3> QED
      BY <3>1, <3>2 DEF StepInv, MakesOne
  <2>3. CASE pc = "proposal" /\ UNCHANGED <<work, merging>>
    BY <2>3 DEF StepInv
  <2> QED
    BY <1>3, <2>1, <2>2, <2>3, ProposalSteps
<1>4. ASSUME pc' \in Writes
      PROVE  /\ New' - 1 \in Ids => commits'[New' - 1].state = "whole"
             /\ merging' = NotMerging => AddsBatch'
             /\ merging' # NotMerging => MakesOne'
  <2>1. CASE TakeBatch
    <3>1. PICK c \in Ids \cup {INVALID_COMMIT} :
             /\ IsLast(c) /\ Readable(c) /\ c < MaxCommit
             /\ work' = [infos |-> NewBarrel(InfosAt(c), Head(pending).barrel.count,
                                             Head(pending).barrel.deleted),
                         docs  |-> Head(pending).docs,
                         dirty |-> Head(pending).dirty,
                         last  |-> Head(pending).last]
      BY <2>1 DEF TakeBatch
    <3>2. UNCHANGED <<commits, merging>> /\ merging = NotMerging
      BY <2>1, TakenBatch DEF Writing
    <3>3. IsIndex(InfosAt(c)) /\ InfosAt(c).commit = c
      BY <3>1, IdsAreNumbers, NoList DEF SoundInv, ListInv, InfosAt, NoBarrels
    <3>4. Head(pending).barrel.count \in Nat /\ Head(pending).barrel.deleted \in Nat
      <4>1. pending # <<>> /\ IsSequence(pending)
        BY <2>1 DEF TakeBatch, SoundInv, DiskInv, MemoryShape
      <4>2. 1 \in 1..Len(pending) /\ Head(pending) = pending[1] /\ DOMAIN pending = 1..Len(pending)
        BY <4>1, SequenceShape DEF IsSequence
      <4>3. pending[1].barrel.deleted \in Nat /\ IsSequence(pending[1].docs)
        BY <4>2 DEF SoundInv, DocsShape
      <4>4. pending[1].barrel.count = Len(pending[1].docs)
        BY <4>2 DEF SoundInv, DiskInv, MemoryShape
      <4> QED
        BY <4>2, <4>3, <4>4, SequenceShape
    <3>5. PICK infos, count, gone : /\ infos = InfosAt(c) /\ count = Head(pending).barrel.count
                                    /\ gone = Head(pending).barrel.deleted
      OBVIOUS
    <3>14. IsIndex(infos) /\ infos.commit < MaxCommit /\ count \in Nat /\ gone \in Nat
      BY <3>1, <3>3, <3>4, <3>5
    <3>6. LET list == NewBarrel(infos, count, gone)
              new == Last(list.barrels)
          IN /\ list.commit = infos.commit + 1
             /\ new = [id |-> infos.commit + 1, base |-> NextBase(infos), count |-> count, deleted |-> gone]
             /\ Range(list.barrels) = Range(infos.barrels) \cup {new}
      <4>1. LET list == NewBarrel(infos, count, gone)
                new == Last(list.barrels)
            IN /\ IsIndex(list) /\ list.commit = infos.commit + 1 /\ infos.commit + 1 \in Ids
               /\ Len(list.barrels) = Len(infos.barrels) + 1
               /\ \A i \in 1..Len(infos.barrels) : list.barrels[i] = infos.barrels[i]
               /\ list.barrels[Len(infos.barrels) + 1] = new
               /\ new = [id |-> infos.commit + 1, base |-> NextBase(infos), count |-> count, deleted |-> gone]
               /\ NextBase(infos) \in Nat
               /\ Range(list.barrels) = Range(infos.barrels) \cup {new}
        BY <3>14, NewBarrelExtends
      <4> QED
        BY ZenonT(40), <4>1
    <3>7. work'.infos = NewBarrel(infos, count, gone)
      BY <3>1, <3>5
    <3>8. New' = c + 1 /\ \E last : last.id = c + 1 /\ Range(work'.infos.barrels) = Range(InfosAt(c).barrels) \cup {last}
      BY <3>3, <3>5, <3>6, <3>7 DEF New
    <3>9. c \in Int /\ (c + 1) - 1 = c
      BY <3>1, IdsAreNumbers
    <3>10. c \in Ids => commits'[c].state = "whole"
      BY <3>1, <3>2 DEF Readable
    <3>11. InfosAt(c)' = InfosAt(c)
      BY <3>2 DEF InfosAt
    <3>12. InfosAt(New - 1)' = InfosAt(c)
      BY <3>8, <3>9, <3>11
    <3>13. AddsBatch'
      BY <3>8, <3>12 DEF AddsBatch
    <3> QED
      BY <3>2, <3>8, <3>9, <3>10, <3>13
  <2>2. CASE MergeProposal
    <3>1. New \in Ids /\ commits[New].state = "whole" /\ UNCHANGED commits /\ New' = New + 1
      BY <2>2, MergedProposal
    <3>2. PICK c \in Ids : c = New
      BY <3>1
    <3>3. (c + 1) - 1 = c
      BY <3>2, IdsAreNumbers
    <3>4. merging' # NotMerging
      <4>1. merging.policy \in Policies
        BY <1>1, <2>2 DEF MergeProposal, DiskInv, Phases
      <4>2. merging'.policy = merging.policy
        BY <1>1, <2>2 DEF MergeProposal, DiskInv, MemoryShape
      <4> QED
        BY <4>1, <4>2 DEF Policies, NotMerging
    <3>5. /\ merging'.proposals = <<>> /\ New' = c + 1
          /\ \E last : last.id = c + 1 /\ Range(work.infos.barrels)' = {last}
          /\ Range(work.docs') = Visible(InfosAt(c))
          /\ Visible(InfosAt(c))' = Visible(InfosAt(c))
      BY <2>2, <3>2, WholeMerge
    <3>6. Visible(InfosAt(New - 1))' = Visible(InfosAt(c))'
      BY <3>3, <3>5
    <3>7. MakesOne'
      BY <3>2, <3>3, <3>5, <3>6 DEF MakesOne
    <3> QED
      BY <3>1, <3>2, <3>3, <3>4, <3>7
  <2>3. CASE /\ pc \in Writes /\ UNCHANGED <<work, merging>>
             /\ UNCHANGED commits \/ CreateCommitFile
             /\ \A d \in Ids : d # New => dirs'[d] = dirs[d]
    <3>1. New' = New /\ New \in Ids
      BY <2>3, <1>1 DEF New, DiskInv, WorkIntact
    <3>2. ASSUME NEW c \in Ids, c = New - 1 PROVE commits'[c] = commits[c]
      <4>1. c # New
        BY <3>1, <3>2, IdsAreNumbers
      <4> QED
        BY <2>3, <4>1, <1>1 DEF CreateCommitFile, DiskInv, DiskShape
    <3>3. New - 1 \in Ids => commits'[New - 1].state = "whole"
      BY <2>3, <3>2 DEF StepInv
    <3>4. InfosAt(New - 1)' = InfosAt(New - 1)
      <4>1. New - 1 \in Ids \/ New - 1 = INVALID_COMMIT
        BY <3>1, IdsAreNumbers DEF Ids
      <4> QED
        BY <3>1, <3>2, <4>1, IdsAreNumbers DEF InfosAt
    <3>5. merging' = NotMerging => AddsBatch'
      <4>1. merging' = NotMerging => AddsBatch
        BY <2>3 DEF StepInv, BatchInWork, Writes
      <4> QED
        BY <2>3, <3>1, <3>4, <4>1 DEF AddsBatch
    <3>6. merging' # NotMerging => MakesOne'
      <4> SUFFICES ASSUME merging' # NotMerging PROVE MakesOne'
        OBVIOUS
      <4>1. MakesOne
        BY <2>3 DEF StepInv
      <4>2. PICK c \in Ids : c = New - 1
        BY <4>1 DEF MakesOne
      <4>3. ASSUME NEW d \in Ids, d <= c PROVE dirs'[d] = dirs[d]
        <5>1. d # New
          BY <3>1, <4>2, <4>3, IdIsNumber
        <5> QED
          BY <2>3, <5>1
      <4>4. Visible(InfosAt(c))' = Visible(InfosAt(c))
        BY <1>1, <3>2, <4>2, <4>3, VisibleStays
      <4>5. Visible(InfosAt(New - 1))' = Visible(InfosAt(c))'
        BY <3>1, <4>2
      <4> QED
        BY <2>3, <3>1, <4>1, <4>2, <4>4, <4>5 DEF MakesOne
    <3> QED
      BY <3>1, <3>3, <3>5, <3>6
  <2> QED
    BY <1>1, <1>4, <2>1, <2>2, <2>3, WritesGoOn
<1> QED
  BY <1>2, <1>3, <1>4 DEF StepInv, BatchInWork, Writes

LEMMA StepKeepsHanded == HandedInv /\ SoundInv /\ PlacesInv /\ [WriterNext]_storeVars => HandedInv'
<1> SUFFICES ASSUME HandedInv, SoundInv, PlacesInv, [WriterNext]_storeVars PROVE HandedInv'
  OBVIOUS
<1>1. CASE UNCHANGED <<building, handedIn>> /\ asked \subseteq asked'
  BY <1>1 DEF HandedInv
<1>2. CASE building' = NoBuilding
  <2>1. 1..Len(<<>>) = {}
    BY EmptySequence
  <2> QED
    BY <1>2, <2>1 DEF HandedInv, NoBuilding
<1>3. CASE Add
  <2>1. PICK s, h : s = building.docs /\ h = handedIn
    OBVIOUS
  <2>2. IsSequence(s) /\ h \in Nat
    BY <2>1 DEF SoundInv, DocsShape, PlacesInv, DocsKnown
  <2>3. building'.docs = Append(s, h + 1) /\ building'.deleted = building.deleted /\ handedIn' = h + 1 /\ asked' = asked
    BY <1>3, <2>1 DEF Add, SoundInv, DocsShape
  <2>4. /\ Len(building'.docs) = Len(s) + 1 /\ Len(s) \in Nat
        /\ \A i \in 1..Len(s) : building'.docs[i] = s[i]
        /\ building'.docs[Len(s) + 1] = h + 1
    BY <2>2, <2>3, AppendSequence, SequenceShape
  <2>5. \A i \in 1..Len(s) : s[i] = h - Len(s) + i
    BY <2>1 DEF HandedInv
  <2>6. ASSUME NEW i \in 1..Len(building'.docs)
        PROVE  building'.docs[i] = handedIn' - Len(building'.docs) + i
    <3>1. i \in 1..Len(s) \/ i = Len(s) + 1
      BY <2>4
    <3> QED
      BY <2>2, <2>3, <2>4, <2>5, <3>1
  <2> QED
    BY <2>3, <2>6 DEF HandedInv
<1>4. ASSUME NEW d \in Documents, DeleteInMemory(d) PROVE HandedInv'
  <2>1. /\ building'.docs = building.docs /\ building'.deleted = building.deleted \cup {d}
        /\ asked' = asked \cup {d} /\ handedIn' = handedIn
    BY <1>4 DEF DeleteInMemory, SoundInv, DocsShape
  <2> QED
    BY <2>1 DEF HandedInv
<1>5. CASE Open \/ \E d \in Documents : DeleteOnDisk(d)
  BY <1>1, <1>5 DEF Open, DeleteOnDisk, history
<1>6. CASE Seal \/ Close \/ Forgotten
  BY <1>2, <1>6 DEF Seal, Close, Forgotten
<1> QED
  BY <1>1, <1>3, <1>4, <1>5, <1>6, ThreadSteps

LEMMA DataSteps ==
  ASSUME [StoreNext]_storeVars, pc' = "data", ~TakeBatch, ~MergeProposal
  PROVE  pc = "data"
<1>1. CASE Open \/ Add \/ Seal \/ Close \/ \E d \in Documents : DeleteOnDisk(d) \/ DeleteInMemory(d)
  BY <1>1 DEF Open, Add, Seal, Close, DeleteOnDisk, DeleteInMemory, thread
<1>2. CASE UNCHANGED storeVars
  BY <1>2 DEF storeVars, thread
<1> QED
  BY <1>1, <1>2 DEF StoreNext, CommitThread, LastMerge, MergeWith, WriteData, WriteDeletions, WriteRest,
     CreateCommitFile, WriteCommitFile, DropCommit, Reserve, RemoveDir, Cleaned, Merge, MergeAborts, Crash

LEMMA StepKeepsDirs ==
  ASSUME SoundInv, PlacesInv, DirsInv, [StoreNext]_storeVars
  PROVE  DirsInv'
<1>1. [WriterNext]_storeVars /\ DiskInv
  BY StoreStep DEF SoundInv
<1>2. ASSUME NEW d \in Ids, dirs'[d].state # "absent"
      PROVE  d = 0 \/ \E c \in Listed' : d <= c + 1
  <2>1. ASSUME NEW c \in Listed, d <= c + 1 PROVE \E k \in Listed' : d <= k + 1
    <3>1. PICK k \in Listed' : c <= k
      BY <1>1, ListedGoOn
    <3>2. c \in Int /\ k \in Int /\ d \in Int
      BY IdIsNumber DEF Listed
    <3> QED
      BY <2>1, <3>1, <3>2
  <2>2. CASE dirs[d].state # "absent"
    BY <2>1, <2>2 DEF DirsInv
  <2>3. CASE TakeBatch /\ d = Reached + 1
    <3>1. Reached \in Ids \cup {INVALID_COMMIT} /\ IsLast(Reached)
      BY <2>3, TakenBatch
    <3>2. CASE Reached = INVALID_COMMIT
      BY <2>3, <3>2, IdsAreNumbers
    <3>3. CASE Reached \in Listed
      <4>1. d <= Reached + 1
        BY <2>3, IdIsNumber
      <4> QED
        BY <2>1, <3>3, <4>1
    <3> QED
      BY <3>1, <3>2, <3>3 DEF IsLast
  <2>4. CASE MergeProposal /\ d = New + 1
    <3>1. New \in Listed
      BY <2>4, MergedProposal DEF Listed
    <3>2. d <= New + 1
      BY <2>4, IdIsNumber
    <3> QED
      BY <2>1, <3>1, <3>2
  <2>5. dirs'[d].state = "absent" \/ dirs[d].state # "absent" \/ (TakeBatch /\ d = Reached + 1) \/ (MergeProposal /\ d = New + 1)
    <3>1. CASE UNCHANGED dirs
      BY <3>1
    <3>2. CASE WriteData \/ WriteDeletions \/ WriteRest
      <4>1. pc \in Writes \ {"write"} /\ (d # New => dirs'[d] = dirs[d])
        BY <1>1, <3>2 DEF WriteData, WriteDeletions, WriteRest, Writes, DiskInv, DiskShape
      <4>2. New \in Ids /\ dirs[New].state # "absent"
        BY <1>1, <4>1 DEF DiskInv, WorkIntact
      <4> QED
        BY <4>1, <4>2
    <3>3. CASE TakeBatch
      <4>1. dirs' = [dirs EXCEPT ![Reached + 1] = [NoDir EXCEPT !.state = "filling"]]
        BY <3>3, TakenBatch
      <4> QED
        BY <1>1, <3>3, <4>1 DEF DiskInv, DiskShape
    <3>4. CASE MergeProposal
      BY <1>1, <3>4, MergedProposal DEF DiskInv, DiskShape
    <3>5. CASE RemoveDir
      BY <1>1, <3>5 DEF RemoveDir, DiskInv, DiskShape, NoDir
    <3> QED
      BY <1>1, <3>1, <3>2, <3>3, <3>4, <3>5, DirSteps
  <2> QED
    BY <1>2, <2>2, <2>3, <2>4, <2>5
<1>3. ASSUME pc' = "data" \/ (pc' \in Writes /\ merging' # NotMerging)
      PROVE  DOMAIN dirs'[New'].deletions = {}
  <2>1. pc' \in Writes
    BY <1>3 DEF Writes
  <2>2. CASE TakeBatch
    <3>1. New' = Reached + 1 /\ Reached + 1 \in Ids /\ dirs' = [dirs EXCEPT ![Reached + 1] = [NoDir EXCEPT !.state = "filling"]]
      BY <2>2, TakenBatch
    <3>2. dirs'[Reached + 1] = [NoDir EXCEPT !.state = "filling"]
      BY <1>1, <3>1 DEF DiskInv, DiskShape
    <3> QED
      BY <3>1, <3>2 DEF NoDir
  <2>3. CASE MergeProposal
    <3>1. New' = New + 1 /\ New + 1 \in Ids /\ dirs' = [dirs EXCEPT ![New + 1] = [NoDir EXCEPT !.state = "filling"]]
      BY <2>3, MergedProposal
    <3>2. dirs'[New + 1] = [NoDir EXCEPT !.state = "filling"]
      BY <1>1, <3>1 DEF DiskInv, DiskShape
    <3> QED
      BY <3>1, <3>2 DEF NoDir
  <2>4. CASE pc \in Writes /\ UNCHANGED <<work, merging>>
    <3>1. New' = New /\ New \in Ids
      BY <1>1, <2>4 DEF New, DiskInv, WorkIntact
    <3>2. dirs[New] = [state |-> dirs[New].state, docs |-> dirs[New].docs, deletions |-> dirs[New].deletions]
      BY <1>1, <3>1 DEF DiskInv, DiskShape, IsDir
    <3>3. CASE UNCHANGED dirs \/ WriteData \/ WriteRest
      <4>1. dirs'[New].deletions = dirs[New].deletions
        BY <1>1, <3>1, <3>2, <3>3 DEF WriteData, WriteRest, DiskInv, DiskShape
      <4>2. pc = "data" \/ merging # NotMerging
        <5> SUFFICES ASSUME merging = NotMerging PROVE pc = "data"
          OBVIOUS
        <5>1. pc' = "data"
          BY <1>3, <2>4
        <5>2. CASE TakeBatch \/ MergeProposal
          BY <2>4, <5>2 DEF TakeBatch, MergeProposal, Writes
        <5>3. CASE ~(TakeBatch \/ MergeProposal)
          BY <5>1, <5>3, DataSteps
        <5> QED
          BY <5>2, <5>3
      <4> QED
        BY <2>4, <3>1, <4>1, <4>2 DEF DirsInv
    <3>4. CASE WriteDeletions
      <4>1. merging # NotMerging
        BY <1>3, <2>4, <3>4 DEF WriteDeletions
      <4>2. work.dirty = {} /\ DOMAIN dirs[New].deletions = {}
        BY <1>1, <2>4, <4>1 DEF DirsInv, DiskInv, Phases
      <4>3. DOMAIN dirs'[New].deletions = {} \/ dirs'[New].deletions = dirs[New].deletions
        BY <1>1, <3>1, <3>2, <3>4, <4>2 DEF WriteDeletions, DiskInv, DiskShape
      <4> QED
        BY <3>1, <4>2, <4>3
    <3>5. CASE TakeBatch \/ MergeProposal \/ RemoveDir
      BY <2>4, <3>5 DEF TakeBatch, MergeProposal, RemoveDir, Writes
    <3> QED
      BY <1>1, <3>3, <3>4, <3>5, DirSteps
  <2> QED
    BY <1>1, <2>1, <2>2, <2>3, <2>4, WritesGoOn
<1> QED
  BY <1>2, <1>3 DEF DirsInv

LEMMA AskedGrows == ASSUME [WriterNext]_storeVars PROVE asked \subseteq asked'
<1>1. CASE \E d \in Documents : DeleteOnDisk(d) \/ DeleteInMemory(d)
  BY <1>1 DEF DeleteOnDisk, DeleteInMemory
<1>2. CASE Open \/ Add \/ Seal \/ Close
  BY <1>2 DEF Open, Add, Seal, Close, history
<1> QED
  BY <1>1, <1>2, ThreadSteps

\* The filter of the writer that is committed is that of barrels the keeper knows, each
\* of them on disk.
LEMMA WrittenBits ==
  ASSUME SoundInv, PlacesInv, BitsAsked, FilterInv, pc = "deletions", NEW b \in work.dirty, b \in Ids, b <= New,
         NEW i \in DOMAIN dirs[b].docs, i - 1 \in bits[b]
  PROVE  dirs[b].docs[i] \in asked
<1>1. pc \in Writes /\ DiskInv /\ New \in Ids
  BY DEF Writes, SoundInv, DiskInv, WorkIntact
<1>2. Writing
  BY <1>1 DEF DiskInv, Phases, Writing
<1>3. PICK j \in 1..Len(keeper.barrels) : keeper.barrels[j].id = b
  <2>1. b \in KnownIds /\ IsIndex(keeper)
    BY <1>1, <1>2 DEF FilterInv, PlacesInv, KeeperInv
  <2>2. Range(keeper.barrels) = {keeper.barrels[j] : j \in 1..Len(keeper.barrels)}
    BY <2>1, SequenceShape DEF IsIndex, Ordered
  <2> QED
    BY <2>1, <2>2 DEF KnownIds
<1>4. New = Reached /\ CurrentList = work.infos
  BY <1>1, <1>2 DEF SoundInv, DeletionsInv, KeeperAhead, CurrentList
<1>5. /\ Len(pending) \in Nat /\ Committed \in Nat /\ Len(keeper.barrels) = Committed + Len(pending)
      /\ Len(work.infos.barrels) = Committed
      /\ \A k \in 1..Committed : work.infos.barrels[k] = keeper.barrels[k]
      /\ \A k \in 1..Len(pending) : keeper.barrels[Committed + k].id = New + k
  <2>1. Len(pending) \in Nat
    BY <1>1, SequenceShape DEF DiskInv, MemoryShape
  <2>2. Len(keeper.barrels) \in Nat
    BY <1>2, SequenceShape DEF PlacesInv, KeeperInv, IsIndex, Ordered
  <2>3. Committed \in Nat /\ Len(keeper.barrels) = Committed + Len(pending)
    BY <1>2, <2>1, <2>2 DEF PlacesInv, KeeperInv, Committed
  <2>4. /\ Len(work.infos.barrels) = Committed
        /\ \A k \in 1..Committed : work.infos.barrels[k] = keeper.barrels[k]
        /\ \A k \in 1..Len(pending) : /\ pending[k].barrel = keeper.barrels[Committed + k]
                                      /\ pending[k].barrel.id = New + k
    BY <1>2, <1>4 DEF PlacesInv, KeeperInv
  <2> QED
    BY <2>1, <2>3, <2>4
<1>6. j \in 1..Committed
  <2>1. CASE ~(j <= Committed)
    <3>1. j - Committed \in 1..Len(pending) /\ j = Committed + (j - Committed)
      BY <1>5, <2>1
    <3>2. b = New + (j - Committed)
      BY <1>3, <1>5, <3>1
    <3>3. New \in Int /\ b \in Int
      BY <1>1, IdIsNumber
    <3> QED
      BY <1>5, <3>1, <3>2, <3>3
  <2> QED
    BY <1>5, <2>1
<1>7. PICK e : e = keeper.barrels[j]
  OBVIOUS
<1>8. e \in Range(work.infos.barrels) /\ e.id = b
  <2>1. e = work.infos.barrels[j] /\ j \in 1..Len(work.infos.barrels)
    BY <1>5, <1>6, <1>7
  <2>2. IsSequence(work.infos.barrels)
    BY <1>1 DEF DiskInv, ThreadShape, IsList
  <2> QED
    BY <1>3, <1>7, <2>1, <2>2, SequenceShape
<1>9. DocsInKeeper(j) = dirs[b].docs /\ Len(dirs[b].docs) = e.count
  <2>1. DocsInKeeper(j) = DocsIn(b)
    BY <1>3, <1>6 DEF DocsInKeeper
  <2>2. dirs[New].docs = work.docs
    BY <1>1 DEF DiskInv, WorkIntact
  <2>3. DocsIn(b) = dirs[b].docs
    BY <2>2 DEF DocsIn
  <2>4. (e.id = New /\ e.count = Len(work.docs)) \/ Intact(e)
    BY <1>1, <1>8 DEF DiskInv, WorkIntact
  <2> QED
    BY <1>8, <2>1, <2>2, <2>3, <2>4 DEF Intact
<1>10. i \in 1..e.count
  <2>1. IsSequence(dirs[b].docs)
    BY DEF SoundInv, DocsShape
  <2> QED
    BY <1>9, <2>1, SequenceShape
<1> QED
  BY <1>2, <1>3, <1>7, <1>9, <1>10 DEF BitsAsked

LEMMA FillingFiles ==
  ASSUME SoundInv, DirsInv, WriteData, NEW d \in Ids
  PROVE  ~HasFile(d, New)
<1>1. DiskInv /\ pc = "data" /\ pc \in Writes
  BY DEF SoundInv, WriteData, Writes
<1>2. New \in Ids /\ IsLast(New - 1) /\ DOMAIN dirs[New].deletions = {}
  BY <1>1 DEF DiskInv, WorkIntact, DirsInv
<1> SUFFICES ASSUME HasFile(d, New) PROVE FALSE
  OBVIOUS
<1>3. d \in Int /\ New \in Int /\ New <= d /\ New # d /\ New >= 0
  BY <1>2, IdIsNumber DEF HasFile, Ids
<1>4. dirs[d].state # "absent"
  BY <1>1 DEF HasFile, DiskInv, DiskShape, IsDir
<1>5. PICK c \in Listed : d <= c + 1
  BY <1>3, <1>4 DEF DirsInv
<1>6. c \in Int /\ c <= New - 1
  <2>1. \A k \in Listed : k <= New - 1
    BY <1>2, <1>5 DEF IsLast
  <2> QED
    BY <2>1, IdIsNumber DEF Listed
<1> QED
  BY <1>3, <1>5, <1>6

LEMMA StepKeepsFilesAsked ==
  ASSUME SoundInv, PlacesInv, DirsInv, FilesAsked, BitsAsked, FilterInv, [WriterNext]_storeVars
  PROVE  FilesAsked'
<1>1. DiskInv /\ asked \subseteq asked'
  BY AskedGrows DEF SoundInv
<1>2. SUFFICES ASSUME NEW d \in Ids, NEW b \in Ids, HasFile(d, b)', NEW i \in DOMAIN dirs'[b].docs,
                      i - 1 \in dirs'[d].deletions[b]
               PROVE  dirs'[b].docs[i] \in asked'
  BY DEF FilesAsked
<1>3. CASE HasFile(d, b) /\ dirs'[d].deletions = dirs[d].deletions /\ dirs'[b].docs = dirs[b].docs
  BY <1>1, <1>2, <1>3 DEF FilesAsked
<1>4. CASE UNCHANGED dirs
  BY <1>2, <1>3, <1>4 DEF HasFile
<1>5. CASE WriteData
  <2>1. New \in Ids
    BY <1>1, <1>5 DEF WriteData, Writes, DiskInv, WorkIntact
  <2>2. /\ \A x \in Ids : x # New => dirs'[x] = dirs[x]
        /\ \A x \in Ids : dirs'[x].deletions = dirs[x].deletions
    BY <1>1, <1>5, <2>1 DEF WriteData, DiskInv, DiskShape, IsDir
  <2>3. HasFile(d, b)
    BY <1>2, <2>2 DEF HasFile
  <2>4. b # New
    BY <1>5, <2>3, FillingFiles
  <2> QED
    BY <1>3, <2>2, <2>3, <2>4
<1>6. CASE WriteRest
  <2>1. \A x \in Ids : dirs'[x].deletions = dirs[x].deletions /\ dirs'[x].docs = dirs[x].docs
    BY <1>1, <1>6 DEF WriteRest, DiskInv, DiskShape, IsDir
  <2> QED
    BY <1>2, <1>3, <2>1 DEF HasFile
<1>7. CASE WriteDeletions
  <2>1. New \in Ids /\ pc = "deletions"
    BY <1>1, <1>7 DEF WriteDeletions, Writes, DiskInv, WorkIntact
  <2>2. \A x \in Ids : dirs'[x].docs = dirs[x].docs /\ (x # New => dirs'[x] = dirs[x])
    BY <1>1, <1>7, <2>1 DEF WriteDeletions, DiskInv, DiskShape, IsDir
  <2>3. CASE dirs'[d].deletions = dirs[d].deletions
    BY <1>2, <1>3, <2>2, <2>3 DEF HasFile
  <2>4. CASE d = New /\ dirs'[d].deletions = [x \in work.dirty |-> bits[x]]
    <3>1. b \in work.dirty /\ b <= New /\ i - 1 \in bits[b] /\ i \in DOMAIN dirs[b].docs
      BY <1>2, <2>2, <2>4 DEF HasFile
    <3>2. dirs[b].docs[i] \in asked
      BY <2>1, <3>1, WrittenBits
    <3> QED
      BY <1>1, <2>2, <3>2
  <2>5. dirs'[d].deletions = dirs[d].deletions \/ (d = New /\ dirs'[d].deletions = [x \in work.dirty |-> bits[x]])
    <3>1. dirs'[New] \in {dirs[New], [dirs[New] EXCEPT !.deletions = [x \in work.dirty |-> bits[x]]]}
      BY <1>1, <1>7, <2>1 DEF WriteDeletions, DiskInv, DiskShape
    <3>2. dirs[New] = [state |-> dirs[New].state, docs |-> dirs[New].docs, deletions |-> dirs[New].deletions]
      BY <1>1, <2>1 DEF DiskInv, DiskShape, IsDir
    <3> QED
      BY <2>2, <3>1, <3>2
  <2> QED
    BY <2>3, <2>4, <2>5
<1>8. ASSUME NEW x \in Ids, \A y \in Ids : y # x => dirs'[y] = dirs[y],
             dirs'[x].docs = <<>>, DOMAIN dirs'[x].deletions = {}
      PROVE  dirs'[b].docs[i] \in asked'
  <2>1. d # x
    BY <1>2, <1>8 DEF HasFile
  <2>2. b # x
    <3>1. DOMAIN <<>> = {}
      OBVIOUS
    <3> QED
      BY <1>2, <1>8, <3>1
  <2> QED
    BY <1>2, <1>3, <1>8, <2>1, <2>2 DEF HasFile
<1>9. CASE TakeBatch
  <2>1. Reached + 1 \in Ids /\ dirs' = [dirs EXCEPT ![Reached + 1] = [NoDir EXCEPT !.state = "filling"]]
    BY <1>9, TakenBatch
  <2>2. PICK x \in Ids : x = Reached + 1
    BY <2>1
  <2>3. dirs'[x].docs = <<>> /\ DOMAIN dirs'[x].deletions = {} /\ \A y \in Ids : y # x => dirs'[y] = dirs[y]
    BY <1>1, <2>1, <2>2 DEF NoDir, DiskInv, DiskShape
  <2> QED
    BY <1>8, <2>3
<1>10. CASE MergeProposal
  <2>1. New + 1 \in Ids /\ dirs' = [dirs EXCEPT ![New + 1] = [NoDir EXCEPT !.state = "filling"]]
    BY <1>10, MergedProposal
  <2>2. PICK x \in Ids : x = New + 1
    BY <2>1
  <2>3. dirs'[x].docs = <<>> /\ DOMAIN dirs'[x].deletions = {} /\ \A y \in Ids : y # x => dirs'[y] = dirs[y]
    BY <1>1, <2>1, <2>2 DEF NoDir, DiskInv, DiskShape
  <2> QED
    BY <1>8, <2>3
<1>11. CASE RemoveDir
  <2>1. PICK x \in stale : dirs' = [dirs EXCEPT ![x] = NoDir]
    BY <1>11 DEF RemoveDir
  <2>2. x \in Ids
    BY <1>1, <2>1 DEF DiskInv, ThreadShape
  <2>3. dirs'[x].docs = <<>> /\ DOMAIN dirs'[x].deletions = {} /\ \A y \in Ids : y # x => dirs'[y] = dirs[y]
    BY <1>1, <2>1, <2>2 DEF NoDir, DiskInv, DiskShape
  <2> QED
    BY <1>8, <2>2, <2>3
<1> QED
  BY <1>4, <1>5, <1>6, <1>7, <1>9, <1>10, <1>11, DirSteps

\* A document id belongs to one barrel, and one place in it.
LEMMA PlaceIsOne ==
  ASSUME NEW s, Ordered(s), NEW i \in 1..Len(s), NEW k \in 1..Len(s),
         NEW p \in 1..s[i].count, NEW q \in 1..s[k].count, s[i].base + p = s[k].base + q
  PROVE  i = k /\ p = q
<1>1. PICK b, d : b = s[i] /\ d = s[k]
  OBVIOUS
<1>2. Len(s) \in Nat
  BY SequenceShape DEF Ordered
<1>3. b.base \in Nat /\ b.count \in Nat /\ d.base \in Nat /\ d.count \in Nat
  BY <1>1 DEF Ordered
<1>4. i < k => b.base + b.count <= d.base
  BY <1>1 DEF Ordered
<1>5. k < i => d.base + d.count <= b.base
  BY <1>1 DEF Ordered
<1>6. p \in Int /\ 1 <= p /\ p <= b.count /\ q \in Int /\ 1 <= q /\ q <= d.count /\ b.base + p = d.base + q
  BY <1>1, <1>3
<1>7. ~(i < k) /\ ~(k < i)
  BY SMTT(60), <1>3, <1>4, <1>5, <1>6
<1>8. i = k
  BY <1>2, <1>7
<1>9. b = d
  BY <1>1, <1>8
<1> QED
  BY <1>3, <1>6, <1>8, <1>9

LEMMA KeyIsPlace ==
  ASSUME KeeperInv, KeysInv, KeysOnly, Writing,
         NEW j \in 1..Len(keeper.barrels), NEW p \in 1..keeper.barrels[j].count,
         NEW d \in DOMAIN keyIndex, keyIndex[d] = keeper.barrels[j].base + p - 1
  PROVE  DocsInKeeper(j)[p] = d
<1>1. Ordered(keeper.barrels)
  BY DEF KeeperInv, IsIndex
<1>0. PICK i \in 1..Len(keeper.barrels) : \E q \in 1..keeper.barrels[i].count : DocsInKeeper(i)[q] = d
  BY DEF KeysOnly
<1>2. PICK q \in 1..keeper.barrels[i].count : DocsInKeeper(i)[q] = d
  BY <1>0
<1>3. keyIndex[d] = keeper.barrels[i].base + q - 1
  BY <1>2 DEF KeysInv
<1>4. keeper.barrels[i].base + q = keeper.barrels[j].base + p
  <2>1. PICK x, y : x = keeper.barrels[i] /\ y = keeper.barrels[j]
    OBVIOUS
  <2>0. x.base \in Nat /\ y.base \in Nat /\ x.count \in Nat /\ y.count \in Nat
    BY <1>1, <2>1 DEF Ordered
  <2>2. x.base \in Nat /\ y.base \in Nat /\ q \in Int /\ p \in Int
    BY <2>0, <2>1
  <2>3. x.base + q - 1 = y.base + p - 1
    BY <1>3, <2>1
  <2>4. x.base + q = y.base + p
    <3>1. PICK a \in Int : a = x.base
      BY <2>2
    <3>2. PICK b \in Int : b = y.base
      BY <2>2
    <3>3. a + q - 1 = b + p - 1
      BY <2>3, <3>1, <3>2
    <3>4. q \in Int /\ p \in Int
      BY <2>2
    <3>5. a + q = b + p
      BY <3>3, <3>4
    <3> QED
      BY <3>1, <3>2, <3>5
  <2> QED
    BY <2>1, <2>4
<1>5. PICK s : s = keeper.barrels
  OBVIOUS
<1>6. i = j /\ q = p
  <2>1. Ordered(s) /\ i \in 1..Len(s) /\ j \in 1..Len(s) /\ q \in 1..s[i].count /\ p \in 1..s[j].count
        /\ s[i].base + q = s[j].base + p
    BY <1>1, <1>4, <1>5
  <2> HIDE <1>5
  <2> QED
    BY <2>1, PlaceIsOne
<1> QED
  BY <1>2, <1>6

\* Where the keeper and its keys stay, so do the documents, in whatever directory.
LEMMA DocsRemain ==
  ASSUME KeeperInv, KeysInv, KeysOnly, Writing, KeysInv', Writing', UNCHANGED <<keeper, keyIndex>>,
         NEW j \in 1..Len(keeper.barrels), NEW p \in 1..keeper.barrels[j].count
  PROVE  DocsInKeeper(j)'[p] = DocsInKeeper(j)[p]
<1>1. PICK d : d = DocsInKeeper(j)'[p]
  OBVIOUS
<1>2. d \in DOMAIN keyIndex /\ keyIndex[d] = keeper.barrels[j].base + p - 1
  BY <1>1 DEF KeysInv
<1>3. DocsInKeeper(j)[p] = d
  BY <1>2, KeyIsPlace
<1> QED
  BY <1>1, <1>3

\* a batch, of documents or of deletions only, goes to the commit thread
SealsBatch ==
    /\ status = "open"
    /\ SealDocuments \/ SealDeletions
    /\ building' = NoBuilding /\ UNCHANGED <<commits, dirs, pc, work, handedIn, asked>>

LEMMA WriterSteps ==
  ASSUME DiskInv, [StoreNext]_storeVars, Writing'
  PROVE  \/ Open
         \/ /\ Writing
            /\ \/ SealsBatch
               \/ \E d \in Documents : DeleteOnDisk(d)
               \/ UNCHANGED <<keeper, filter, bits, keyIndex>> /\ (TakeBatch \/ UNCHANGED pending)
<1>1. [WriterNext]_storeVars
  BY StoreStep
<1>2. Open \/ Writing
  <2>1. CASE LastMerge \/ Merge \/ MergeAborts \/ MergeProposal \/ Crash
    BY <2>1, NoLongerWriting, LastMergeIsAny
  <2>2. CASE UNCHANGED merging
    <3>1. CASE Add \/ Seal \/ Close \/ \E d \in Documents : DeleteOnDisk(d) \/ DeleteInMemory(d)
      BY <2>2, <3>1 DEF Add, Seal, Close, DeleteOnDisk, DeleteInMemory, Writing
    <3>2. CASE UNCHANGED status
      BY <2>2, <3>2 DEF Writing
    <3>3. CASE Cleaned
      BY <3>3 DEF Cleaned, memory, Writing
    <3> QED
      BY <1>1, <3>1, <3>2, <3>3, <2>1 DEF StoreNext, CommitThread, TakeBatch, WriteData, WriteDeletions, WriteRest,
         CreateCommitFile, WriteCommitFile, DropCommit, Reserve, RemoveDir, memory, storeVars
  <2>3. CASE Cleaned
    BY <2>3 DEF Cleaned, memory, Writing
  <2> QED
    BY <2>1, <2>2, <2>3 DEF StoreNext, CommitThread, TakeBatch, WriteData, WriteDeletions, WriteRest,
       CreateCommitFile, WriteCommitFile, DropCommit, Reserve, RemoveDir, memory, storeVars,
       Open, Add, Seal, Close, DeleteOnDisk, DeleteInMemory
<1>3. CASE Seal \/ Close
  <2>1. status = "open" /\ building' = NoBuilding /\ UNCHANGED <<commits, dirs, pc, work, handedIn, asked>>
    BY <1>3 DEF Seal, Close, disk, thread, history
  <2>2. SealDocuments \/ SealDeletions \/ UNCHANGED <<keeper, filter, bits, keyIndex, pending>>
    BY <1>3 DEF Seal, Close
  <2>3. ~Open
    BY <2>1 DEF Open
  <2> QED
    BY <1>2, <2>1, <2>2, <2>3 DEF SealsBatch
<1>4. CASE Add \/ \E d \in Documents : DeleteInMemory(d)
  BY <1>2, <1>4 DEF Add, DeleteInMemory
<1>5. CASE Forgotten /\ status' \in {"closed", "aborted"}
  BY <1>5 DEF Writing
<1> QED
  BY <1>1, <1>2, <1>3, <1>4, <1>5, ThreadSteps

\* What an opened keeper has is on disk.
LEMMA OpenedPlaces ==
  ASSUME SoundInv, Open, Writing'
  PROVE  \E c \in Ids \cup {INVALID_COMMIT} :
            /\ InfosAt(c).commit = c /\ Ordered(InfosAt(c).barrels) /\ c \in Int
            /\ IsLast(c) /\ UNCHANGED <<dirs, asked>> /\ pc' = "idle" /\ pending' = <<>>
            /\ keeper' = InfosAt(c) /\ filter' = OpenFilter(InfosAt(c)) /\ bits' = OpenedBits(InfosAt(c))
            /\ keyIndex' = KeyTable(UNION {KeysIn(dirs[b.id].docs, b.base) : b \in Range(InfosAt(c).barrels)})
            /\ \A j \in 1..Len(InfosAt(c).barrels) :
                  LET b == InfosAt(c).barrels[j]
                  IN /\ DocsInKeeper(j)' = dirs[b.id].docs /\ b.id \in Ids /\ b.base \in Nat
                     /\ Len(dirs[b.id].docs) = b.count /\ IsSequence(dirs[b.id].docs)
<1>1. PICK c \in Ids \cup {INVALID_COMMIT} :
         /\ IsLast(c)
         /\ keeper' = InfosAt(c) /\ filter' = OpenFilter(InfosAt(c)) /\ bits' = OpenedBits(InfosAt(c))
         /\ keyIndex' = KeyTable(UNION {KeysIn(dirs[b.id].docs, b.base) : b \in Range(InfosAt(c).barrels)})
  BY DEF Open
<1>2. /\ UNCHANGED <<commits, dirs, pending, pc, work, asked>> /\ pc = "idle" /\ pending = <<>>
  BY DEF Open, disk, thread, history, SoundInv, DiskInv, Phases
<1>3. IsIndex(InfosAt(c)) /\ Ordered(InfosAt(c).barrels) /\ InfosAt(c).commit = c /\ c \in Int
  <2>1. IsIndex(InfosAt(c))
    BY NoList DEF SoundInv, ListInv, InfosAt
  <2>2. Ordered(InfosAt(c).barrels)
    BY <2>1 DEF IsIndex
  <2>3. InfosAt(c).commit = c
    BY DEF InfosAt, NoBarrels
  <2>4. c \in Int
    BY IdsAreNumbers
  <2> QED
    BY <2>1, <2>2, <2>3, <2>4
<1>4. PICK s : s = InfosAt(c).barrels
  OBVIOUS
<1>5. IsSequence(s) /\ Len(s) \in Nat /\ Range(s) = {s[i] : i \in 1..Len(s)}
  BY <1>3, <1>4, SequenceShape DEF Ordered
<1>6. pc' \notin Writes /\ Len(pending') = 0
  BY <1>2, EmptySequence DEF Writes
<1>7. Committed' = Len(s) /\ keeper'.barrels = s
  BY <1>1, <1>4, <1>5, <1>6 DEF Committed
<1>8. ASSUME NEW j \in 1..Len(s), NEW b, b = s[j]
      PROVE  /\ DocsInKeeper(j)' = dirs[b.id].docs /\ b.id \in Ids /\ b.base \in Nat
             /\ Len(dirs[b.id].docs) = b.count /\ IsSequence(dirs[b.id].docs)
  <2>1. j <= Committed'
    BY <1>5, <1>7
  <2>2. DocsInKeeper(j)' = DocsIn(keeper.barrels[j].id)'
    BY <2>1 DEF DocsInKeeper
  <2>3. DocsInKeeper(j)' = dirs[b.id].docs
    BY <1>2, <1>6, <1>7, <1>8, <2>2 DEF DocsIn
  <2>4. b \in Range(s) /\ c # INVALID_COMMIT
    BY <1>4, <1>5, <1>8, EmptySequence DEF InfosAt, NoBarrels
  <2>5. c \in Ids /\ Range(s) = Range(commits[c].barrels)
    BY <1>4, <2>4 DEF InfosAt
  <2>6. b.id \in Ids /\ Intact(b)
    BY <2>4, <2>5, ListedBarrels DEF SoundInv
  <2>7. b.base \in Nat
    BY <1>3, <1>4, <1>8 DEF Ordered
  <2> QED
    BY <2>3, <2>6, <2>7 DEF Intact, SoundInv, DocsShape
<1> QED
  BY <1>1, <1>2, <1>3, <1>4, <1>8

\* What a writer that is sealed has comes last; the others stay.
LEMMA SealedPlaces ==
  ASSUME SoundInv, PlacesInv, SealsBatch, NEW n, n = Len(keeper.barrels)
  PROVE  /\ \A j \in 1..n : DocsInKeeper(j)' = DocsInKeeper(j)
         /\ DocsInKeeper(n + 1)' = building.docs
<1>1. PICK l, m : l = Len(pending) /\ m = Committed
  OBVIOUS
<1>2. UNCHANGED <<dirs, pc, work>>
  BY DEF SealsBatch
<1>3. /\ n \in Nat
      /\ Len(keeper'.barrels) = n + 1
      /\ \A i \in 1..n : keeper'.barrels[i] = keeper.barrels[i]
      /\ IsSequence(pending) /\ IsSequence(pending') /\ Len(pending') = l + 1
      /\ \A i \in 1..l : pending'[i] = pending[i]
      /\ pending'[l + 1].docs = building.docs
      /\ Writing
  <2>1. status = "open" /\ (SealDocuments \/ SealDeletions)
    BY DEF SealsBatch
  <2> QED
    BY <1>1, <2>1, Sealing
<1>4. l \in Nat /\ m \in Nat /\ m = n - l
  BY <1>3, <1>1, SequenceShape DEF Committed, PlacesInv, KeeperInv
<1>8. n \in Nat /\ l \in Nat /\ m \in Nat /\ m = n - l
  BY <1>3, <1>4
<1>5. Committed' = m
  <2>1. Committed' = Len(keeper'.barrels) - Len(pending')
    BY DEF Committed
  <2>2. Committed' = (n + 1) - (l + 1)
    BY <1>3, <2>1
  <2> QED
    BY <1>3, <1>4, <2>2
<1>6. ASSUME NEW j \in 1..n PROVE DocsInKeeper(j)' = DocsInKeeper(j)
  <2>1. CASE j <= m
    <3>1. DocsInKeeper(j)' = DocsIn(keeper.barrels[j].id)'
      BY <1>5, <2>1 DEF DocsInKeeper
    <3>2. DocsInKeeper(j) = DocsIn(keeper.barrels[j].id)
      BY <1>1, <2>1 DEF DocsInKeeper
    <3>3. keeper'.barrels[j] = keeper.barrels[j]
      BY <1>3
    <3> QED
      BY <1>2, <3>1, <3>2, <3>3 DEF DocsIn, New
  <2>2. CASE ~(j <= m)
    <3>1. j - m \in 1..l
      BY <1>3, <1>4, <2>2
    <3>2. DocsInKeeper(j) = pending[j - m].docs
      BY <1>1, <2>2 DEF DocsInKeeper
    <3>3. DocsInKeeper(j)' = pending'[j - m].docs
      BY <1>5, <2>2 DEF DocsInKeeper
    <3> QED
      BY <1>3, <3>1, <3>2, <3>3
  <2> QED
    BY <2>1, <2>2
<1>7. DocsInKeeper(n + 1)' = building.docs
  <2>1. \A x, y, z \in Nat : z = x - y => ~(x + 1 <= z) /\ (x + 1) - z = y + 1
    OBVIOUS
  <2>2. PICK j : j = n + 1
    OBVIOUS
  <2>5. n \in Nat
    BY <1>8
  <2>6. l \in Nat
    BY <1>8
  <2>7. m \in Nat
    BY <1>8
  <2>8. m = n - l
    BY <1>8
  <2>9. ~(n + 1 <= m)
    BY <2>1, <2>5, <2>6, <2>7, <2>8
  <2>10. (n + 1) - m = l + 1
    BY <2>1, <2>5, <2>6, <2>7, <2>8
  <2>3. ~(j <= m) /\ j - m = l + 1
    BY <2>9, <2>10, <2>2
  <2>4. DocsInKeeper(j)' = pending'[j - m].docs
    BY <1>5, <2>3 DEF DocsInKeeper
  <2> QED
    BY <1>3, <2>2, <2>3, <2>4
<1> QED
  BY <1>1, <1>6, <1>7

LEMMA StepKeepsKeysOnly ==
  ASSUME SoundInv, PlacesInv, KeysOnly, [StoreNext]_storeVars
  PROVE  KeysOnly'
<1> SUFFICES ASSUME Writing', NEW d \in DOMAIN keyIndex'
             PROVE  \E j \in 1..Len(keeper'.barrels) :
                       \E p \in 1..keeper'.barrels[j].count : DocsInKeeper(j)'[p] = d
  BY DEF KeysOnly
<1>1. DiskInv /\ KeeperInv /\ KeysInv /\ KeysInv'
  BY StoreStep, StepKeepsKeeper DEF SoundInv, PlacesInv
<1>2. CASE Open
  <2>1. PICK c \in Ids \cup {INVALID_COMMIT} :
           /\ Ordered(InfosAt(c).barrels)
           /\ keeper' = InfosAt(c)
           /\ keyIndex' = KeyTable(UNION {KeysIn(dirs[b.id].docs, b.base) : b \in Range(InfosAt(c).barrels)})
           /\ \A j \in 1..Len(InfosAt(c).barrels) :
                 LET b == InfosAt(c).barrels[j]
                 IN /\ DocsInKeeper(j)' = dirs[b.id].docs /\ b.id \in Ids /\ b.base \in Nat
                    /\ Len(dirs[b.id].docs) = b.count /\ IsSequence(dirs[b.id].docs)
    BY <1>2, OpenedPlaces
  <2>2. PICK s, pairs : s = InfosAt(c).barrels /\ pairs = UNION {KeysIn(dirs[b.id].docs, b.base) : b \in Range(InfosAt(c).barrels)}
    OBVIOUS
  <2>3. PICK q \in pairs : q[1] = d
    BY <2>1, <2>2 DEF KeyTable
  <2>4. Range(s) = {s[i] : i \in 1..Len(s)}
    BY <2>1, <2>2, SequenceShape DEF Ordered
  <2>5. PICK j \in 1..Len(s) : q \in KeysIn(dirs[s[j].id].docs, s[j].base)
    BY <2>2, <2>4
  <2>6. PICK b : b = s[j]
    OBVIOUS
  <2>7. /\ DocsInKeeper(j)' = dirs[b.id].docs /\ b.base \in Nat
        /\ Len(dirs[b.id].docs) = b.count /\ IsSequence(dirs[b.id].docs)
    BY <2>1, <2>2, <2>6
  <2>8. PICK p \in 1..Len(dirs[b.id].docs) : q = <<dirs[b.id].docs[p], b.base + p - 1>>
    BY <2>5, <2>6, <2>7, KeysOf
  <2>9. j \in 1..Len(keeper'.barrels) /\ p \in 1..keeper'.barrels[j].count /\ DocsInKeeper(j)'[p] = d
    BY <2>1, <2>2, <2>3, <2>6, <2>7, <2>8
  <2> QED
    BY <2>9
<1>3. ASSUME Writing, UNCHANGED <<keeper, keyIndex>>
      PROVE  \E j \in 1..Len(keeper'.barrels) :
                \E p \in 1..keeper'.barrels[j].count : DocsInKeeper(j)'[p] = d
  <2>1. PICK j \in 1..Len(keeper.barrels) : \E p \in 1..keeper.barrels[j].count : DocsInKeeper(j)[p] = d
    BY <1>3 DEF KeysOnly
  <2>2. PICK p \in 1..keeper.barrels[j].count : DocsInKeeper(j)[p] = d
    BY <2>1
  <2>3. DocsInKeeper(j)'[p] = DocsInKeeper(j)[p]
    BY <1>1, <1>3, DocsRemain
  <2> QED
    BY <1>3, <2>2, <2>3
<1>4. CASE Writing /\ SealsBatch
  <2>0. PICK n : n = Len(keeper.barrels)
    OBVIOUS
  <2>1. PICK new : n = Len(keeper.barrels) /\ new = keeper'.barrels[n + 1]
    BY <2>0
  <2>2. /\ n \in Nat /\ Len(keeper'.barrels) = n + 1
        /\ \A i \in 1..n : keeper'.barrels[i] = keeper.barrels[i]
        /\ new.count = Len(building.docs) /\ new.base \in Nat
        /\ \/ keyIndex' = Inserted(keyIndex, KeyTable(KeysIn(building.docs, new.base)))
           \/ keyIndex' = keyIndex
    <3>1. status = "open" /\ (SealDocuments \/ SealDeletions)
      BY <1>4 DEF SealsBatch
    <3> QED
      BY <2>1, <3>1, Sealing
  <2>3. /\ \A j \in 1..n : DocsInKeeper(j)' = DocsInKeeper(j)
        /\ DocsInKeeper(n + 1)' = building.docs
    BY <1>4, <2>1, SealedPlaces
  <2>4. CASE d \in DOMAIN keyIndex
    <3>1. PICK j \in 1..n : \E p \in 1..keeper.barrels[j].count : DocsInKeeper(j)[p] = d
      BY <1>4, <2>1, <2>4 DEF KeysOnly
    <3>2. j \in 1..Len(keeper'.barrels) /\ keeper'.barrels[j] = keeper.barrels[j] /\ DocsInKeeper(j)' = DocsInKeeper(j)
      BY <2>2, <2>3
    <3> QED
      BY <3>1, <3>2
  <2>5. CASE d \notin DOMAIN keyIndex
    <3>1. PICK table : table = KeyTable(KeysIn(building.docs, new.base))
      OBVIOUS
    <3>2. d \in DOMAIN table
      BY <2>2, <2>5, <3>1 DEF Inserted
    <3>3. PICK q \in KeysIn(building.docs, new.base) : q[1] = d
      BY <3>1, <3>2 DEF KeyTable
    <3>4. PICK p \in 1..Len(building.docs) : q = <<building.docs[p], new.base + p - 1>>
      BY <2>2, <3>3, KeysOf DEF SoundInv, DocsShape
    <3>5. n + 1 \in 1..Len(keeper'.barrels)
      BY <2>2
    <3>6. PICK j : j = n + 1
      OBVIOUS
    <3>7. j \in 1..Len(keeper'.barrels) /\ p \in 1..keeper'.barrels[j].count /\ DocsInKeeper(j)'[p] = d
      BY <2>1, <2>2, <2>3, <3>3, <3>4, <3>5, <3>6
    <3> QED
      BY <3>7
  <2> QED
    BY <2>4, <2>5
<1>5. CASE Writing /\ \E x \in Documents : DeleteOnDisk(x)
  BY <1>3, <1>5 DEF DeleteOnDisk
<1> QED
  BY <1>1, <1>2, <1>3, <1>4, <1>5, WriterSteps

LEMMA StepKeepsBitsAsked ==
  ASSUME SoundInv, PlacesInv, HandedInv, FilesAsked, BitsAsked, KeysOnly, FilterInv, [StoreNext]_storeVars
  PROVE  BitsAsked'
<1> SUFFICES ASSUME Writing', NEW j \in 1..Len(keeper'.barrels), NEW p \in 1..keeper'.barrels[j].count,
                    p - 1 \in bits'[keeper'.barrels[j].id]
             PROVE  DocsInKeeper(j)'[p] \in asked'
  BY DEF BitsAsked
<1>1. DiskInv /\ KeeperInv /\ KeysInv /\ KeysInv' /\ asked \subseteq asked'
  BY StoreStep, StepKeepsKeeper, AskedGrows DEF SoundInv, PlacesInv
<1>2. CASE Open
  <2>1. PICK c \in Ids \cup {INVALID_COMMIT} :
           /\ Ordered(InfosAt(c).barrels) /\ InfosAt(c).commit = c /\ c \in Int
           /\ keeper' = InfosAt(c) /\ bits' = OpenedBits(InfosAt(c)) /\ UNCHANGED asked
           /\ \A k \in 1..Len(InfosAt(c).barrels) :
                 LET b == InfosAt(c).barrels[k]
                 IN /\ DocsInKeeper(k)' = dirs[b.id].docs /\ b.id \in Ids
                    /\ Len(dirs[b.id].docs) = b.count /\ IsSequence(dirs[b.id].docs)
    BY <1>2, OpenedPlaces
  <2>2. PICK b : b = InfosAt(c).barrels[j]
    OBVIOUS
  <2>3. /\ DocsInKeeper(j)' = dirs[b.id].docs /\ b.id \in Ids
        /\ Len(dirs[b.id].docs) = b.count /\ IsSequence(dirs[b.id].docs)
        /\ p \in 1..b.count
    BY <2>1, <2>2
  <2>4. p - 1 \in LatestFilter(b.id, b.id, c)
    BY <2>1, <2>2, <2>3 DEF OpenedBits
  <2>5. PICK m \in Ids : HasFile(m, b.id) /\ LatestFilter(b.id, b.id, c) = dirs[m].deletions[b.id]
    BY <1>1, <2>1, <2>3, <2>4, LatestIsLast DEF DiskInv
  <2>6. p \in DOMAIN dirs[b.id].docs
    BY <2>3, SequenceShape
  <2> QED
    BY <2>1, <2>3, <2>4, <2>5, <2>6 DEF FilesAsked
<1>3. ASSUME Writing, UNCHANGED <<keeper, keyIndex>>, p - 1 \in bits[keeper.barrels[j].id]
      PROVE  DocsInKeeper(j)'[p] \in asked'
  <2>1. DocsInKeeper(j)'[p] = DocsInKeeper(j)[p]
    BY <1>1, <1>3, DocsRemain
  <2>2. DocsInKeeper(j)[p] \in asked
    BY <1>3 DEF BitsAsked
  <2> QED
    BY <1>1, <2>1, <2>2
<1>4. CASE Writing /\ SealsBatch
  <2>0. PICK n : n = Len(keeper.barrels)
    OBVIOUS
  <2>1. PICK new : n = Len(keeper.barrels) /\ new = keeper'.barrels[n + 1]
    BY <2>0
  <2>2. /\ n \in Nat /\ Len(keeper'.barrels) = n + 1 /\ IsIndex(keeper')
        /\ \A i \in 1..n : keeper'.barrels[i] = keeper.barrels[i]
        /\ new.count = Len(building.docs) /\ new.id = keeper.commit + 1 /\ keeper.commit + 1 \in Ids
    <3>1. status = "open" /\ (SealDocuments \/ SealDeletions)
      BY <1>4 DEF SealsBatch
    <3> QED
      BY <2>1, <3>1, Sealing
  <2>3. /\ \A k \in 1..n : DocsInKeeper(k)' = DocsInKeeper(k)
        /\ DocsInKeeper(n + 1)' = building.docs
    BY <1>4, <2>1, SealedPlaces
  <2>4. \/ bits' = bits /\ building.docs = <<>>
        \/ bits' = [bits EXCEPT ![new.id] =
              {i - 1 : i \in {i \in DOMAIN building.docs : building.docs[i] \in building.deleted}}]
    <3>1. CASE SealDeletions
      BY <3>1 DEF SealDeletions
    <3>2. CASE SealDocuments
      <4>1. PICK infos : infos = NewBarrel(keeper, Len(building.docs), Cardinality(building.deleted))
        OBVIOUS
      <4>2. keeper' = infos /\ bits' = [bits EXCEPT ![Last(infos.barrels).id] =
              {i - 1 : i \in {i \in DOMAIN building.docs : building.docs[i] \in building.deleted}}]
        BY <3>2, <4>1 DEF SealDocuments
      <4>3. Last(infos.barrels) = new
        BY <2>1, <2>2, <4>2 DEF Last
      <4> QED
        BY <4>2, <4>3
    <3> QED
      BY <1>4, <3>1, <3>2 DEF SealsBatch
  <2>5. bits = [c \in Ids |-> bits[c]]
    BY <1>1 DEF DiskInv, MemoryShape
  <2>6. j \in 1..n \/ j = n + 1
    BY <2>2
  <2>7. CASE j \in 1..n
    <3>1. n + 1 \in 1..(n + 1) /\ j # n + 1
      BY <2>2, <2>7
    <3>2. keeper'.barrels[j].id # new.id
      BY <2>1, <2>2, <3>1, OrderedIsInjective DEF IsIndex
    <3>3. p - 1 \in bits[keeper.barrels[j].id]
      <4>1. PICK x : x = keeper'.barrels[j].id
        OBVIOUS
      <4>2. x \in Ids /\ x # new.id /\ x = keeper.barrels[j].id /\ p - 1 \in bits'[x]
        BY <2>2, <2>7, <3>2, <4>1 DEF IsIndex, Ordered
      <4>3. bits'[x] = bits[x]
        BY <2>4, <2>5, <4>2
      <4> QED
        BY <4>2, <4>3
    <3>4. DocsInKeeper(j)[p] \in asked
      BY <1>4, <2>1, <2>2, <2>7, <3>3 DEF BitsAsked
    <3> QED
      BY <1>1, <2>3, <2>7, <3>4
  <2>8. CASE j = n + 1
    <3>1. keeper'.barrels[j] = new /\ p \in 1..Len(building.docs) /\ DocsInKeeper(j)' = building.docs
      BY <2>1, <2>2, <2>3, <2>8
    <3>2. building.docs # <<>>
      BY <3>1, EmptySequence
    <3>3. p - 1 \in {i - 1 : i \in {i \in DOMAIN building.docs : building.docs[i] \in building.deleted}}
      BY <2>2, <2>4, <2>5, <3>1, <3>2
    <3>4. DOMAIN building.docs = 1..Len(building.docs) /\ Len(building.docs) \in Nat
      BY SequenceShape DEF SoundInv, DocsShape
    <3>5. PICK i \in 1..Len(building.docs) : p - 1 = i - 1 /\ building.docs[i] \in building.deleted
      BY <3>3, <3>4
    <3>6. p = i
      BY <3>1, <3>4, <3>5
    <3>7. building.docs[p] \in asked
      BY <3>5, <3>6 DEF HandedInv
    <3> QED
      BY <1>1, <3>1, <3>7
  <2> QED
    BY <2>6, <2>7, <2>8
<1>5. ASSUME Writing, NEW d \in Documents, DeleteOnDisk(d) PROVE DocsInKeeper(j)'[p] \in asked'
  <2>1. PICK i \in DOMAIN filter :
           /\ Covers(filter[i], keyIndex[d])
           /\ bits' = [bits EXCEPT ![filter[i].barrel.id] = @ \cup {keyIndex[d] - filter[i].barrel.base}]
    BY <1>5 DEF DeleteOnDisk
  <2>2. d \in DOMAIN keyIndex /\ UNCHANGED <<keeper, keyIndex>> /\ asked' = asked \cup {d}
    BY <1>5 DEF DeleteOnDisk
  <2>3. i \in 1..Len(filter)
    BY <2>1, SequenceShape DEF PlacesInv, RoomInv, IsFilter
  <2>4. Ordered(keeper.barrels) /\ Range(keeper.barrels) = {keeper.barrels[k] : k \in 1..Len(keeper.barrels)}
    <3>1. Ordered(keeper.barrels)
      BY <1>1, <1>5 DEF KeeperInv, IsIndex
    <3> QED
      BY <3>1, SequenceShape DEF Ordered
  <2>5. PICK k \in 1..Len(keeper.barrels) : filter[i].barrel = keeper.barrels[k]
    BY <1>5, <2>3, <2>4 DEF FilterInv
  <2>6. PICK b, local : b = keeper.barrels[k] /\ local = keyIndex[d] - b.base
    OBVIOUS
  <2>7. bits = [c \in Ids |-> bits[c]] /\ b.id \in Ids /\ b.base \in Nat /\ b.count \in Nat /\ keeper.barrels[j].id \in Ids
    BY <1>1, <2>2, <2>4, <2>6 DEF DiskInv, MemoryShape, Ordered
  <2>8. \/ p - 1 \in bits[keeper.barrels[j].id]
        \/ keeper.barrels[j].id = b.id /\ p - 1 = local
    BY <2>1, <2>2, <2>5, <2>6, <2>7
  <2>9. CASE keeper.barrels[j].id = b.id /\ p - 1 = local
    <3>1. j = k
      BY <2>2, <2>4, <2>6, <2>9, OrderedIsInjective
    <3>2. keyIndex[d] = keeper.barrels[j].base + p - 1
      <4>1. PICK x : x = keyIndex[d]
        OBVIOUS
      <4>2. x \in Nat /\ p \in Int /\ p - 1 = x - b.base
        BY <2>2, <2>6, <2>7, <2>9, <3>1, <4>1 DEF PlacesInv, BuildingInv
      <4>3. x = b.base + p - 1
        BY <2>7, <4>2
      <4> QED
        BY <2>6, <3>1, <4>1, <4>3
    <3>3. DocsInKeeper(j)[p] = d
      BY <1>1, <1>5, <2>2, <3>2, KeyIsPlace
    <3>4. DocsInKeeper(j)'[p] = DocsInKeeper(j)[p]
      BY <1>1, <1>5, <2>2, DocsRemain
    <3> QED
      BY <2>2, <3>3, <3>4
  <2> QED
    BY <1>3, <1>5, <2>2, <2>8, <2>9
<1>6. CASE Writing /\ UNCHANGED <<keeper, filter, bits, keyIndex>>
  BY <1>3, <1>6
<1> QED
  BY <1>1, <1>2, <1>4, <1>5, <1>6, WriterSteps

\* What is marked in the filter is of barrels the filter has.
LEMMA DirtyAreIn ==
  ASSUME NEW f, IsFilter(f), NEW S, \A i \in 1..Len(f) : f[i].barrel.id \in S
  PROVE  Dirty(f) \subseteq S
<1>1. DOMAIN f = 1..Len(f)
  BY SequenceShape DEF IsFilter
<1> QED
  BY <1>1 DEF Dirty

LEMMA SealedDirty ==
  ASSUME SoundInv, PlacesInv, FilterInv, SealsBatch
  PROVE  /\ KnownIds \subseteq KnownIds'
         /\ \A i \in 1..Len(filter') : filter'[i].barrel \in Range(keeper'.barrels)
         /\ pending'[Len(pending')].dirty \subseteq KnownIds'
<1>1. status = "open" /\ (SealDocuments \/ SealDeletions)
  BY DEF SealsBatch
<1>2. PICK n, l : n = Len(keeper.barrels) /\ l = Len(pending)
  OBVIOUS
<1>3. PICK new : new = keeper'.barrels[n + 1]
  OBVIOUS
<1>4. /\ Writing /\ n \in Nat /\ Len(keeper'.barrels) = n + 1 /\ IsIndex(keeper')
      /\ IsIndex(keeper)
      /\ \A i \in 1..n : keeper'.barrels[i] = keeper.barrels[i]
      /\ \A i \in 1..Len(filter') :
            filter'[i].barrel = new \/ \E k \in 1..Len(filter) : filter'[i].barrel = filter[k].barrel
      /\ IsSequence(pending) /\ Len(pending') = l + 1
  BY <1>1, <1>2, <1>3, Sealing
<1>5. PICK s, t : s = keeper.barrels /\ t = keeper'.barrels
  OBVIOUS
<1>6. Range(s) = {s[i] : i \in 1..n} /\ Range(t) = {t[i] : i \in 1..(n + 1)}
  BY <1>2, <1>4, <1>5, SequenceShape DEF IsIndex, Ordered
<1>7. Range(s) \subseteq Range(t) /\ new \in Range(t)
  <2>1. \A i \in 1..n : i \in 1..(n + 1) /\ s[i] = t[i]
    BY <1>4, <1>5
  <2>2. n + 1 \in 1..(n + 1)
    BY <1>4
  <2> QED
    BY <1>3, <1>5, <1>6, <2>1, <2>2
<1>8. KnownIds \subseteq KnownIds' /\ new.id \in KnownIds'
  BY <1>5, <1>7 DEF KnownIds
<1>9. \A i \in 1..Len(filter) : filter[i].barrel \in Range(s)
  BY <1>4, <1>5 DEF FilterInv
<1>10. \A i \in 1..Len(filter') : filter'[i].barrel \in Range(t)
  BY <1>4, <1>7, <1>9
<1>11. IsEntry(new)
  <2>1. n + 1 \in 1..Len(t) /\ Ordered(t) /\ new = t[n + 1]
    BY <1>3, <1>4, <1>5 DEF IsIndex
  <2> QED
    BY <2>1 DEF Ordered, IsEntry
<1>12. IsFilter(filter) /\ \A i \in 1..Len(filter) : filter[i].barrel.id \in KnownIds'
  BY <1>5, <1>7, <1>9 DEF PlacesInv, RoomInv, KnownIds
<1>13. \E f : /\ IsFilter(f) /\ \A i \in 1..Len(f) : f[i].barrel.id \in KnownIds'
              /\ \E infos : pending' = Append(pending, Sealed(infos, building.docs, f))
  <2>1. CASE SealDocuments
    <3>1. PICK infos : infos = NewBarrel(keeper, Len(building.docs), Cardinality(building.deleted))
      OBVIOUS
    <3>2. keeper' = infos
      BY <2>1, <3>1 DEF SealDocuments
    <3>3. Last(infos.barrels) = new
      BY <1>3, <1>4, <3>2 DEF Last
    <3>4. PICK old \in {filter, Copied(filter)} :
             pending' = Append(pending, Sealed(infos, building.docs, Append(old, [barrel |-> new, dirty |-> FALSE])))
      BY <2>1, <3>1, <3>3 DEF SealDocuments
    <3>5. IsFilter(old) /\ Len(old) = Len(filter) /\ \A i \in 1..Len(filter) : old[i].barrel = filter[i].barrel
      BY <1>12, CopiedFilter
    <3>6. PICK f : f = Append(old, [barrel |-> new, dirty |-> FALSE])
      OBVIOUS
    <3>7. /\ IsFilter(f) /\ Len(f) = Len(filter) + 1 /\ f[Len(filter) + 1].barrel = new
          /\ \A i \in 1..Len(filter) : f[i] = old[i]
      <4>1. LET u == Append(old, [barrel |-> new, dirty |-> FALSE])
            IN /\ IsFilter(u) /\ Len(u) = Len(old) + 1 /\ u[Len(old) + 1].barrel = new
               /\ \A i \in 1..Len(old) : u[i] = old[i]
        BY <1>11, <3>5, LongerFilter
      <4> QED
        BY <3>5, <3>6, <4>1
    <3>8. Len(filter) \in Nat
      BY <1>12, SequenceShape DEF IsFilter
    <3>9. \A i \in 1..Len(f) : i \in 1..Len(filter) \/ i = Len(filter) + 1
      BY <3>7, <3>8
    <3>10. \A i \in 1..Len(f) : f[i].barrel.id \in KnownIds'
      BY <1>8, <1>12, <3>5, <3>7, <3>9
    <3> QED
      BY <3>4, <3>6, <3>7, <3>10
  <2>2. CASE SealDeletions
    <3>1. pending' = Append(pending, Sealed(keeper', building.docs, filter))
      BY <2>2 DEF SealDeletions
    <3> QED
      BY <1>12, <3>1
  <2> QED
    BY <1>1, <2>1, <2>2
<1>14. PICK f, infos : /\ IsFilter(f) /\ \A i \in 1..Len(f) : f[i].barrel.id \in KnownIds'
                       /\ pending' = Append(pending, Sealed(infos, building.docs, f))
  BY <1>13
<1>15. pending'[l + 1].dirty = Dirty(f)
  <2>1. pending'[l + 1] = Sealed(infos, building.docs, f)
    BY <1>2, <1>4, <1>14, AppendSequence
  <2> QED
    BY <2>1 DEF Sealed
<1>16. Dirty(f) \subseteq KnownIds'
  BY <1>14, DirtyAreIn
<1> QED
  BY <1>4, <1>5, <1>8, <1>10, <1>15, <1>16

LEMMA StepKeepsFilter ==
  ASSUME SoundInv, PlacesInv, FilterInv, [StoreNext]_storeVars
  PROVE  FilterInv'
<1> SUFFICES ASSUME Writing'
             PROVE  /\ \A i \in 1..Len(filter') : filter'[i].barrel \in Range(keeper'.barrels)
                    /\ \A k \in 1..Len(pending') : pending'[k].dirty \subseteq KnownIds'
                    /\ pc' \in Writes => work'.dirty \subseteq KnownIds'
  BY DEF FilterInv
<1>1. [WriterNext]_storeVars /\ DiskInv
  BY StoreStep DEF SoundInv
<1>2. IsSequence(pending) /\ Len(pending) \in Nat
  BY <1>1, SequenceShape DEF DiskInv, MemoryShape
<1>3. CASE Open
  <2>1. PICK c \in Ids \cup {INVALID_COMMIT} :
           /\ Ordered(InfosAt(c).barrels)
           /\ pc' = "idle" /\ pending' = <<>>
           /\ keeper' = InfosAt(c) /\ filter' = OpenFilter(InfosAt(c))
    BY <1>3, OpenedPlaces
  <2>2. PICK s : s = InfosAt(c).barrels
    OBVIOUS
  <2>3. DOMAIN s = 1..Len(s) /\ Range(s) = {s[i] : i \in 1..Len(s)} /\ Len(s) \in Nat
    BY <2>1, <2>2, SequenceShape DEF Ordered
  <2>4. filter' = [i \in 1..Len(s) |-> [barrel |-> s[i], dirty |-> FALSE]]
    BY <2>1, <2>2, <2>3 DEF OpenFilter
  <2>5. PICK f : f = filter'
    OBVIOUS
  <2>6. Len(f) = Len(s)
    BY <2>3, <2>4, <2>5
  <2>7. \A i \in 1..Len(f) : f[i].barrel \in Range(s)
    BY <2>3, <2>4, <2>5, <2>6
  <2>8. 1..Len(pending') = {} /\ pc' \notin Writes
    BY <2>1, EmptySequence DEF Writes
  <2> QED
    BY <2>1, <2>2, <2>5, <2>7, <2>8
<1>4. ASSUME Writing, SealsBatch
      PROVE  /\ \A i \in 1..Len(filter') : filter'[i].barrel \in Range(keeper'.barrels)
             /\ \A k \in 1..Len(pending') : pending'[k].dirty \subseteq KnownIds'
             /\ pc' \in Writes => work'.dirty \subseteq KnownIds'
  <2>1. /\ KnownIds \subseteq KnownIds'
        /\ \A i \in 1..Len(filter') : filter'[i].barrel \in Range(keeper'.barrels)
        /\ pending'[Len(pending')].dirty \subseteq KnownIds'
    BY <1>4, SealedDirty
  <2>2. UNCHANGED <<pc, work>> /\ status = "open" /\ (SealDocuments \/ SealDeletions)
    BY <1>4 DEF SealsBatch
  <2>3. Len(pending') = Len(pending) + 1 /\ \A i \in 1..Len(pending) : pending'[i] = pending[i]
    BY <2>2, Sealing
  <2>4. \A k \in 1..Len(pending') : k \in 1..Len(pending) \/ k = Len(pending')
    BY <1>2, <2>3
  <2>5. \A k \in 1..Len(pending) : pending[k].dirty \subseteq KnownIds
    BY <1>4 DEF FilterInv
  <2>6. pc' \in Writes => work'.dirty \subseteq KnownIds'
    BY <1>4, <2>1, <2>2 DEF FilterInv
  <2> QED
    BY <2>1, <2>3, <2>4, <2>5, <2>6
<1>5. ASSUME Writing, NEW d \in Documents, DeleteOnDisk(d)
      PROVE  /\ \A i \in 1..Len(filter') : filter'[i].barrel \in Range(keeper'.barrels)
             /\ \A k \in 1..Len(pending') : pending'[k].dirty \subseteq KnownIds'
             /\ pc' \in Writes => work'.dirty \subseteq KnownIds'
  <2>1. UNCHANGED <<keeper, pending, pc, work>> /\ \E i \in DOMAIN filter : filter' = [filter EXCEPT ![i].dirty = TRUE]
    BY <1>5 DEF DeleteOnDisk, thread
  <2>2. PICK i \in DOMAIN filter : filter' = [filter EXCEPT ![i].dirty = TRUE]
    BY <2>1
  <2>3. IsFilter(filter) /\ DOMAIN filter = 1..Len(filter)
    BY SequenceShape DEF PlacesInv, RoomInv, IsFilter
  <2>4. Len(filter') = Len(filter)
    BY <2>2, <2>3 DEF IsFilter, IsSequence
  <2>5. ASSUME NEW k \in 1..Len(filter) PROVE filter'[k].barrel = filter[k].barrel
    <3>1. filter[k] = [barrel |-> filter[k].barrel, dirty |-> filter[k].dirty]
      BY <2>3 DEF IsFilter
    <3>2. filter'[k] \in {filter[k], [filter[k] EXCEPT !.dirty = TRUE]}
      BY <2>2, <2>3
    <3> QED
      BY <3>1, <3>2
  <2>6. KnownIds' = KnownIds
    BY <2>1 DEF KnownIds
  <2> QED
    BY <1>5, <2>1, <2>4, <2>5, <2>6 DEF FilterInv
<1>6. ASSUME Writing, UNCHANGED <<keeper, filter>>, TakeBatch \/ UNCHANGED pending
      PROVE  /\ \A i \in 1..Len(filter') : filter'[i].barrel \in Range(keeper'.barrels)
             /\ \A k \in 1..Len(pending') : pending'[k].dirty \subseteq KnownIds'
             /\ pc' \in Writes => work'.dirty \subseteq KnownIds'
  <2>1. KnownIds' = KnownIds /\ \A k \in 1..Len(pending) : pending[k].dirty \subseteq KnownIds
    BY <1>6 DEF KnownIds, FilterInv
  <2>2. \A k \in 1..Len(pending') : pending'[k].dirty \subseteq KnownIds'
    <3>1. CASE UNCHANGED pending
      BY <2>1, <3>1
    <3>2. CASE TakeBatch
      <4>1. pending' = Tail(pending) /\ pending # <<>>
        BY <3>2 DEF TakeBatch
      <4>2. Len(pending') = Len(pending) - 1 /\ \A i \in 1..Len(pending') : pending'[i] = pending[i + 1]
        BY <1>2, <4>1, TailSequence
      <4>3. \A i \in 1..Len(pending') : i + 1 \in 1..Len(pending)
        BY <1>2, <4>2
      <4> QED
        BY <2>1, <4>2, <4>3
    <3> QED
      BY <1>6, <3>1, <3>2
  <2>3. ASSUME pc' \in Writes PROVE work'.dirty \subseteq KnownIds'
    <3>1. CASE TakeBatch
      <4>1. work'.dirty = pending[1].dirty /\ pending # <<>>
        BY <3>1, TakenBatch
      <4>2. 1 \in 1..Len(pending)
        BY <1>2, <4>1, SequenceShape
      <4> QED
        BY <2>1, <4>1, <4>2
    <3>2. CASE MergeProposal
      BY <1>1, <3>2, NoLongerWriting
    <3>3. CASE pc \in Writes /\ UNCHANGED work
      BY <1>6, <2>1, <3>3 DEF FilterInv
    <3> QED
      BY <1>1, <2>3, <3>1, <3>2, <3>3, WritesGoOn
  <2> QED
    BY <1>6, <2>2, <2>3 DEF FilterInv
<1> QED
  BY <1>1, <1>3, <1>4, <1>5, <1>6, WriterSteps

LEMMA StepKeepsBatches ==
  MergesAtOnce /\ SoundInv /\ PlacesInv /\ BatchInv /\ [StoreNext]_storeVars => BatchInv'
BY StoreStep, StepKeepsRow, StepKeepsStep, StepKeepsHanded, StepKeepsDirs, StepKeepsFilesAsked,
   StepKeepsBitsAsked, StepKeepsKeysOnly, StepKeepsFilter DEF BatchInv

LEMMA InitBatches == StoreInit => BatchInv
<1> SUFFICES ASSUME StoreInit PROVE BatchInv
  OBVIOUS
<1>1. /\ pc = "idle" /\ status = "closed" /\ merging = NotMerging /\ building = NoBuilding
      /\ \A c \in Ids : commits[c].barrels = <<>> /\ dirs[c] = NoDir /\ ~\E b \in Ids : HasFile(c, b)
  BY DEF StoreInit, NotRunning, NoFile, NoDir, HasFile
<1>2. 1..Len(<<>>) = {} /\ NoBuilding.docs = <<>> /\ NoBuilding.deleted = {} /\ NoDir.state = "absent"
  BY EmptySequence DEF NoBuilding, NoDir
<1>3. pc \notin Writes /\ ~BatchInWork /\ ~Writing
  BY <1>1 DEF Writes, BatchInWork, Writing
<1>4. RowInv
  BY <1>1, <1>2, <1>3 DEF RowInv, InRow
<1>5. StepInv
  BY <1>1, <1>3 DEF StepInv, OwnPolicy
<1>6. HandedInv
  BY <1>1, <1>2 DEF HandedInv
<1>7. DirsInv
  BY <1>1, <1>2, <1>3 DEF DirsInv, Writes
<1> QED
  BY <1>1, <1>3, <1>4, <1>5, <1>6, <1>7 DEF BatchInv, FilesAsked, BitsAsked, KeysOnly, FilterInv

LEMMA StoreBatches == ASSUME MergesAtOnce PROVE StoreSpec => [](SoundInv /\ PlacesInv /\ ShapeInv /\ BatchInv)
<1>1. SoundInv /\ PlacesInv /\ BatchInv /\ [StoreNext]_storeVars => BatchInv'
  BY StepKeepsBatches
<1> QED
  BY <1>1, InitBatches, StorePlaces, StoreShape, PTL DEF StoreSpec

\* What a reader finds in a commit stays as long as that commit does.
LEMMA VisibleKept ==
  ASSUME SoundInv, RowInv, [StoreNext]_storeVars, NEW c \in Ids, commits'[c] = commits[c]
  PROVE  Visible(InfosAt(c))' = Visible(InfosAt(c))
<1>0. DiskInv /\ [WriterNext]_storeVars
  BY StoreStep DEF SoundInv
<1>1. InfosAt(c) = [commit |-> c, barrels |-> commits[c].barrels] /\ InfosAt(c)' = InfosAt(c)
  BY IdsAreNumbers DEF InfosAt
<1>2. PICK infos : infos = InfosAt(c)
  OBVIOUS
<1>3. infos.barrels = commits[c].barrels /\ infos.commit = c /\ c \in Int
  BY <1>1, <1>2, IdIsNumber
<1>4. PICK s : s = commits[c].barrels
  OBVIOUS
<1>5. IsSequence(s)
  BY <1>0, <1>4 DEF DiskInv, DiskShape, IsFile
<1>6. PICK n \in Nat : n = Len(s)
  BY <1>5, SequenceShape
<1>7. Range(s) = {s[i] : i \in 1..n}
  BY <1>5, <1>6, SequenceShape
<1>8. \A i \in 1..n : s[i].id = c - n + i
  BY <1>4, <1>6 DEF RowInv, InRow
<1>9. \A b \in Range(s) : b.id \in Ids /\ dirs'[b.id] = dirs[b.id]
  BY <1>0, <1>4, ListedBarrels, ListedStay
<1>10. ASSUME NEW b \in Range(s)
       PROVE  /\ LatestFilter(b.id, b.id, c)' = LatestFilter(b.id, b.id, c)
              /\ dirs'[b.id] = dirs[b.id]
  <2>1. PICK i \in 1..n : b = s[i]
    BY <1>7
  <2>2. b.id = c - n + i /\ b.id \in Ids
    BY <1>8, <1>9, <2>1
  <2>3. ASSUME NEW d \in Ids, b.id <= d, d <= c PROVE dirs'[d] = dirs[d]
    <3>1. d \in Int
      BY IdIsNumber
    <3>2. PICK k \in Int : k = d - c + n
      BY <1>3, <3>1
    <3>3. k \in 1..n
      BY <1>3, <2>1, <2>2, <2>3, <3>1, <3>2
    <3>4. s[k] \in Range(s) /\ s[k].id = c - n + k
      BY <1>7, <1>8, <3>3
    <3>5. c - n + k = d
      BY <1>3, <3>1, <3>2
    <3> QED
      BY <1>9, <3>4, <3>5
  <2> QED
    BY <1>3, <1>9, <2>2, <2>3, LatestKept
<1>11. Visible(infos)' = Visible(infos)
  BY <1>3, <1>4, <1>10 DEF Visible
<1>12. Visible(InfosAt(c))' = Visible(infos)'
  BY <1>1, <1>2
<1> QED
  BY <1>2, <1>11, <1>12

\* Nothing has been committed yet.
NoneIsWhole == \A c \in Ids : commits[c].state # "whole"

LEMMA NewestIs ==
  /\ \A k \in Ids : IsNewest(k) => NewestInfos = InfosAt(k)
  /\ NoneIsWhole => NewestInfos = NoBarrels
  /\ NoneIsWhole \/ \E c \in Ids : IsNewest(c)
<1> DEFINE whole == {c \in Ids : commits[c].state = "whole"}
<1>1. NewestInfos = IF whole = {} THEN NoBarrels
                    ELSE InfosAt(CHOOSE c \in whole : \A k \in whole : k <= c)
  BY DEF NewestInfos
<1>2. whole \subseteq Nat /\ \A c \in whole : c <= MaxCommit
  BY IdsAreNumbers DEF Ids
<1>3. \A c : c \in whole <=> c \in Ids /\ commits[c].state = "whole"
  OBVIOUS
<1> HIDE DEF whole
<1>4. ASSUME NEW c \in Ids, IsNewest(c) PROVE NewestInfos = InfosAt(c)
  <2>1. c \in whole /\ \A k \in whole : k <= c
    BY <1>3, <1>4 DEF IsNewest
  <2>2. \A k \in whole : (\A j \in whole : j <= k) => k = c
    BY <1>2, <2>1
  <2>3. (CHOOSE k \in whole : \A j \in whole : j <= k) = c
    BY <2>1, <2>2
  <2> QED
    BY <1>1, <2>1, <2>3
<1>5. NoneIsWhole => NewestInfos = NoBarrels
  BY <1>1, <1>3 DEF NoneIsWhole
<1>6. ASSUME ~NoneIsWhole PROVE \E c \in Ids : IsNewest(c)
  <2>1. whole # {}
    BY <1>3, <1>6 DEF NoneIsWhole
  <2>2. PICK c \in whole : \A k \in whole : k <= c
    BY <1>2, <2>1, IdsAreNumbers, Largest
  <2> QED
    BY <1>3, <2>2 DEF IsNewest
<1> QED
  BY <1>4, <1>5, <1>6

LEMMA NewestIsNext ==
  /\ \A c \in Ids : IsNewest(c)' => NewestInfos' = InfosAt(c)'
  /\ NoneIsWhole' => NewestInfos' = NoBarrels
<1>1. (/\ \A k \in Ids : IsNewest(k) => NewestInfos = InfosAt(k)
       /\ NoneIsWhole => NewestInfos = NoBarrels
       /\ NoneIsWhole \/ \E c \in Ids : IsNewest(c))'
  BY NewestIs, PTL
<1> QED
  BY <1>1

\* Only writing a commit file makes another commit the newest.
LEMMA NewestKept ==
  ASSUME DiskInv, [StoreNext]_storeVars, ~WriteCommitFile
  PROVE  /\ NoneIsWhole => NoneIsWhole'
         /\ \A c \in Ids : IsNewest(c) => IsNewest(c)' /\ commits'[c] = commits[c]
<1>1. [WriterNext]_storeVars
  BY StoreStep
<1>2. commits = [k \in Ids |-> commits[k]]
  BY DEF DiskInv, DiskShape
<1>3. CASE UNCHANGED commits
  BY <1>3 DEF NoneIsWhole, IsNewest
<1>4. CASE CreateCommitFile
  <2>1. commits' = [commits EXCEPT ![New] = [state |-> "torn", barrels |-> <<>>]] /\ pc = "create" /\ pc \in Writes
    BY <1>4 DEF CreateCommitFile, Writes
  <2>2. New \in Nat /\ IsLast(New - 1)
    BY <2>1, IdIsNumber DEF DiskInv, WorkIntact
  <2>3. ASSUME NEW k \in Ids, commits[k].state = "whole" PROVE k # New
    <3>1. k <= New - 1 /\ k \in Nat
      BY <2>2, <2>3, IdIsNumber DEF IsLast, Listed
    <3> QED
      BY <2>2, <3>1
  <2>4. \A k \in Ids : commits[k].state = "whole" => commits'[k] = commits[k]
    BY <1>2, <2>1, <2>3
  <2>5. \A k \in Ids : commits'[k].state = "whole" => commits'[k] = commits[k]
    BY <1>2, <2>1
  <2> QED
    BY <2>4, <2>5 DEF NoneIsWhole, IsNewest
<1>5. CASE DropCommit
  <2>1. PICK x, k \in Listed : x < k /\ commits' = [commits EXCEPT ![x] = NoFile]
    BY <1>5, DropLeaves
  <2>2. \A j \in Listed : commits[j].state = "whole"
    BY <1>5, DropLeaves
  <2>3. x \in Nat /\ k \in Nat /\ x \in Ids /\ k \in Ids
    BY IdIsNumber DEF Listed
  <2>4. \A j \in Ids : j # x => commits'[j] = commits[j]
    BY <1>2, <2>1
  <2>5. commits'[x].state = "absent"
    BY <1>2, <2>1, <2>3 DEF NoFile
  <2>6. ASSUME NEW c \in Ids, IsNewest(c) PROVE c # x
    <3>1. k <= c /\ c \in Nat
      BY <2>2, <2>3, <2>6, IdIsNumber DEF IsNewest
    <3> QED
      BY <2>1, <2>3, <3>1
  <2> QED
    BY <2>4, <2>5, <2>6 DEF NoneIsWhole, IsNewest
<1> QED
  BY <1>1, <1>3, <1>4, <1>5, CommitsChange

\* Neither do other steps change what a reader of the newest finds.
LEMMA FoundKept ==
  ASSUME SoundInv, RowInv, [StoreNext]_storeVars, ~WriteCommitFile
  PROVE  Visible(NewestInfos)' = Visible(NewestInfos)
<1>0. DiskInv
  BY DEF SoundInv
<1>1. CASE NoneIsWhole
  <2>1. NewestInfos = NoBarrels /\ NoneIsWhole'
    BY <1>0, <1>1, NewestIs, NewestKept
  <2>3. NewestInfos' = NoBarrels
    BY <2>1, NewestIsNext
  <2>4. NoBarrels.barrels = <<>> /\ Range(<<>>) = {}
    BY EmptySequence DEF NoBarrels
  <2>5. Visible(NewestInfos) = {} /\ Visible(NewestInfos)' = {}
    BY <2>1, <2>3, <2>4 DEF Visible
  <2> QED
    BY <2>5
<1>2. CASE ~NoneIsWhole
  <2>1. PICK c \in Ids : IsNewest(c)
    BY <1>2, NewestIs
  <2>2. IsNewest(c)' /\ commits'[c] = commits[c]
    BY <1>0, <2>1, NewestKept
  <2>4. NewestInfos' = InfosAt(c)' /\ NewestInfos = InfosAt(c)
    BY <2>1, <2>2, NewestIs, NewestIsNext
  <2>5. Visible(InfosAt(c))' = Visible(InfosAt(c))
    BY <2>2, VisibleKept
  <2>6. Visible(NewestInfos)' = Visible(InfosAt(c))'
    BY <2>4
  <2> QED
    BY <2>4, <2>5, <2>6
<1> QED
  BY <1>1, <1>2

\* what a reader of a commit finds in one of its barrels
Shown(b, c) ==
    {dirs[b.id].docs[k] : k \in {k \in DOMAIN dirs[b.id].docs : k - 1 \notin LatestFilter(b.id, b.id, c)}}

\* The commit that is written becomes the newest, after the one before it.
LEMMA WrittenCommit ==
  ASSUME SoundInv, StepInv, WriteCommitFile, NEW c, c = New
  PROVE  /\ c \in Ids /\ pc = "write" /\ pc \in Writes
         /\ dirs[c].docs = work.docs /\ IsSequence(work.docs)
         /\ \A b \in Range(work.infos.barrels) : b.id \in Ids
         /\ NewestInfos = InfosAt(c - 1)
         /\ Visible(NewestInfos) = UNION {Shown(b, c - 1) : b \in Range(InfosAt(c - 1).barrels)}
         /\ Visible(NewestInfos)' = UNION {Shown(b, c) : b \in Range(work.infos.barrels)}
<1>0. DiskInv /\ commits = [k \in Ids |-> commits[k]]
  BY DEF SoundInv, DiskInv, DiskShape
<1>1. pc = "write" /\ pc \in Writes /\ UNCHANGED dirs
      /\ commits' = [commits EXCEPT ![c] = [state |-> "whole", barrels |-> work.infos.barrels]]
  BY DEF WriteCommitFile, Writes
<1>2. c \in Ids /\ c \in Nat /\ IsLast(c) /\ commits[c].state = "torn" /\ dirs[c].docs = work.docs
  BY <1>0, <1>1, IdIsNumber DEF DiskInv, WorkIntact
<1>3. \A k \in Ids : commits[k].state = "whole" => k <= c /\ k # c /\ k \in Nat
  BY <1>2, IdIsNumber, IdsAreNumbers DEF IsLast, Listed
<1>4. \A b \in Range(work.infos.barrels) : b.id \in Ids
  BY <1>0, <1>1, <1>2, IdsAreNumbers DEF DiskInv, WorkIntact, Ids
<1>5. NewestInfos = InfosAt(c - 1)
  <2>1. CASE c - 1 \in Ids
    <3>1. commits[c - 1].state = "whole"
      BY <1>1, <2>1 DEF StepInv
    <3>2. \A k \in Ids : commits[k].state = "whole" => k <= c - 1
      BY <1>2, <1>3
    <3> QED
      BY <2>1, <3>1, <3>2, NewestIs DEF IsNewest
  <2>2. CASE c - 1 \notin Ids
    <3>1. c = 0
      BY <1>2, <2>2, IdsAreNumbers DEF Ids
    <3>2. NoneIsWhole
      BY <1>3, <3>1 DEF NoneIsWhole
    <3>3. InfosAt(c - 1) = NoBarrels
      BY <3>1, IdsAreNumbers DEF InfosAt
    <3> QED
      BY <3>2, <3>3, NewestIs
  <2> QED
    BY <2>1, <2>2
<1>6. InfosAt(c - 1).commit = c - 1
  BY <1>2, IdsAreNumbers DEF InfosAt, NoBarrels
<1>7. Visible(NewestInfos) = UNION {Shown(b, c - 1) : b \in Range(InfosAt(c - 1).barrels)}
  BY <1>5, <1>6 DEF Visible, Shown
<1>8. commits'[c] = [state |-> "whole", barrels |-> work.infos.barrels] /\ \A k \in Ids : k # c => commits'[k] = commits[k]
  BY <1>0, <1>1, <1>2
<1>9. IsNewest(c)'
  <2>1. commits'[c].state = "whole"
    BY <1>8
  <2>2. \A k \in Ids : commits'[k].state = "whole" => k <= c
    BY <1>2, <1>3, <1>8
  <2> QED
    BY <2>1, <2>2 DEF IsNewest
<1>10. PICK infos : infos = [commit |-> c, barrels |-> work.infos.barrels]
  OBVIOUS
<1>11. NewestInfos' = infos
  <2>1. NewestInfos' = InfosAt(c)'
    BY <1>2, <1>9, NewestIsNext
  <2>2. InfosAt(c)' = [commit |-> c, barrels |-> commits'[c].barrels]
    BY <1>2, IdsAreNumbers DEF InfosAt
  <2>3. commits'[c].barrels = work.infos.barrels
    BY <1>8
  <2> QED
    BY <1>10, <2>1, <2>2, <2>3
<1>12. Visible(NewestInfos)' = Visible(infos)'
  BY <1>11
<1>13. \A b \in Range(infos.barrels) : LatestFilter(b.id, b.id, c)' = LatestFilter(b.id, b.id, c)
  <2>1. ASSUME NEW b \in Range(infos.barrels) PROVE LatestFilter(b.id, b.id, c)' = LatestFilter(b.id, b.id, c)
    <3>1. b.id \in Ids /\ c \in Int
      BY <1>2, <1>4, <1>10, <2>1
    <3> QED
      BY <1>1, <3>1, LatestKept
  <2> QED
    BY <2>1
<1>14. infos.commit = c /\ infos.barrels = work.infos.barrels
  BY <1>10
<1>15. Visible(infos)' = UNION {Shown(b, c) : b \in Range(infos.barrels)}
  BY <1>1, <1>13, <1>14 DEF Visible, Shown
<1>16. IsSequence(work.docs)
  BY DEF SoundInv, DocsShape
<1> QED
  BY <1>1, <1>2, <1>4, <1>5, <1>7, <1>12, <1>14, <1>15, <1>16

\* A later commit has more deleted.
LEMMA LatestGrows ==
  ASSUME SoundInv, pc \in Writes, NEW c \in Ids, c = New, NEW b \in Ids
  PROVE  LatestFilter(b, b, c - 1) \subseteq LatestFilter(b, b, c)
<1>1. c \in Nat /\ c \in Int /\ c - 1 \in Int /\ DiskShape /\ FilesGrow
  BY IdIsNumber DEF SoundInv, DiskInv, DeletionsInv
<1>2. CASE LatestFilter(b, b, c - 1) = {}
  BY <1>2
<1>3. ASSUME NEW m \in Ids, m <= c - 1, HasFile(m, b), LatestFilter(b, b, c - 1) = dirs[m].deletions[b]
      PROVE  LatestFilter(b, b, c - 1) \subseteq LatestFilter(b, b, c)
  <2>1. m \in Nat /\ m <= c
    BY <1>1, <1>3, IdIsNumber
  <2>2. PICK k \in Ids : /\ k <= c /\ HasFile(k, b)
                         /\ LatestFilter(b, b, c) = dirs[k].deletions[b]
                         /\ \A d \in Ids : d <= c /\ HasFile(d, b) => d <= k
    BY <1>1, <1>3, <2>1, LatestIsLast
  <2>3. m <= k /\ k \in Nat
    BY <1>3, <2>1, <2>2, IdIsNumber
  <2>4. Begun(k)
    BY <2>2 DEF Begun
  <2>5. CASE m = k
    BY <1>3, <2>2, <2>5
  <2>6. CASE m < k
    BY <1>1, <1>3, <2>2, <2>4, <2>6 DEF FilesGrow
  <2> QED
    BY <2>1, <2>3, <2>5, <2>6
<1> QED
  BY <1>1, <1>2, <1>3, LatestIsLast

\* A batch arrives whole, and with it disappears only what was deleted.
LEMMA BatchArrives ==
  ASSUME SoundInv, BatchInv, WriteCommitFile, BatchInWork, NEW arrived, arrived = Visible(NewestInfos) \cup Range(work.docs)
  PROVE  Visible(NewestInfos)' \subseteq arrived /\ arrived \ Visible(NewestInfos)' \subseteq asked
<1>1. PICK c : c = New
  OBVIOUS
<1> PICK old, barrels : old = Range(InfosAt(c - 1).barrels) /\ barrels = Range(work.infos.barrels)
  OBVIOUS
<1>2. /\ c \in Ids /\ pc = "write" /\ pc \in Writes
      /\ dirs[c].docs = work.docs /\ IsSequence(work.docs)
      /\ \A b \in barrels : b.id \in Ids
      /\ Visible(NewestInfos) = UNION {Shown(b, c - 1) : b \in old}
      /\ Visible(NewestInfos)' = UNION {Shown(b, c) : b \in barrels}
  BY <1>1, WrittenCommit DEF BatchInv
<1>3. PICK last \in barrels : last.id = c /\ barrels = old \cup {last}
  BY <1>1 DEF BatchInv, StepInv, AddsBatch
<1>4. \A b \in barrels : LatestFilter(b.id, b.id, c - 1) \subseteq LatestFilter(b.id, b.id, c)
  BY <1>1, <1>2, LatestGrows
<1>5. DiskShape /\ c \in Int
  BY <1>2, IdIsNumber DEF SoundInv, DiskInv
<1>6. \A b \in barrels : \A k \in DOMAIN dirs[b.id].docs :
         k - 1 \in LatestFilter(b.id, b.id, c) => dirs[b.id].docs[k] \in asked
  <2>1. ASSUME NEW b \in barrels, NEW k \in DOMAIN dirs[b.id].docs, k - 1 \in LatestFilter(b.id, b.id, c)
        PROVE  dirs[b.id].docs[k] \in asked
    <3>1. b.id \in Ids
      BY <1>2
    <3>2. PICK m \in Ids : HasFile(m, b.id) /\ LatestFilter(b.id, b.id, c) = dirs[m].deletions[b.id]
      BY <1>5, <2>1, <3>1, LatestIsLast
    <3> QED
      BY <2>1, <3>1, <3>2 DEF BatchInv, FilesAsked
  <2> QED
    BY <2>1
<1>7. Range(work.docs) = {dirs[last.id].docs[k] : k \in DOMAIN dirs[last.id].docs}
  BY <1>2, <1>3, SequenceShape
<1>8. \A b \in old : Shown(b, c) \subseteq Shown(b, c - 1)
  BY <1>3, <1>4 DEF Shown
<1>9. Shown(last, c) \subseteq Range(work.docs)
  BY <1>7 DEF Shown
<1>10. Visible(NewestInfos)' \subseteq arrived
  BY <1>2, <1>3, <1>8, <1>9
<1>11. ASSUME NEW x \in arrived, x \notin Visible(NewestInfos)' PROVE x \in asked
  <2>1. \E b \in barrels : \E k \in DOMAIN dirs[b.id].docs : x = dirs[b.id].docs[k]
    BY SMTT(60), <1>2, <1>3, <1>7, <1>11 DEF Shown
  <2>2. PICK b \in barrels : \E k \in DOMAIN dirs[b.id].docs : x = dirs[b.id].docs[k]
    BY <2>1
  <2>3. PICK k \in DOMAIN dirs[b.id].docs : x = dirs[b.id].docs[k]
    BY <2>2
  <2>4. x \notin Shown(b, c)
    BY <1>2, <1>11
  <2>5. k - 1 \in LatestFilter(b.id, b.id, c)
    BY <2>3, <2>4 DEF Shown
  <2> QED
    BY <1>6, <2>3, <2>5
<1> QED
  BY <1>10, <1>11

\* A merge changes nothing of what a reader finds.
LEMMA MergeArrives ==
  ASSUME SoundInv, BatchInv, WriteCommitFile, merging # NotMerging
  PROVE  Visible(NewestInfos)' = Visible(NewestInfos)
<1>1. PICK c : c = New
  OBVIOUS
<1> PICK barrels : barrels = Range(work.infos.barrels)
  OBVIOUS
<1>2. /\ c \in Ids /\ pc = "write" /\ pc \in Writes
      /\ dirs[c].docs = work.docs /\ IsSequence(work.docs)
      /\ NewestInfos = InfosAt(c - 1)
      /\ Visible(NewestInfos)' = UNION {Shown(b, c) : b \in barrels}
  BY <1>1, WrittenCommit DEF BatchInv
<1>3. MakesOne /\ DOMAIN dirs[c].deletions = {}
  BY <1>1, <1>2 DEF BatchInv, StepInv, DirsInv
<1>4. PICK last : last.id = c /\ barrels = {last}
  BY <1>1, <1>3 DEF MakesOne
<1>5. LatestFilter(c, c, c) = {}
  <2>1. DiskShape /\ c \in Int
    BY <1>2, IdIsNumber DEF SoundInv, DiskInv
  <2>2. \A m \in Ids : m <= c /\ HasFile(m, c) => m = c
    BY <1>2, IdIsNumber DEF HasFile
  <2>3. ~HasFile(c, c)
    BY <1>3 DEF HasFile
  <2> QED
    BY <1>2, <2>1, <2>2, <2>3, LatestIsLast
<1>6. Shown(last, c) = Range(work.docs)
  BY <1>2, <1>4, <1>5, SequenceShape DEF Shown
<1>7. Range(work.docs) = Visible(InfosAt(c - 1))
  BY <1>1, <1>3 DEF MakesOne
<1> QED
  BY <1>2, <1>4, <1>6, <1>7

\* the batches that wait, the one in work first
Batches ==
    (IF BatchInWork THEN <<Range(work.docs)>> ELSE <<>>)
    \o [i \in DOMAIN pending |-> Range(pending[i].docs)]

\* all that was handed in, without what is being built
SealedDocs == 1..(handedIn - Len(building.docs))

LEMMA BatchesAre ==
  IsSequence(pending) =>
      /\ IsSequence(Batches)
      /\ BatchInWork => /\ Len(Batches) = Len(pending) + 1 /\ Batches[1] = Range(work.docs)
                        /\ \A i \in 1..Len(pending) : Batches[i + 1] = Range(pending[i].docs)
      /\ ~BatchInWork => /\ Len(Batches) = Len(pending)
                         /\ \A i \in 1..Len(pending) : Batches[i] = Range(pending[i].docs)
<1> SUFFICES ASSUME IsSequence(pending)
             PROVE  /\ IsSequence(Batches)
                    /\ BatchInWork => /\ Len(Batches) = Len(pending) + 1 /\ Batches[1] = Range(work.docs)
                                      /\ \A i \in 1..Len(pending) : Batches[i + 1] = Range(pending[i].docs)
                    /\ ~BatchInWork => /\ Len(Batches) = Len(pending)
                                       /\ \A i \in 1..Len(pending) : Batches[i] = Range(pending[i].docs)
  OBVIOUS
<1>1. PICK n \in Nat : n = Len(pending) /\ DOMAIN pending = 1..n
  BY SequenceShape
<1>2. PICK rest : rest = [i \in DOMAIN pending |-> Range(pending[i].docs)]
  OBVIOUS
<1>3. Len(rest) = n /\ IsSequence(rest) /\ \A i \in 1..n : rest[i] = Range(pending[i].docs)
  <2>1. rest = [i \in 1..n |-> Range(pending[i].docs)]
    BY <1>1, <1>2
  <2>2. Len(rest) = n /\ IsSequence(rest)
    BY <2>1, FunctionSequence
  <2> QED
    BY <2>1, <2>2
<1>4. CASE BatchInWork
  <2>1. PICK first : first = <<Range(work.docs)>>
    OBVIOUS
  <2>2. Len(first) = 1 /\ first[1] = Range(work.docs)
    BY <2>1
  <2>3. IsSequence(first)
    <3>1. PICK x : x = Range(work.docs)
      OBVIOUS
    <3>2. <<x>> \in Seq({x})
      OBVIOUS
    <3> QED
      BY <2>1, <3>1, <3>2, SequenceOf
  <2>4. Batches = first \o rest
    BY <1>2, <1>4, <2>1 DEF Batches
  <2>5. /\ IsSequence(Batches) /\ Len(Batches) = Len(first) + Len(rest)
        /\ \A i \in 1..Len(first) : Batches[i] = first[i]
        /\ \A i \in 1..Len(rest) : Batches[Len(first) + i] = rest[i]
    <3>1. /\ IsSequence(first \o rest)
          /\ Range(first \o rest) = Range(first) \cup Range(rest)
          /\ Len(first \o rest) = Len(first) + Len(rest)
          /\ \A i \in 1..Len(first) : (first \o rest)[i] = first[i]
          /\ \A i \in 1..Len(rest) : (first \o rest)[Len(first) + i] = rest[i]
      BY <1>3, <2>3, ConcatSequence
    <3> QED
      BY <2>4, <3>1
  <2>6. Len(Batches) = 1 + n /\ Batches[1] = first[1] /\ \A i \in 1..n : Batches[1 + i] = rest[i]
    BY <1>3, <2>2, <2>5
  <2>7. Len(Batches) = n + 1 /\ Batches[1] = Range(work.docs)
    BY <1>1, <2>2, <2>6
  <2>8. \A i \in 1..n : Batches[i + 1] = Range(pending[i].docs)
    BY <1>1, <1>3, <2>6
  <2> QED
    BY <1>1, <1>4, <2>5, <2>7, <2>8
<1>5. CASE ~BatchInWork
  <2>1. Batches = <<>> \o rest
    BY <1>2, <1>5 DEF Batches
  <2>2. /\ IsSequence(Batches) /\ Len(Batches) = 0 + n
        /\ \A i \in 1..n : Batches[0 + i] = rest[i]
    BY <1>3, <2>1, EmptySequence, ConcatSequence
  <2>3. Len(Batches) = n /\ \A i \in 1..n : Batches[i] = Range(pending[i].docs)
    BY <1>1, <1>3, <2>2
  <2> QED
    BY <1>1, <1>5, <2>2, <2>3
<1> QED
  BY <1>4, <1>5

LEMMA BatchesAreNext ==
  IsSequence(pending') =>
      /\ IsSequence(Batches')
      /\ BatchInWork' => /\ Len(Batches') = Len(pending') + 1 /\ Batches'[1] = Range(work'.docs)
                         /\ \A i \in 1..Len(pending') : Batches'[i + 1] = Range(pending'[i].docs)
      /\ ~BatchInWork' => /\ Len(Batches') = Len(pending')
                          /\ \A i \in 1..Len(pending') : Batches'[i] = Range(pending'[i].docs)
<1>1. (IsSequence(pending) =>
      /\ IsSequence(Batches)
      /\ BatchInWork => /\ Len(Batches) = Len(pending) + 1 /\ Batches[1] = Range(work.docs)
                        /\ \A i \in 1..Len(pending) : Batches[i + 1] = Range(pending[i].docs)
      /\ ~BatchInWork => /\ Len(Batches) = Len(pending)
                         /\ \A i \in 1..Len(pending) : Batches[i] = Range(pending[i].docs))'
  BY BatchesAre, PTL
<1> QED
  BY <1>1

LEMMA BatchesStay ==
  ASSUME UNCHANGED pending, BatchInWork' <=> BatchInWork, BatchInWork => UNCHANGED work
  PROVE  Batches' = Batches
BY DEF Batches

\* The commit thread takes the next batch ...
LEMMA BatchesTaken ==
  ASSUME SoundInv, PlacesInv, TakeBatch
  PROVE  Batches' = Batches
<1>1. /\ Writing' /\ pc = "idle" /\ pc' = "data" /\ pending # <<>> /\ pending' = Tail(pending)
      /\ work'.docs = pending[1].docs
  BY TakenBatch
<1>2. IsSequence(pending) /\ BatchInWork' /\ ~BatchInWork
  BY <1>1 DEF SoundInv, DiskInv, MemoryShape, BatchInWork, Writing
<1>3. PICK n \in Nat : n = Len(pending)
  BY <1>2, SequenceShape
<1>4. IsSequence(pending') /\ Len(pending') = n - 1 /\ \A i \in 1..(n - 1) : pending'[i] = pending[i + 1]
  BY <1>1, <1>2, <1>3, TailSequence
<1>5. IsSequence(Batches) /\ Len(Batches) = n /\ \A i \in 1..n : Batches[i] = Range(pending[i].docs)
  BY <1>2, <1>3, BatchesAre
<1>6. /\ IsSequence(Batches') /\ Len(Batches') = n
      /\ Batches'[1] = Range(work'.docs) /\ \A i \in 1..(n - 1) : Batches'[i + 1] = Range(pending'[i].docs)
  <2>1. Len(pending') + 1 = n
    BY <1>4
  <2> QED
    BY <1>2, <1>4, <2>1, BatchesAreNext
<1>7. \A i \in 1..n : Batches'[i] = Batches[i]
  <2>1. Batches'[1] = Range(pending[1].docs)
    BY <1>1, <1>6
  <2>2. ASSUME NEW i \in 1..n, i # 1 PROVE Batches'[i] = Range(pending[i].docs)
    <3>1. PICK k \in Int : k = i - 1
      BY <2>2
    <3>2. k \in 1..(n - 1) /\ k + 1 = i
      BY <2>2, <3>1
    <3>3. Batches'[k + 1] = Range(pending'[k].docs) /\ pending'[k] = pending[k + 1]
      BY <1>4, <1>6, <3>2
    <3> QED
      BY <3>2, <3>3
  <2> QED
    BY <1>5, <2>1, <2>2
<1> QED
  BY <1>5, <1>6, <1>7, SameSequence

\* ... and has written it;
LEMMA BatchesWritten ==
  ASSUME IsSequence(pending), BatchInWork, ~BatchInWork', UNCHANGED pending
  PROVE  Batches # <<>> /\ Batches' = Tail(Batches) /\ Head(Batches) = Range(work.docs)
<1>1. PICK n \in Nat : n = Len(pending)
  BY SequenceShape
<1>2. /\ IsSequence(Batches) /\ Len(Batches) = n + 1 /\ Batches[1] = Range(work.docs)
      /\ \A i \in 1..n : Batches[i + 1] = Range(pending[i].docs)
  BY <1>1, BatchesAre
<1>3. IsSequence(Batches') /\ Len(Batches') = n /\ \A i \in 1..n : Batches'[i] = Range(pending[i].docs)
  BY <1>1, BatchesAreNext
<1>4. Batches # <<>>
  BY <1>1, <1>2, SequenceShape
<1>5. PICK m : m = Len(Batches)
  OBVIOUS
<1>6. m - 1 = n
  BY <1>1, <1>2, <1>5
<1>7. /\ IsSequence(Tail(Batches)) /\ Len(Tail(Batches)) = m - 1
      /\ \A i \in 1..(m - 1) : Tail(Batches)[i] = Batches[i + 1]
      /\ Head(Batches) = Batches[1]
  BY <1>2, <1>4, <1>5, TailSequence
<1>8. Tail(Batches) = Batches'
  BY <1>2, <1>3, <1>6, <1>7, SameSequence
<1> QED
  BY <1>2, <1>4, <1>7, <1>8

\* a new one comes last;
LEMMA BatchesSealed ==
  ASSUME SoundInv, PlacesInv, status = "open", SealDocuments \/ SealDeletions, UNCHANGED <<pc, work, merging>>
  PROVE  Batches' = Append(Batches, Range(building.docs))
<1>1. /\ IsSequence(pending) /\ IsSequence(pending') /\ Len(pending') = Len(pending) + 1
      /\ \A i \in 1..Len(pending) : pending'[i] = pending[i]
      /\ pending'[Len(pending) + 1].docs = building.docs
  BY Sealing
<1>2. PICK n \in Nat : n = Len(pending)
  BY <1>1, SequenceShape
<1>3. BatchInWork' <=> BatchInWork
  BY DEF BatchInWork
<1>4. PICK s, t, batch : s = Batches /\ t = Batches' /\ batch = Range(building.docs)
  OBVIOUS
<1>5. PICK e \in Nat : e = IF BatchInWork THEN 1 ELSE 0
  OBVIOUS
<1>6. IsSequence(s) /\ Len(s) = n + e /\ \A i \in 1..n : s[i + e] = Range(pending[i].docs)
  <2>1. \A i \in 1..n : i + 0 = i
    OBVIOUS
  <2> QED
    BY <1>1, <1>2, <1>4, <1>5, <2>1, BatchesAre
<1>7. IsSequence(t) /\ Len(t) = n + 1 + e /\ \A i \in 1..(n + 1) : t[i + e] = Range(pending'[i].docs)
  <2>1. \A i \in 1..(n + 1) : i + 0 = i
    OBVIOUS
  <2> QED
    BY <1>1, <1>2, <1>3, <1>4, <1>5, <2>1, BatchesAreNext
<1>8. e = 1 => s[1] = Range(work.docs) /\ t[1] = Range(work.docs)
  BY <1>1, <1>3, <1>4, <1>5, BatchesAre, BatchesAreNext
<1>9. ASSUME NEW i \in 1..(n + e) PROVE t[i] = s[i]
  <2>1. CASE e = 1 /\ i = 1
    BY <1>8, <2>1
  <2>2. CASE ~(e = 1 /\ i = 1)
    <3>1. PICK k \in Int : k = i - e
      OBVIOUS
    <3>2. k \in 1..n /\ k \in 1..(n + 1) /\ k + e = i
      BY <1>5, <2>2, <3>1
    <3>3. pending'[k] = pending[k]
      BY <1>1, <1>2, <3>2
    <3>4. t[k + e] = Range(pending'[k].docs) /\ s[k + e] = Range(pending[k].docs)
      BY <1>6, <1>7, <3>2
    <3> QED
      BY <3>2, <3>3, <3>4
  <2> QED
    BY <2>1, <2>2
<1>10. t[n + e + 1] = batch
  <2>1. n + 1 \in 1..(n + 1) /\ (n + 1) + e = n + e + 1
    OBVIOUS
  <2> QED
    BY <1>1, <1>2, <1>4, <1>7, <2>1
<1>11. PICK m \in Nat : m = n + e
  OBVIOUS
<1>12. /\ IsSequence(Append(s, batch)) /\ Len(Append(s, batch)) = m + 1
       /\ \A i \in 1..m : Append(s, batch)[i] = s[i]
       /\ Append(s, batch)[m + 1] = batch
  BY <1>6, <1>11, AppendSequence
<1>13. Len(t) = m + 1 /\ t[m + 1] = batch /\ \A i \in 1..m : t[i] = s[i]
  BY <1>7, <1>9, <1>10, <1>11
<1>14. \A i \in 1..(m + 1) : t[i] = Append(s, batch)[i]
  <2>1. \A i \in 1..(m + 1) : i \in 1..m \/ i = m + 1
    OBVIOUS
  <2> QED
    BY <1>12, <1>13, <2>1
<1> QED
  BY <1>4, <1>7, <1>12, <1>13, <1>14, SameSequence

\* and when the process ends none is left.
LEMMA BatchesLost ==
  ASSUME pending' = <<>>, pc' = "idle"
  PROVE  Batches' = <<>>
<1>1. ~BatchInWork'
  BY DEF BatchInWork
<1>2. IsSequence(pending') /\ Len(pending') = 0
  BY EmptySequence
<1>3. IsSequence(Batches') /\ Len(Batches') = 0
  BY <1>1, <1>2, BatchesAreNext
<1> QED
  BY <1>3, SequenceShape

\* Sealing moves what is being built to the end of the queue.
LEMMA SealIsSeal ==
  ASSUME SoundInv, PlacesInv, HistoryInv, HandedInv, status = "open", SealDocuments \/ SealDeletions,
         building' = NoBuilding, UNCHANGED <<commits, dirs, pc, work, merging, handedIn, asked>>,
         Visible(NewestInfos)' = Visible(NewestInfos)
  PROVE  Abstract!Seal
<1>1. Batches' = Append(Batches, Range(building.docs))
  BY BatchesSealed
<1> PICK s : s = building.docs
  OBVIOUS
<1>2. PICK n \in Nat : s = building.docs /\ n = Len(s)
  BY SequenceShape DEF SoundInv, DocsShape
<1>3. Range(s) = {s[i] : i \in 1..n} /\ handedIn \in Nat /\ handedIn <= MaxDocs /\ Range(s) \subseteq 1..handedIn
      /\ MaxDocs \in Nat
  BY <1>2, SequenceShape, BoundAssumption DEF SoundInv, DocsShape, PlacesInv, BuildingInv, HistoryInv
<1>4. \A i \in 1..n : s[i] = handedIn - n + i
  BY <1>2 DEF HandedInv
<1>5. n <= handedIn
  BY <1>2, <1>3, FewDocs DEF SoundInv, DocsShape, PlacesInv, BuildingInv
<1>6. Range(s) = (1..handedIn) \ (1..(handedIn - n))
  <2>1. ASSUME NEW x \in Range(s) PROVE x \in 1..handedIn /\ x \notin 1..(handedIn - n)
    <3>1. PICK i \in 1..n : x = handedIn - n + i
      BY <1>3, <1>4
    <3> QED
      BY <1>3, <3>1
  <2>2. ASSUME NEW x \in 1..handedIn, x \notin 1..(handedIn - n) PROVE x \in Range(s)
    <3>1. PICK m \in Int : m = handedIn - n
      BY <1>3
    <3>2. x \in Int /\ x <= m + n /\ ~(x <= m) /\ n \in Int
      BY <1>3, <2>2, <3>1
    <3>3. PICK i \in Int : i = x - m
      BY <3>2
    <3>4. i \in 1..n /\ x = m + i
      BY <3>2, <3>3
    <3> QED
      BY <1>3, <1>4, <3>1, <3>4
  <2> QED
    BY <2>1, <2>2
<1>7. SealedDocs = 1..(handedIn - n) /\ SealedDocs' = 1..handedIn
  <2>1. Len(NoBuilding.docs) = 0 /\ handedIn - 0 = handedIn
    BY <1>3 DEF NoBuilding
  <2> QED
    BY <1>2, <2>1 DEF SealedDocs
<1>8. 1..(handedIn - n) \subseteq 1..handedIn /\ 1..handedIn \subseteq Documents
  BY <1>2, <1>3 DEF Documents
<1>9. Range(building.docs) \in SUBSET (Documents \ SealedDocs) /\ SealedDocs' = SealedDocs \cup Range(building.docs)
  BY <1>2, <1>6, <1>7, <1>8
<1> QED
  BY <1>1, <1>9 DEF Abstract!Seal, Batches, SealedDocs

\* Nothing is left of what was not written when the process ends.
LEMMA EndLoses ==
  ASSUME SoundInv, PlacesInv, HistoryInv, Forgotten, pc' = "idle", UNCHANGED <<handedIn, asked>>,
         Visible(NewestInfos)' = Visible(NewestInfos)
  PROVE  Abstract!Lose
<1>1. Batches' = <<>>
  BY BatchesLost DEF Forgotten
<1>2. PICK n \in Nat : n = Len(building.docs)
  BY SequenceShape DEF SoundInv, DocsShape
<1>3. handedIn \in Nat /\ handedIn <= MaxDocs /\ MaxDocs \in Nat
  BY BoundAssumption DEF HistoryInv
<1>4. SealedDocs = 1..(handedIn - n) /\ SealedDocs' = 1..handedIn
  <2>1. Len(building'.docs) = 0 /\ handedIn - 0 = handedIn
    BY <1>3 DEF Forgotten, NoBuilding
  <2> QED
    BY <1>2, <2>1 DEF SealedDocs
<1>5. 1..(handedIn - n) \subseteq 1..handedIn /\ 1..handedIn \subseteq Documents
  BY <1>2, <1>3 DEF Documents
<1>6. 1..handedIn \in SUBSET Documents /\ SealedDocs' = SealedDocs \cup (1..handedIn)
  BY <1>4, <1>5
<1> QED
  BY <1>1, <1>6 DEF Abstract!Lose, Batches, SealedDocs

\* A commit file, once written, is the next batch or a merge.
LEMMA WriteIsCommit ==
  ASSUME SoundInv, BatchInv, WriteCommitFile
  PROVE  Abstract!Commit \/ UNCHANGED Abstract!vars
<1>1. /\ pc = "write" /\ pc' \in {"clean", "merge", "proposal"}
      /\ UNCHANGED <<building, pending, merging, handedIn, asked>>
  BY DEF WriteCommitFile, memory, history
<1>2. SealedDocs' = SealedDocs /\ IsSequence(pending) /\ ~BatchInWork'
  BY <1>1 DEF SealedDocs, SoundInv, DiskInv, MemoryShape, BatchInWork
<1>3. CASE merging = NotMerging
  <2>1. BatchInWork
    BY <1>1, <1>3 DEF BatchInWork
  <2>2. Batches # <<>> /\ Batches' = Tail(Batches) /\ Head(Batches) = Range(work.docs)
    BY <1>1, <1>2, <2>1, BatchesWritten
  <2>3. PICK arrived : arrived = Visible(NewestInfos) \cup Range(work.docs)
    OBVIOUS
  <2>4. Visible(NewestInfos)' \subseteq arrived /\ arrived \ Visible(NewestInfos)' \subseteq asked
    BY <2>1, <2>3, BatchArrives
  <2> QED
    BY <1>1, <1>2, <2>2, <2>3, <2>4 DEF Abstract!Commit, Batches, SealedDocs
<1>4. CASE merging # NotMerging
  <2>1. Visible(NewestInfos)' = Visible(NewestInfos)
    BY <1>4, MergeArrives
  <2>2. Batches' = Batches
    BY <1>1, <1>2, <1>4, BatchesStay DEF BatchInWork
  <2> QED
    BY <1>1, <1>2, <2>1, <2>2 DEF Abstract!vars, Batches, SealedDocs
<1> QED
  BY <1>3, <1>4

\* The steps that change neither the queue nor what is built.
LEMMA ThreadIsSilent ==
  ASSUME SoundInv, PlacesInv,
         \/ Open \/ LastMerge \/ TakeBatch \/ WriteData \/ WriteDeletions \/ WriteRest
         \/ CreateCommitFile \/ DropCommit \/ Reserve \/ RemoveDir \/ Merge \/ MergeProposal
         \/ Cleaned /\ UNCHANGED memory
         \/ UNCHANGED storeVars
  PROVE  Batches' = Batches /\ UNCHANGED <<building, handedIn, asked>> /\ ~WriteCommitFile
<1>1. CASE Open \/ UNCHANGED storeVars
  <2>1. UNCHANGED <<pending, work, merging, pc, building, handedIn, asked>>
    BY <1>1 DEF Open, storeVars, memory, thread, history
  <2> QED
    BY <2>1, BatchesStay DEF BatchInWork, WriteCommitFile
<1>2. CASE LastMerge
  <2>1. UNCHANGED <<pending, work, building, handedIn, asked>> /\ pc = "idle" /\ pc' = "merge"
    BY <1>2 DEF LastMerge, MergeWith, history
  <2> QED
    BY <2>1, BatchesStay DEF BatchInWork, WriteCommitFile
<1>3. CASE TakeBatch
  <2>1. pc = "idle" /\ UNCHANGED <<building, handedIn, asked>>
    BY <1>3, TakenBatch
  <2> QED
    BY <1>3, <2>1, BatchesTaken DEF WriteCommitFile
<1>4. CASE WriteData \/ WriteDeletions \/ WriteRest \/ CreateCommitFile
  <2>1. /\ UNCHANGED <<pending, work, merging, building, handedIn, asked>>
        /\ pc \in {"data", "deletions", "rest", "create"} /\ pc' \in {"data", "deletions", "rest", "create", "write"}
    BY <1>4 DEF WriteData, WriteDeletions, WriteRest, CreateCommitFile, memory, history
  <2> QED
    BY <2>1, BatchesStay DEF BatchInWork, WriteCommitFile
<1>5. CASE DropCommit \/ Reserve \/ RemoveDir \/ (Cleaned /\ UNCHANGED memory) \/ Merge
  <2>1. /\ UNCHANGED <<pending, building, handedIn, asked>>
        /\ pc \in {"clean", "dirs", "merge"} /\ pc' \in {"clean", "dirs", "idle", "proposal"}
    BY <1>5 DEF DropCommit, Reserve, RemoveDir, Cleaned, Merge, memory, history
  <2> QED
    BY <2>1, BatchesStay DEF BatchInWork, WriteCommitFile
<1>6. CASE MergeProposal
  <2>1. UNCHANGED <<status, pending, building, handedIn, asked>> /\ pc = "proposal"
    BY <1>6 DEF MergeProposal, history
  <2>2. ~Writing' /\ status = "closing"
    BY <1>6, <2>1, NoLongerWriting DEF SoundInv, DiskInv, Phases
  <2>3. ~BatchInWork /\ ~BatchInWork'
    BY <2>1, <2>2 DEF BatchInWork, Writing
  <2> QED
    BY <2>1, <2>3, BatchesStay DEF WriteCommitFile
<1> QED
  BY <1>1, <1>2, <1>3, <1>4, <1>5, <1>6

LEMMA StepIsAtomic ==
  SoundInv /\ PlacesInv /\ ShapeInv /\ BatchInv /\ [StoreNext]_storeVars => [Abstract!Next]_(Abstract!vars)
<1> SUFFICES ASSUME SoundInv, PlacesInv, ShapeInv, BatchInv, [StoreNext]_storeVars
             PROVE  Abstract!Next \/ UNCHANGED Abstract!vars
  OBVIOUS
<1>1. HistoryInv /\ HandedInv /\ RowInv
  BY DEF ShapeInv, BatchInv
<1>2. ~WriteCommitFile => Visible(NewestInfos)' = Visible(NewestInfos)
  BY <1>1, FoundKept
<1>3. ASSUME Batches' = Batches, building'.docs = building.docs, UNCHANGED <<handedIn, asked>>, ~WriteCommitFile
      PROVE  UNCHANGED Abstract!vars
  <2>1. SealedDocs' = SealedDocs
    BY <1>3 DEF SealedDocs
  <2> QED
    BY <1>2, <1>3, <2>1 DEF Abstract!vars, Batches, SealedDocs
<1>4. CASE \/ Open \/ LastMerge \/ TakeBatch \/ WriteData \/ WriteDeletions \/ WriteRest
           \/ CreateCommitFile \/ DropCommit \/ Reserve \/ RemoveDir \/ Merge \/ MergeProposal
           \/ Cleaned /\ UNCHANGED memory
           \/ UNCHANGED storeVars
  BY <1>3, <1>4, ThreadIsSilent
<1>5. CASE Add
  <2>1. /\ handedIn' = handedIn + 1 /\ building' = [building EXCEPT !.docs = Append(@, handedIn + 1)]
        /\ UNCHANGED <<pending, merging, pc, work, asked>>
    BY <1>5 DEF Add, thread
  <2>2. Batches' = Batches /\ ~WriteCommitFile
    BY <2>1, BatchesStay DEF BatchInWork, WriteCommitFile
  <2>3. PICK s : s = building.docs
    OBVIOUS
  <2>4. IsSequence(s) /\ building'.docs = Append(s, handedIn + 1) /\ Len(s) \in Nat /\ handedIn \in Nat
    BY <1>1, <2>1, <2>3, SequenceShape, BoundAssumption DEF SoundInv, DocsShape, HistoryInv
  <2>5. Len(building'.docs) = Len(s) + 1
    BY <2>4, AppendSequence
  <2>6. handedIn' - Len(building'.docs) = handedIn - Len(s)
    BY <2>1, <2>4, <2>5
  <2>7. SealedDocs' = SealedDocs
    BY <2>3, <2>6 DEF SealedDocs
  <2> QED
    BY <1>2, <2>1, <2>2, <2>7 DEF Abstract!vars, Batches, SealedDocs
<1>6. CASE Seal \/ (Close /\ (SealDocuments \/ SealDeletions))
  <2>1. /\ status = "open" /\ (SealDocuments \/ SealDeletions) /\ building' = NoBuilding
        /\ UNCHANGED <<commits, dirs, pc, work, merging, handedIn, asked>>
    BY <1>6 DEF Seal, Close, disk, thread, history
  <2>2. ~WriteCommitFile
    BY <2>1 DEF WriteCommitFile
  <2> QED
    BY <1>1, <1>2, <2>1, <2>2, SealIsSeal DEF Abstract!Next
<1>7. CASE Close /\ ~(SealDocuments \/ SealDeletions)
  <2>1. /\ building.docs = <<>> /\ building' = NoBuilding
        /\ UNCHANGED <<pending, merging, pc, work, handedIn, asked>>
    BY <1>7 DEF Close, disk, thread, history
  <2>2. Batches' = Batches /\ ~WriteCommitFile /\ building'.docs = building.docs
    BY <2>1, BatchesStay DEF BatchInWork, WriteCommitFile, NoBuilding
  <2> QED
    BY <1>3, <2>1, <2>2
<1>8. CASE \E d \in Documents : DeleteOnDisk(d) \/ DeleteInMemory(d)
  <2>1. PICK d \in Documents : DeleteOnDisk(d) \/ DeleteInMemory(d)
    BY <1>8
  <2>2. asked' = asked \cup {d} /\ UNCHANGED <<pending, merging, pc, work, handedIn>>
    BY <2>1 DEF DeleteOnDisk, DeleteInMemory, thread
  <2>3. building'.docs = building.docs
    BY <2>1 DEF DeleteOnDisk, DeleteInMemory, SoundInv, DocsShape
  <2>4. Batches' = Batches /\ ~WriteCommitFile
    BY <2>2, BatchesStay DEF BatchInWork, WriteCommitFile
  <2>5. SealedDocs' = SealedDocs
    BY <2>2, <2>3 DEF SealedDocs
  <2>6. Abstract!Ask
    BY <1>2, <2>2, <2>4, <2>5 DEF Abstract!Ask, Batches, SealedDocs
  <2> QED
    BY <2>6 DEF Abstract!Next
<1>9. CASE Crash \/ MergeAborts \/ (Cleaned /\ Forgotten)
  <2>1. Forgotten /\ pc' = "idle" /\ UNCHANGED <<handedIn, asked>>
    BY <1>9 DEF Crash, MergeAborts, Cleaned, history
  <2>2. ~WriteCommitFile
    BY <2>1 DEF WriteCommitFile
  <2> QED
    BY <1>1, <1>2, <2>1, <2>2, EndLoses DEF Abstract!Next
<1>10. CASE WriteCommitFile
  BY <1>10, WriteIsCommit DEF Abstract!Next
<1>11. CASE Cleaned
  BY <1>4, <1>9, <1>11 DEF Cleaned
<1> QED
  BY <1>4, <1>5, <1>6, <1>7, <1>8, <1>9, <1>10, <1>11 DEF StoreNext, CommitThread

LEMMA InitIsAtomic == StoreInit => Abstract!Init
<1> SUFFICES ASSUME StoreInit PROVE Abstract!Init
  OBVIOUS
<1>1. /\ pc = "idle" /\ building = NoBuilding /\ pending = <<>> /\ handedIn = 0 /\ asked = {}
      /\ \A c \in Ids : commits[c].state # "whole"
  BY DEF StoreInit, NotRunning, NoFile
<1>2. NewestInfos = NoBarrels
  BY <1>1, NewestIs DEF NoneIsWhole
<1>3. Visible(NewestInfos) = {}
  <2>1. NoBarrels.barrels = <<>> /\ Range(<<>>) = {}
    BY EmptySequence DEF NoBarrels
  <2> QED
    BY <1>2, <2>1 DEF Visible
<1>4. Batches = <<>>
  <2>1. ~BatchInWork /\ IsSequence(pending) /\ Len(pending) = 0
    BY <1>1, EmptySequence DEF BatchInWork
  <2>2. IsSequence(Batches) /\ Len(Batches) = 0
    BY <2>1, BatchesAre
  <2> QED
    BY <2>2, SequenceShape
<1>5. SealedDocs = {}
  BY <1>1 DEF SealedDocs, NoBuilding
<1> QED
  BY <1>1, <1>3, <1>4, <1>5 DEF Abstract!Init, Batches, SealedDocs

\* Where a merge is of all the barrels at once, batches reach the disk one by one, each as
\* a whole and in the order of sealing, and a document disappears only if it was deleted:
\* nothing else that the commit thread, a merge, the cleaner or a crash does changes what a
\* reader of the newest commit finds (IndexBarrelWriter::commit, DeletedDocumentFilter::commit,
\* BarrelsInfo::write, IndexMerger::merge, KeepByCommitIndexCleaner::cleanup).
THEOREM StoreIsAtomic == ASSUME MergesAtOnce PROVE StoreSpec => ImplementsAtomicStore
<1>1. SoundInv /\ PlacesInv /\ ShapeInv /\ BatchInv /\ [StoreNext]_storeVars => [Abstract!Next]_(Abstract!vars)
  BY StepIsAtomic
<1> QED
  BY <1>1, InitIsAtomic, StoreBatches, PTL DEF StoreSpec, ImplementsAtomicStore, Abstract!Spec

=============================================================================
