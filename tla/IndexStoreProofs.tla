---------------------------- MODULE IndexStoreProofs ----------------------------
(***************************************************************************)
(* What is proved of the files of an index, for any number of documents,   *)
(* deletions, commits, crashes and kept commits, and for any merge policy: *)
(* they are whole, known and not too many; what a policy proposes is made  *)
(* of the barrels there are, each once; the numberings of the keeper and   *)
(* of the commit thread agree, and a key leads to its document.            *)
(***************************************************************************)
EXTENDS IndexStore, SequenceLemmas

-----------------------------------------------------------------------------
(* The inductive invariant                                                 *)

IsFile(f) ==
    /\ f = [state |-> f.state, barrels |-> f.barrels]
    /\ f.state \in {"absent", "torn", "whole"}
    /\ IsSequence(f.barrels)
    /\ f.state # "whole" => f.barrels = <<>>

IsDir(dir) ==
    /\ dir = [state |-> dir.state, docs |-> dir.docs, deletions |-> dir.deletions]
    /\ dir.state \in {"absent", "filling", "whole"}
    /\ dir.state = "absent" => DOMAIN dir.deletions = {}

DiskShape ==
    /\ commits = [c \in Ids |-> commits[c]] /\ \A c \in Ids : IsFile(commits[c])
    /\ dirs = [c \in Ids |-> dirs[c]] /\ \A c \in Ids : IsDir(dirs[c])

\* where the commit thread is between making a directory and writing the commit file
Writes == {"data", "deletions", "rest", "create", "write"}

IsList(infos) ==
    /\ infos = [commit |-> infos.commit, barrels |-> infos.barrels]
    /\ IsSequence(infos.barrels)

MemoryShape ==
    /\ IsList(keeper) /\ keeper.commit \in Int
    /\ bits = [c \in Ids |-> bits[c]]
    /\ IsSequence(pending)
    /\ \A i \in DOMAIN pending : pending[i].barrel.count = Len(pending[i].docs)
    /\ merging = [policy |-> merging.policy, proposals |-> merging.proposals]

ThreadShape ==
    /\ work = [infos |-> work.infos, docs |-> work.docs, dirty |-> work.dirty, last |-> work.last]
    /\ IsList(work.infos) /\ New \in Ids \cup {INVALID_COMMIT}
    /\ pc \in Writes \cup {"idle", "clean", "dirs", "merge", "proposal"}
    /\ stale \subseteq Ids
    /\ crashes \in Nat

\* The thread works only while the process runs, and merges last.
Phases ==
    /\ status \in {"closed", "open", "closing", "aborted"}
    /\ status \in {"closed", "aborted"} => pc = "idle" /\ pending = <<>>
    /\ pc \notin {"clean", "dirs"} => stale = {}
    /\ pc \in {"merge", "proposal"} => merging # NotMerging
    /\ merging # NotMerging =>
          /\ merging.policy \in Policies /\ status = "closing" /\ pending = <<>>
          /\ pc \in Writes \cup {"proposal"} => work.dirty = {}

\* the directory of a barrel is complete
Intact(b) == dirs[b.id].state = "whole" /\ Len(dirs[b.id].docs) = b.count

CommitsIntact ==
    \A c \in Ids : \A b \in Range(commits[c].barrels) : b.id \in 0..c /\ Intact(b)

TornIsNewest ==
    \A c \in Ids : commits[c].state = "torn" =>
        /\ IsLast(c)
        /\ (pc = "write" /\ New = c) \/ (crashes > 0 /\ status = "closed")

\* What is being written is the next commit, of barrels that are on disk and of the one
\* whose directory is being filled.
WorkIntact ==
    /\ pc \in Writes =>
          /\ New \in Ids
          /\ IsLast(IF pc = "write" THEN New ELSE New - 1)
          /\ dirs[New].state = IF pc \in {"create", "write"} THEN "whole" ELSE "filling"
          /\ pc # "data" => dirs[New].docs = work.docs
          /\ \A b \in Range(work.infos.barrels) :
                \/ b.id = New /\ b.count = Len(work.docs)
                \/ b.id \in 0..(New - 1) /\ Intact(b)
          /\ \E b \in Range(work.infos.barrels) : b.id = New
    /\ pc = "write" => commits[New].state = "torn"
    /\ pc = "proposal" =>
          /\ New \in Ids /\ IsLast(New)
          /\ commits[New] = [state |-> "whole", barrels |-> work.infos.barrels]

\* What the cleaner will remove belongs to no commit.
StaleUnused == pc = "dirs" => \A c \in Listed : stale \cap Referenced(c) = {}

DiskInv ==
    /\ DiskShape /\ MemoryShape /\ ThreadShape /\ Phases
    /\ CommitsIntact /\ TornIsNewest /\ WorkIntact /\ StaleUnused

-----------------------------------------------------------------------------
(* Lists of barrels                                                        *)

LEMMA NewBarrelAppends ==
  ASSUME NEW infos, NEW count, NEW gone, IsList(infos)
  PROVE  LET list == NewBarrel(infos, count, gone)
             new == Last(list.barrels)
         IN /\ IsList(list) /\ list.commit = infos.commit + 1
            /\ Range(list.barrels) = Range(infos.barrels) \cup {new}
            /\ new.id = infos.commit + 1 /\ new.count = count
<1> DEFINE e == [id |-> infos.commit + 1, base |-> NextBase(infos), count |-> count, deleted |-> gone]
           b == Append(infos.barrels, e)
<1>1. NewBarrel(infos, count, gone) = [commit |-> infos.commit + 1, barrels |-> b]
  BY DEF NewBarrel
<1>2. IsSequence(b) /\ Range(b) = Range(infos.barrels) \cup {e} /\ Last(b) = e
  BY AppendSequence DEF IsList
<1> HIDE DEF b
<1> QED
  BY <1>1, <1>2 DEF IsList

\* What is selected from a sequence keeps its order.
LEMMA SelectionKeeps ==
  ASSUME NEW s, IsSequence(s), NEW P \in SUBSET (1..Len(s))
  PROVE  LET t == Selection(s)[P]
         IN /\ IsSequence(t)
            /\ Range(t) = {s[i] : i \in P}
            /\ \E from \in [1..Len(t) -> P] :
                  /\ \A k \in 1..Len(t) : t[k] = s[from[k]]
                  /\ \A k, l \in 1..Len(t) : k < l => from[k] < from[l]
<1> DEFINE S == Seq(Range(s))
           n == Len(s)
           step == [i \in 1..n |-> [t \in S |-> IF i \in P THEN Append(t, s[i]) ELSE t]]
           IsUpto(f) == f = [i \in 0..n |-> IF i = 0 THEN <<>>
                                            ELSE IF i \in P THEN Append(f[i - 1], s[i])
                                            ELSE f[i - 1]]
           Places(m, t) ==
              /\ IsSequence(t)
              /\ Range(t) = {s[i] : i \in P \cap (1..m)}
              /\ \E from \in [1..Len(t) -> P \cap (1..m)] :
                    /\ \A k \in 1..Len(t) : t[k] = s[from[k]]
                    /\ \A k, l \in 1..Len(t) : k < l => from[k] < from[l]
<1>1. n \in Nat /\ DOMAIN s = 1..n /\ \A i \in 1..n : s[i] \in Range(s)
  BY SequenceShape
<1>2. <<>> \in S /\ step \in [1..n -> [S -> S]]
  BY <1>1, AppendProperties, EmptySeq
<1>3. PICK f \in [0..n -> S] : f[0] = <<>> /\ \A i \in 1..n : f[i] = step[i][f[i - 1]]
  <2>1. n \in Nat /\ <<>> \in S /\ step \in [1..n -> [S -> S]]
    BY <1>1, <1>2
  <2> HIDE DEF S, n, step
  <2> QED
    BY <2>1, Recursion
<1>4. \A i \in 1..n : i - 1 \in 0..n /\ f[i - 1] \in S
  <2> HIDE DEF S, n
  <2> QED
    BY <1>1, <1>3
<1>5. \A i \in 1..n : f[i] = IF i \in P THEN Append(f[i - 1], s[i]) ELSE f[i - 1]
  <2> HIDE DEF S, n
  <2> QED
    BY <1>1, <1>3, <1>4
<1>6. IsUpto(f)
  <2> HIDE DEF S, n, step
  <2>1. f = [i \in 0..n |-> f[i]]
    BY <1>3
  <2>2. \A i \in 0..n : i # 0 => i \in 1..n
    BY <1>1
  <2> QED
    BY <1>3, <1>5, <2>1, <2>2
<1> DEFINE upto == CHOOSE g : IsUpto(g)
<1>7. /\ upto[0] = <<>>
      /\ \A i \in 1..n : upto[i] = IF i \in P THEN Append(upto[i - 1], s[i]) ELSE upto[i - 1]
  <2>1. IsUpto(upto)
    <3> HIDE DEF IsUpto
    <3> QED
      BY <1>6
  <2> HIDE DEF upto, n
  <2>2. \A i \in 0..n : upto[i] = IF i = 0 THEN <<>>
                                 ELSE IF i \in P THEN Append(upto[i - 1], s[i])
                                 ELSE upto[i - 1]
    BY <2>1, Zenon
  <2> QED
    BY <1>1, <2>2
<1>8. Selection(s)[P] = upto[n]
  BY <1>1 DEF Selection
<1> HIDE DEF upto
<1> DEFINE T == {i \in 0..n : Places(i, upto[i])}
<1>9. 0 \in T
  <2>1. [k \in 1..0 |-> 1] \in [1..0 -> P \cap (1..0)]
    OBVIOUS
  <2>2. P \cap (1..0) = {}
    OBVIOUS
  <2>3. Places(0, <<>>)
    BY <2>1, <2>2, EmptySequence
  <2> HIDE DEF Places
  <2> QED
    BY <1>1, <1>7, <2>3
<1>10. ASSUME NEW i \in 1..n, i - 1 \in T PROVE i \in T
  <2> DEFINE r == upto[i - 1]
             t == upto[i]
             Q == P \cap (1..(i - 1))
  <2>1. Places(i - 1, r) /\ i \in 0..n /\ i \in Nat
    <3> HIDE DEF Places
    <3> QED
      BY <1>1, <1>10
  <2>2. PICK from \in [1..Len(r) -> Q] :
            /\ \A k \in 1..Len(r) : r[k] = s[from[k]]
            /\ \A k, l \in 1..Len(r) : k < l => from[k] < from[l]
    BY <2>1
  <2>3. IsSequence(r) /\ Range(r) = {s[k] : k \in Q} /\ Len(r) \in Nat
    BY <2>1, SequenceShape
  <2>4. CASE i \notin P
    <3>1. P \cap (1..i) = Q
      BY <2>1, <2>4
    <3>2. t = r
      BY <1>7, <2>4
    <3> HIDE DEF t, r, Q, Places
    <3>3. Places(i, t)
      BY <2>1, <3>1, <3>2 DEF Places, Q
    <3> QED
      BY <2>1, <3>3 DEF t
  <2>5. CASE i \in P
    <3> DEFINE to == [k \in 1..Len(t) |-> IF k <= Len(r) THEN from[k] ELSE i]
    <3>1. P \cap (1..i) = Q \cup {i}
      BY <2>1, <2>5
    <3>2. t = Append(r, s[i])
      BY <1>7, <2>5
    <3> HIDE DEF r, Q
    <3> HIDE DEF t
    <3>3. /\ IsSequence(t) /\ Range(t) = Range(r) \cup {s[i]} /\ Len(t) = Len(r) + 1
          /\ \A k \in 1..Len(r) : t[k] = r[k]
          /\ t[Len(r) + 1] = s[i]
      BY <2>3, <3>2, AppendSequence
    <3>4. Range(t) = {s[k] : k \in Q \cup {i}}
      BY <2>3, <3>3
    <3>5. ASSUME NEW k \in 1..Len(t)
          PROVE  \/ k \in 1..Len(r) /\ to[k] = from[k] /\ from[k] \in Q /\ t[k] = s[from[k]]
                 \/ k = Len(r) + 1 /\ to[k] = i /\ t[k] = s[i]
      <4>1. CASE k <= Len(r)
        BY <2>2, <2>3, <3>3, <4>1
      <4>2. CASE k > Len(r)
        BY <2>3, <3>3, <4>2
      <4> QED
        BY <2>3, <3>3, <4>1, <4>2
    <3>6. to \in [1..Len(t) -> Q \cup {i}]
      <4>1. to = [k \in 1..Len(t) |-> to[k]]
        OBVIOUS
      <4> HIDE DEF to
      <4> QED
        BY <3>5, <4>1
    <3> HIDE DEF to
    <3>7. \A k \in 1..Len(t) : t[k] = s[to[k]]
      BY <3>5
    <3>8. ASSUME NEW k \in 1..Len(t), NEW l \in 1..Len(t), k < l PROVE to[k] < to[l]
      <4>1. k \in 1..Len(r) /\ to[k] = from[k] /\ from[k] \in Q
        BY <2>3, <3>3, <3>5, <3>8
      <4>2. \A q \in Q : q < i
        BY <2>1 DEF Q
      <4> QED
        BY <2>2, <3>5, <3>8, <4>1, <4>2
    <3>9. Places(i, t)
      BY <3>1, <3>3, <3>4, <3>6, <3>7, <3>8
    <3> HIDE DEF Places
    <3> QED
      BY <2>1, <3>9 DEF t
  <2> QED
    BY <2>4, <2>5
<1>11. Places(n, upto[n])
  <2> HIDE DEF Places, T
  <2>1. 0..n \subseteq T
    BY <1>1, <1>9, <1>10, InductionUpto
  <2> QED
    BY <1>1, <2>1 DEF T
<1>12. P \cap (1..n) = P
  OBVIOUS
<1> HIDE DEF n
<1> QED
  BY <1>8, <1>11, <1>12

LEMMA WithoutBarrelsKeeps ==
  ASSUME NEW infos, NEW proposal, IsList(infos)
  PROVE  LET rest == WithoutBarrels(infos, proposal)
         IN /\ IsList(rest) /\ rest.commit = infos.commit
            /\ Range(rest.barrels) = Range(infos.barrels) \ Range(proposal.barrels)
            /\ \E from \in [1..Len(rest.barrels) -> 1..Len(infos.barrels)] :
                  /\ \A k \in 1..Len(rest.barrels) : rest.barrels[k] = infos.barrels[from[k]]
                  /\ \A k, l \in 1..Len(rest.barrels) : k < l => from[k] < from[l]
<1> DEFINE s == infos.barrels
           P == {i \in DOMAIN s : s[i] \notin Range(proposal.barrels)}
           t == Selection(s)[P]
<1>1. /\ IsSequence(s) /\ P \in SUBSET (1..Len(s))
      /\ WithoutBarrels(infos, proposal) = [commit |-> infos.commit, barrels |-> t]
  BY SequenceShape DEF IsList, WithoutBarrels
<1>2. Range(s) = {s[i] : i \in 1..Len(s)} /\ DOMAIN s = 1..Len(s)
  BY <1>1, SequenceShape
<1>3. {s[i] : i \in P} = Range(s) \ Range(proposal.barrels)
  BY <1>2
<1> HIDE DEF P
<1>4. /\ IsSequence(t) /\ Range(t) = {s[i] : i \in P}
      /\ \E from \in [1..Len(t) -> P] :
            /\ \A k \in 1..Len(t) : t[k] = s[from[k]]
            /\ \A k, l \in 1..Len(t) : k < l => from[k] < from[l]
  <2>1. IsSequence(s) /\ P \in SUBSET (1..Len(s))
    BY <1>1
  <2> HIDE DEF s
  <2>2. LET u == Selection(s)[P]
        IN /\ IsSequence(u)
           /\ Range(u) = {s[i] : i \in P}
           /\ \E from \in [1..Len(u) -> P] :
                 /\ \A k \in 1..Len(u) : u[k] = s[from[k]]
                 /\ \A k, l \in 1..Len(u) : k < l => from[k] < from[l]
    BY <2>1, SelectionKeeps
  <2> HIDE DEF t
  <2> QED
    BY <2>2 DEF t
<1> HIDE DEF t
<1>5. PICK from \in [1..Len(t) -> P] :
          /\ \A k \in 1..Len(t) : t[k] = s[from[k]]
          /\ \A k, l \in 1..Len(t) : k < l => from[k] < from[l]
  BY <1>4
<1>6. from \in [1..Len(t) -> 1..Len(s)]
  BY <1>1, <1>5
<1> DEFINE rest == WithoutBarrels(infos, proposal)
<1>7. rest.commit = infos.commit /\ rest.barrels = t /\ rest = [commit |-> infos.commit, barrels |-> t]
  BY <1>1
<1> HIDE DEF rest
<1>8. IsList(rest) /\ Range(rest.barrels) = Range(s) \ Range(proposal.barrels)
  BY <1>3, <1>4, <1>7 DEF IsList
<1>9. \E to \in [1..Len(rest.barrels) -> 1..Len(s)] :
         /\ \A k \in 1..Len(rest.barrels) : rest.barrels[k] = s[to[k]]
         /\ \A k, l \in 1..Len(rest.barrels) : k < l => to[k] < to[l]
  BY <1>5, <1>6, <1>7
<1> QED
  BY <1>7, <1>8, <1>9 DEF rest

-----------------------------------------------------------------------------
(* Steps that leave the files alone                                        *)

LEMMA IdsAreNumbers == MaxCommit \in Nat /\ Ids \subseteq Nat /\ INVALID_COMMIT = -1 /\ -1 \notin Ids
BY BoundAssumption DEF Ids, INVALID_COMMIT

LEMMA OneLast == \A c, d : IsLast(c) /\ IsLast(d) => c = d
<1>1. \A c, d \in Listed : c \in Int /\ d \in Int
  BY IdsAreNumbers DEF Listed
<1> QED
  BY <1>1 DEF IsLast

\* A newest commit that can be read leaves no torn file.
LEMMA NoneTorn ==
  ASSUME TornIsNewest, NEW c, IsLast(c), Readable(c)
  PROVE  \A k \in Ids : commits[k].state # "torn"
BY OneLast DEF TornIsNewest, Readable

LEMMA FilesStay ==
  ASSUME DiskInv, UNCHANGED disk
  PROVE  DiskShape' /\ CommitsIntact' /\ Listed' = Listed /\ \A c : IsLast(c)' <=> IsLast(c)
BY DEF DiskInv, disk, DiskShape, CommitsIntact, Intact, Listed, IsLast

LEMMA ThreadStays ==
  ASSUME DiskInv, UNCHANGED <<disk, thread, crashes>>
  PROVE  ThreadShape' /\ WorkIntact' /\ StaleUnused'
<1>1. ThreadShape'
  BY DEF DiskInv, thread, ThreadShape, New
<1>2. WorkIntact'
  BY FilesStay DEF DiskInv, disk, thread, WorkIntact, Intact, New
<1>3. StaleUnused'
  BY FilesStay DEF DiskInv, disk, thread, StaleUnused, Referenced
<1> QED
  BY <1>1, <1>2, <1>3

LEMMA InfosAtIsList ==
  ASSUME DiskShape, NEW c \in Ids \cup {INVALID_COMMIT}
  PROVE  IsList(InfosAt(c)) /\ InfosAt(c).commit = c /\ c \in Int
         /\ InfosAt(c).barrels = IF c = INVALID_COMMIT THEN <<>> ELSE commits[c].barrels
BY IdsAreNumbers, EmptySequence DEF DiskShape, IsFile, IsList, InfosAt, NoBarrels

LEMMA OpenKeepsDisk == ASSUME DiskInv, Open PROVE DiskInv'
<1> USE DEF DiskInv
<1>1. PICK c \in Ids \cup {INVALID_COMMIT} :
         IsLast(c) /\ Readable(c) /\ keeper' = InfosAt(c) /\ bits' = OpenedBits(InfosAt(c))
  BY DEF Open
<1>2. DiskShape' /\ CommitsIntact' /\ ThreadShape' /\ WorkIntact' /\ StaleUnused'
  BY FilesStay, ThreadStays DEF Open, history
<1>3. MemoryShape'
  <2>1. bits' = [d \in Ids |-> bits'[d]]
    BY <1>1 DEF OpenedBits
  <2> QED
    BY <1>1, <2>1, InfosAtIsList DEF Open, MemoryShape
<1>4. Phases'
  BY DEF Open, Phases, thread
<1>5. TornIsNewest'
  BY <1>1, NoneTorn DEF Open, disk, TornIsNewest
<1> QED
  BY <1>2, <1>3, <1>4, <1>5

\* What sealing does to memory.
LEMMA SealShapes ==
  ASSUME MemoryShape, SealDocuments \/ SealDeletions
  PROVE  /\ IsList(keeper') /\ keeper'.commit = keeper.commit + 1
         /\ IsSequence(pending') /\ Len(pending') = Len(pending) + 1
         /\ \A i \in DOMAIN pending' : pending'[i].barrel.count = Len(pending'[i].docs)
         /\ bits' = [d \in Ids |-> bits'[d]]
         /\ \A d \in Ids : d # keeper.commit + 1 => bits'[d] = bits[d]
<1> DEFINE Is(count, docs, p) == p.barrel.count = count /\ p.docs = docs
<1>1. \E count, gone, p : /\ keeper' = NewBarrel(keeper, count, gone)
                          /\ pending' = Append(pending, p)
                          /\ p.barrel.count = Len(p.docs)
  <2>1. CASE SealDocuments
    <3> DEFINE infos == NewBarrel(keeper, Len(building.docs), Cardinality(building.deleted))
    <3>1. PICK f : pending' = Append(pending, Sealed(infos, building.docs, f)) /\ keeper' = infos
      BY <2>1 DEF SealDocuments
    <3>2. Last(infos.barrels).count = Len(building.docs)
      BY NewBarrelAppends DEF MemoryShape
    <3> QED
      BY <3>1, <3>2 DEF Sealed
  <2>2. CASE SealDeletions
    <3> DEFINE infos == NewBarrel(keeper, 0, 0)
    <3>1. pending' = Append(pending, Sealed(infos, <<>>, filter)) /\ keeper' = infos
      BY <2>2 DEF SealDeletions
    <3>2. Last(infos.barrels).count = 0
      BY NewBarrelAppends DEF MemoryShape
    <3> QED
      BY <3>1, <3>2 DEF Sealed
  <2> QED
    BY <2>1, <2>2
<1>2. IsList(keeper') /\ keeper'.commit = keeper.commit + 1
  BY <1>1, NewBarrelAppends DEF MemoryShape
<1>3. /\ IsSequence(pending') /\ Len(pending') = Len(pending) + 1
      /\ \A i \in DOMAIN pending' : pending'[i].barrel.count = Len(pending'[i].docs)
  <2>1. PICK p : pending' = Append(pending, p) /\ p.barrel.count = Len(p.docs)
    BY <1>1
  <2>2. /\ IsSequence(pending') /\ Len(pending') = Len(pending) + 1
        /\ \A i \in 1..Len(pending) : pending'[i] = pending[i]
        /\ pending'[Len(pending) + 1] = p
    BY <2>1, AppendSequence DEF MemoryShape
  <2>3. /\ DOMAIN pending = 1..Len(pending) /\ Len(pending) \in Nat
        /\ DOMAIN pending' = 1..(Len(pending) + 1)
    BY <2>2, SequenceShape DEF MemoryShape
  <2>4. \A i \in DOMAIN pending' : i \in DOMAIN pending \/ i = Len(pending) + 1
    BY <2>3
  <2> QED
    BY <2>1, <2>2, <2>3, <2>4 DEF MemoryShape
<1>4. /\ bits' = [d \in Ids |-> bits'[d]]
      /\ \A d \in Ids : d # keeper.commit + 1 => bits'[d] = bits[d]
  <2>1. CASE SealDocuments
    <3>1. Last(NewBarrel(keeper, Len(building.docs), Cardinality(building.deleted)).barrels).id
          = keeper.commit + 1
      BY NewBarrelAppends DEF MemoryShape
    <3>2. \E new : bits' = [bits EXCEPT ![keeper.commit + 1] = new]
      BY <2>1, <3>1 DEF SealDocuments
    <3> QED
      BY <3>2 DEF MemoryShape
  <2>2. CASE SealDeletions
    BY <2>2 DEF SealDeletions, MemoryShape
  <2> QED
    BY <2>1, <2>2
<1> QED
  BY <1>2, <1>3, <1>4

LEMMA SealKeepsMemoryShape ==
  ASSUME MemoryShape, SealDocuments \/ SealDeletions, UNCHANGED merging
  PROVE  MemoryShape'
BY SealShapes DEF MemoryShape

\* The last merge may be by any policy: the steps of IndexStore and of IndexMerging.
AnyMerge == \E policy \in Policies : MergeWith(policy)
WriterNext == StoreNext \/ AnyMerge

LEMMA LastMergeIsAny == LastMerge => AnyMerge
BY StrategyAssumption DEF LastMerge, AnyMerge

\* The client's other steps and the sealing of a barrel.
LEMMA ClientKeepsDisk ==
  ASSUME DiskInv,
         \/ Add \/ Seal \/ Close \/ AnyMerge
         \/ \E d \in Documents : DeleteOnDisk(d) \/ DeleteInMemory(d)
  PROVE  DiskInv'
<1> USE DEF DiskInv
<1>1. CASE Add
  <2>1. DiskShape' /\ CommitsIntact' /\ ThreadShape' /\ WorkIntact' /\ StaleUnused'
    BY <1>1, FilesStay, ThreadStays DEF Add
  <2>2. MemoryShape' /\ Phases' /\ TornIsNewest'
    BY <1>1, FilesStay DEF Add, MemoryShape, Phases, TornIsNewest, disk, thread, New
  <2> QED
    BY <2>1, <2>2
<1>2. CASE Seal
  <2>1. DiskShape' /\ CommitsIntact' /\ ThreadShape' /\ WorkIntact' /\ StaleUnused'
    BY <1>2, FilesStay, ThreadStays DEF Seal, history
  <2>2. MemoryShape'
    BY <1>2, SealKeepsMemoryShape DEF Seal
  <2>3. merging = NotMerging
    BY <1>2 DEF Seal, Phases
  <2>4. Phases' /\ TornIsNewest'
    BY <1>2, <2>3, FilesStay DEF Seal, Phases, TornIsNewest, disk, thread, New, history
  <2> QED
    BY <2>1, <2>2, <2>4
<1>3. CASE Close
  <2>1. DiskShape' /\ CommitsIntact' /\ ThreadShape' /\ WorkIntact' /\ StaleUnused'
    BY <1>3, FilesStay, ThreadStays DEF Close, history
  <2>2. MemoryShape'
    <3>1. CASE UNCHANGED <<keeper, filter, bits, keyIndex, pending>>
      BY <1>3, <3>1 DEF Close, MemoryShape
    <3> QED
      BY <1>3, <3>1, SealKeepsMemoryShape DEF Close
  <2>3. merging = NotMerging
    BY <1>3 DEF Close, Phases
  <2>4. Phases' /\ TornIsNewest'
    BY <1>3, <2>3, FilesStay DEF Close, Phases, TornIsNewest, disk, thread, New, history
  <2> QED
    BY <2>1, <2>2, <2>4
<1>4. CASE AnyMerge
  <2> PICK policy \in Policies : MergeWith(policy)
    BY <1>4 DEF AnyMerge
  <2>1. DiskShape' /\ CommitsIntact' /\ MemoryShape'
    BY FilesStay DEF MergeWith, MemoryShape, NotMerging
  <2>2. ThreadShape' /\ WorkIntact' /\ StaleUnused'
    BY DEF MergeWith, ThreadShape, WorkIntact, StaleUnused, New, Writes, history
  <2>3. Phases' /\ TornIsNewest'
    <3>1. merging'.policy = policy /\ merging' # NotMerging
      BY DEF MergeWith, NotMerging, Policies
    <3> QED
      BY <3>1, FilesStay DEF MergeWith, Phases, TornIsNewest, disk, history, Writes
  <2> QED
    BY <2>1, <2>2, <2>3
<1>5. ASSUME NEW d \in Documents, DeleteOnDisk(d) PROVE DiskInv'
  <2>1. DiskShape' /\ CommitsIntact' /\ ThreadShape' /\ WorkIntact' /\ StaleUnused'
    BY <1>5, FilesStay, ThreadStays DEF DeleteOnDisk
  <2>2. MemoryShape'
    <3>1. \E b, more : bits' = [bits EXCEPT ![b] = more]
      BY <1>5 DEF DeleteOnDisk
    <3> QED
      BY <1>5, <3>1 DEF DeleteOnDisk, MemoryShape
  <2>3. Phases' /\ TornIsNewest'
    BY <1>5, FilesStay DEF DeleteOnDisk, Phases, TornIsNewest, disk, thread, New
  <2> QED
    BY <2>1, <2>2, <2>3
<1>6. ASSUME NEW d \in Documents, DeleteInMemory(d) PROVE DiskInv'
  <2>1. DiskShape' /\ CommitsIntact' /\ ThreadShape' /\ WorkIntact' /\ StaleUnused'
    BY <1>6, FilesStay, ThreadStays DEF DeleteInMemory
  <2>2. MemoryShape' /\ Phases' /\ TornIsNewest'
    BY <1>6, FilesStay DEF DeleteInMemory, MemoryShape, Phases, TornIsNewest, disk, thread, New
  <2> QED
    BY <2>1, <2>2
<1> QED
  BY <1>1, <1>2, <1>3, <1>4, <1>5, <1>6

LEMMA ForgottenShapes == Forgotten => MemoryShape' /\ pending' = <<>> /\ merging' = NotMerging
BY EmptySequence DEF Forgotten, MemoryShape, IsList, NoBarrels, NotMerging, INVALID_COMMIT

LEMMA CrashKeepsDisk == ASSUME DiskInv, Crash PROVE DiskInv'
<1> USE DEF DiskInv
<1>1. DiskShape' /\ CommitsIntact' /\ MemoryShape'
  BY FilesStay, ForgottenShapes DEF Crash
<1>2. ThreadShape' /\ WorkIntact' /\ StaleUnused'
  BY EmptySequence DEF Crash, ThreadShape, WorkIntact, StaleUnused, NoWork, IsList, NoBarrels, New, Writes
<1>3. Phases' /\ TornIsNewest'
  BY FilesStay, ForgottenShapes DEF Crash, Phases, TornIsNewest, ThreadShape, disk
<1> QED
  BY <1>1, <1>2, <1>3

LEMMA MergeKeepsDisk == ASSUME DiskInv, Merge \/ MergeAborts PROVE DiskInv'
<1> USE DEF DiskInv
<1>1. DiskShape' /\ CommitsIntact'
  BY FilesStay DEF Merge, MergeAborts
<1>2. CASE Merge
  <2>1. PICK c, parts :
           /\ c \in Ids \cup {INVALID_COMMIT}
           /\ IsLast(c) /\ Readable(c)
           /\ pc' = IF parts = <<>> THEN "clean" ELSE "proposal"
           /\ work' = IF parts = <<>> THEN NoWork ELSE [NoWork EXCEPT !.infos = InfosAt(c)]
           /\ merging' = [merging EXCEPT !.proposals = parts]
           /\ \E proposals : parts = Parts(InfosAt(c), proposals)
    BY <1>2 DEF Merge
  <2>2. c = INVALID_COMMIT => parts = <<>>
    <3>1. c = INVALID_COMMIT => Len(InfosAt(c).barrels) = 0
      BY InfosAtIsList, EmptySequence
    <3> QED
      BY <2>1, <3>1 DEF Parts
  <2>3. MemoryShape'
    BY <1>2, <2>1 DEF Merge, MemoryShape
  <2>4. ThreadShape' /\ StaleUnused'
    BY <1>2, <2>1, <2>2, InfosAtIsList, EmptySequence DEF Merge, ThreadShape, StaleUnused, NoWork, IsList, NoBarrels, New, history
  <2>5. WorkIntact'
    <3>1. CASE parts = <<>>
      BY <2>1, <3>1 DEF WorkIntact, Writes
    <3>2. CASE parts # <<>>
      <4>1. c \in Ids /\ commits[c].state = "whole"
        BY <2>1, <2>2, <3>2 DEF Readable
      <4>2. work'.infos = InfosAt(c) /\ New' = c /\ pc' = "proposal"
        BY <2>1, <3>2, InfosAtIsList DEF NoWork, New
      <4>3. commits[c] = [state |-> "whole", barrels |-> InfosAt(c).barrels]
        <5>1. InfosAt(c).barrels = commits[c].barrels
          BY <4>1, InfosAtIsList, IdsAreNumbers
        <5>2. commits[c] = [state |-> commits[c].state, barrels |-> commits[c].barrels]
          BY <4>1 DEF DiskShape, IsFile
        <5> QED
          BY <4>1, <5>1, <5>2
      <4>4. UNCHANGED disk
        BY <1>2 DEF Merge
      <4> QED
        BY <2>1, <4>1, <4>2, <4>3, <4>4, FilesStay DEF WorkIntact, Writes, disk, New
    <3> QED
      BY <3>1, <3>2
  <2>6. Phases' /\ TornIsNewest'
    <3>1. merging # NotMerging /\ merging'.policy = merging.policy /\ "none" \notin Policies
      BY <1>2, <2>1 DEF Merge, Phases, MemoryShape, Policies
    <3>2. Phases'
      BY <1>2, <2>1, <3>1 DEF Merge, Phases, NoWork, NotMerging, Writes
    <3>3. TornIsNewest'
      BY <1>2, <2>1, NoneTorn DEF Merge, TornIsNewest, disk
    <3> QED
      BY <3>2, <3>3
  <2> QED
    BY <1>1, <2>3, <2>4, <2>5, <2>6
<1>3. CASE MergeAborts
  <2>1. MemoryShape'
    BY <1>3, ForgottenShapes DEF MergeAborts
  <2>2. ThreadShape' /\ WorkIntact' /\ StaleUnused'
    BY <1>3 DEF MergeAborts, ThreadShape, WorkIntact, StaleUnused, New, Writes, history
  <2>3. Phases' /\ TornIsNewest'
    <3>1. \A c \in Ids : commits[c].state # "torn"
      BY <1>3, NoneTorn DEF MergeAborts
    <3> QED
      BY <1>3, <3>1, ForgottenShapes DEF MergeAborts, Phases, TornIsNewest, disk
  <2> QED
    BY <1>1, <2>1, <2>2, <2>3
<1> QED
  BY <1>2, <1>3

-----------------------------------------------------------------------------
(* Steps of the commit thread that change files                            *)

\* the commit that is written is newer than the others, its directory theirs to spare
LEMMA TakeBatchKeepsDisk == ASSUME DiskInv, TakeBatch PROVE DiskInv'
<1> USE DEF DiskInv
<1>1. PICK c \in Ids \cup {INVALID_COMMIT} :
         /\ IsLast(c) /\ Readable(c) /\ c < MaxCommit
         /\ work' = [infos |-> NewBarrel(InfosAt(c), Head(pending).barrel.count,
                                         Head(pending).barrel.deleted),
                     docs  |-> Head(pending).docs,
                     dirty |-> Head(pending).dirty,
                     last  |-> Head(pending).last]
         /\ dirs' = [dirs EXCEPT ![c + 1] = [NoDir EXCEPT !.state = "filling"]]
  BY DEF TakeBatch
<1>2. c + 1 \in Ids /\ c + 1 > c /\ (c + 1) - 1 = c /\ c \in Int
  BY <1>1, IdsAreNumbers DEF Ids
<1>3. \A k \in Listed : k < c + 1
  BY <1>1, <1>2, IdsAreNumbers DEF IsLast, Listed
<1>4. /\ commits' = commits /\ Listed' = Listed /\ \A k : IsLast(k)' <=> IsLast(k)
      /\ \A d \in Ids : d # c + 1 => dirs'[d] = dirs[d]
      /\ dirs'[c + 1] = [state |-> "filling", docs |-> <<>>, deletions |-> <<>>]
  BY <1>1, <1>2 DEF TakeBatch, DiskShape, Listed, IsLast, NoDir
<1>5. /\ IsList(work'.infos) /\ New' = c + 1
      /\ \E new : /\ Range(work'.infos.barrels) = Range(InfosAt(c).barrels) \cup {new}
                  /\ new.id = c + 1 /\ new.count = Len(work'.docs)
  <2>1. Head(pending).barrel.count = Len(Head(pending).docs)
    BY TailSequence DEF TakeBatch, MemoryShape
  <2>2. IsList(InfosAt(c)) /\ InfosAt(c).commit = c
    BY <1>1, InfosAtIsList
  <2> DEFINE list == NewBarrel(InfosAt(c), Head(pending).barrel.count, Head(pending).barrel.deleted)
             new == Last(list.barrels)
  <2>3. /\ IsList(list) /\ list.commit = c + 1
        /\ Range(list.barrels) = Range(InfosAt(c).barrels) \cup {new}
        /\ new.id = c + 1 /\ new.count = Head(pending).barrel.count
    BY <2>2, NewBarrelAppends
  <2> HIDE DEF list, new
  <2>4. work'.infos = list /\ work'.docs = Head(pending).docs
    BY <1>1 DEF list
  <2> QED
    BY <2>1, <2>3, <2>4 DEF New
<1>6. DiskShape'
  BY <1>1, <1>2, <1>4 DEF DiskShape, IsDir
<1>7. MemoryShape'
  BY TailSequence DEF TakeBatch, MemoryShape
<1>8. ThreadShape'
  BY <1>1, <1>2, <1>5 DEF TakeBatch, ThreadShape, Writes, history
<1>9. Phases'
  BY DEF TakeBatch, Phases
<1>10. CommitsIntact'
  <2>1. \A k \in Ids : \A b \in Range(commits[k].barrels) : k \in Listed
    BY EmptySequence DEF DiskShape, IsFile, Listed
  <2>2. \A k \in Ids : \A b \in Range(commits[k].barrels) : b.id \in Ids /\ b.id # c + 1
    BY <1>2, <1>3, <2>1, IdsAreNumbers DEF CommitsIntact, Ids
  <2> QED
    BY <1>4, <2>2 DEF CommitsIntact, Intact
<1>11. TornIsNewest'
  BY <1>1, <1>4, NoneTorn DEF TornIsNewest
<1>12. WorkIntact'
  <2>1. \A b \in Range(InfosAt(c).barrels) : b.id \in 0..c /\ Intact(b)
    BY InfosAtIsList, EmptySequence DEF CommitsIntact
  <2>2. \A b \in Range(InfosAt(c).barrels) : b.id \in 0..c /\ Intact(b)'
    BY <1>2, <1>4, <2>1, IdsAreNumbers DEF Intact, Ids
  <2>3. pc' = "data"
    BY DEF TakeBatch
  <2> QED
    BY <1>1, <1>2, <1>4, <1>5, <2>2, <2>3 DEF WorkIntact, Writes
<1>13. StaleUnused'
  BY DEF TakeBatch, StaleUnused
<1> QED
  BY <1>6, <1>7, <1>8, <1>9, <1>10, <1>11, <1>12, <1>13

LEMMA MergeProposalKeepsDisk == ASSUME DiskInv, MergeProposal PROVE DiskInv'
<1> USE DEF DiskInv
<1>1. PICK proposal, docs :
         /\ work' = [work EXCEPT !.infos = NewBarrel(WithoutBarrels(work.infos, proposal), Len(docs), 0),
                                 !.docs = docs]
         /\ dirs' = [dirs EXCEPT ![New + 1] = [NoDir EXCEPT !.state = "filling"]]
         /\ merging' = [merging EXCEPT !.proposals = Tail(@)]
  BY DEF MergeProposal
<1>2. /\ pc = "proposal" /\ pc' = "data" /\ New \in Ids /\ IsLast(New)
      /\ commits[New] = [state |-> "whole", barrels |-> work.infos.barrels]
  BY DEF MergeProposal, WorkIntact
<1>3. New + 1 \in Ids /\ New + 1 > New /\ (New + 1) - 1 = New
  BY <1>2, IdsAreNumbers DEF MergeProposal, Ids
<1>4. \A k \in Listed : k < New + 1
  BY <1>2, <1>3, IdsAreNumbers DEF IsLast, Listed
<1>5. /\ commits' = commits /\ Listed' = Listed /\ \A k : IsLast(k)' <=> IsLast(k)
      /\ \A d \in Ids : d # New + 1 => dirs'[d] = dirs[d]
      /\ dirs'[New + 1] = [state |-> "filling", docs |-> <<>>, deletions |-> <<>>]
  BY <1>1, <1>3 DEF MergeProposal, DiskShape, Listed, IsLast, NoDir
<1>6. /\ IsList(work'.infos) /\ New' = New + 1 /\ work'.dirty = work.dirty
      /\ work' = [infos |-> work'.infos, docs |-> work'.docs, dirty |-> work'.dirty, last |-> work'.last]
      /\ \E new : /\ Range(work'.infos.barrels) \subseteq Range(work.infos.barrels) \cup {new}
                  /\ new \in Range(work'.infos.barrels)
                  /\ new.id = New + 1 /\ new.count = Len(work'.docs)
  <2> DEFINE rest == WithoutBarrels(work.infos, proposal)
             infos == NewBarrel(rest, Len(docs), 0)
  <2>1. IsList(rest) /\ rest.commit = New /\ Range(rest.barrels) \subseteq Range(work.infos.barrels)
    <3>1. /\ IsList(rest) /\ rest.commit = work.infos.commit
          /\ Range(rest.barrels) = Range(work.infos.barrels) \ Range(proposal.barrels)
      BY WithoutBarrelsKeeps DEF ThreadShape
    <3> HIDE DEF rest
    <3> QED
      BY <3>1 DEF New
  <2>2. /\ IsList(infos) /\ infos.commit = New + 1
        /\ \E new : /\ Range(infos.barrels) = Range(rest.barrels) \cup {new}
                    /\ new.id = New + 1 /\ new.count = Len(docs)
    <3> DEFINE new == Last(infos.barrels)
    <3>1. /\ IsList(infos) /\ infos.commit = rest.commit + 1
          /\ Range(infos.barrels) = Range(rest.barrels) \cup {new}
          /\ new.id = rest.commit + 1 /\ new.count = Len(docs)
      BY ZenonT(60), <2>1, NewBarrelAppends
    <3> HIDE DEF rest, infos, new
    <3> QED
      BY SMTT(60), <2>1, <3>1
  <2>3. work' = [infos |-> infos, docs |-> docs, dirty |-> work.dirty, last |-> work.last]
    BY <1>1 DEF ThreadShape
  <2> HIDE DEF rest, infos
  <2> QED
    BY <2>1, <2>2, <2>3 DEF New
<1>7. DiskShape'
  BY <1>3, <1>5, <1>1 DEF DiskShape, IsDir
<1>8. MemoryShape'
  BY <1>1 DEF MergeProposal, MemoryShape
<1>9. ThreadShape'
  BY <1>2, <1>3, <1>6 DEF MergeProposal, ThreadShape, Writes, history
<1>10. Phases'
  <2>1. merging # NotMerging /\ merging.policy \in Policies /\ merging'.policy = merging.policy
        /\ "none" \notin Policies
    BY <1>1, <1>2 DEF Phases, MemoryShape, Policies
  <2> QED
    BY <1>2, <1>6, <2>1 DEF MergeProposal, Phases, NotMerging
<1>11. CommitsIntact'
  <2>1. \A k \in Ids : \A b \in Range(commits[k].barrels) : k \in Listed
    BY EmptySequence DEF DiskShape, IsFile, Listed
  <2>2. \A k \in Ids : \A b \in Range(commits[k].barrels) : b.id \in Ids /\ b.id # New + 1
    BY <1>3, <1>4, <2>1, IdsAreNumbers DEF CommitsIntact, Ids
  <2> QED
    BY <1>5, <2>2 DEF CommitsIntact, Intact
<1>12. TornIsNewest'
  BY <1>2, <1>5, NoneTorn DEF TornIsNewest, Readable
<1>13. WorkIntact'
  <2>1. \A b \in Range(work.infos.barrels) : b.id \in 0..New /\ Intact(b)
    BY <1>2 DEF CommitsIntact
  <2>2. \A b \in Range(work.infos.barrels) : b.id \in 0..New /\ Intact(b)'
    BY <1>2, <1>3, <1>5, <2>1, IdsAreNumbers DEF Intact, Ids
  <2> QED
    BY <1>2, <1>3, <1>5, <1>6, <2>2 DEF WorkIntact, Writes
<1>14. StaleUnused'
  BY <1>2 DEF StaleUnused
<1> QED
  BY <1>7, <1>8, <1>9, <1>10, <1>11, <1>12, <1>13, <1>14

\* The barrels of a commit that is listed, and those of the list being written, are not
\* in the directory being filled.
LEMMA OthersKeepIntact ==
  ASSUME DiskInv, pc \in Writes, UNCHANGED <<commits, work>>,
         pc # "write",
         \A d \in Ids : d # New => dirs'[d] = dirs[d]
  PROVE  /\ CommitsIntact'
         /\ \A b \in Range(work.infos.barrels) :
               (b.id = New /\ b.count = Len(work.docs)) \/ (b.id \in 0..(New - 1) /\ Intact(b)')
<1>1. WorkIntact /\ CommitsIntact /\ DiskShape
  BY DEF DiskInv
<1>2. New \in Ids /\ New \in Nat /\ IsLast(New - 1)
  BY <1>1, IdsAreNumbers DEF WorkIntact
<1>3. \A k \in Listed : k < New /\ k \in Ids
  BY <1>2, IdsAreNumbers DEF IsLast, Listed
<1>4. \A k \in Ids : \A b \in Range(commits[k].barrels) : k \in Listed
  BY <1>1, EmptySequence DEF DiskShape, IsFile, Listed
<1>5. \A k \in Ids : \A b \in Range(commits[k].barrels) : b.id \in Ids /\ b.id # New
  BY <1>1, <1>2, <1>3, <1>4, IdsAreNumbers DEF CommitsIntact, Ids
<1>6. CommitsIntact'
  BY <1>1, <1>5 DEF CommitsIntact, Intact
<1>7. \A i \in 0..(New - 1) : i \in Ids /\ i # New
  BY <1>2, IdsAreNumbers DEF Ids
<1>8. \A b \in Range(work.infos.barrels) : b.id \in 0..(New - 1) /\ Intact(b) => Intact(b)'
  BY <1>7 DEF Intact
<1>9. \A b \in Range(work.infos.barrels) :
         (b.id = New /\ b.count = Len(work.docs)) \/ (b.id \in 0..(New - 1) /\ Intact(b))
  BY <1>1 DEF WorkIntact
<1> QED
  BY <1>6, <1>8, <1>9

\* WriteData, WriteDeletions and WriteRest fill the directory.
LEMMA FillingFills ==
  ASSUME DiskInv, WriteData \/ WriteDeletions \/ WriteRest
  PROVE  /\ pc \in Writes \ {"write", "create"} /\ pc' \in Writes \ {"write"}
         /\ New \in Ids /\ New' = New /\ dirs[New].state = "filling"
         /\ UNCHANGED <<commits, memory, work, stale, history>>
         /\ dirs' = [d \in Ids |-> dirs'[d]]
         /\ \A d \in Ids : d # New => dirs'[d] = dirs[d]
         /\ dirs'[New] = [state     |-> IF pc' = "create" THEN "whole" ELSE "filling",
                          docs      |-> work.docs,
                          deletions |-> dirs'[New].deletions]
<1> USE DEF DiskInv
<1>1. /\ pc \in Writes \ {"write", "create"} /\ pc' \in Writes \ {"write"}
      /\ New \in Ids /\ New' = New /\ dirs[New].state = "filling"
      /\ dirs[New] = [state |-> dirs[New].state, docs |-> dirs[New].docs,
                      deletions |-> dirs[New].deletions]
  BY DEF WriteData, WriteDeletions, WriteRest, Writes, WorkIntact, DiskShape, IsDir, New
<1>2. /\ UNCHANGED <<commits, memory, work, stale, history>>
      /\ dirs' = [d \in Ids |-> dirs'[d]]
      /\ \A d \in Ids : d # New => dirs'[d] = dirs[d]
      /\ dirs'[New] = [state     |-> IF pc' = "create" THEN "whole" ELSE "filling",
                       docs      |-> work.docs,
                       deletions |-> dirs'[New].deletions]
  <2>1. CASE WriteData
    <3>1. dirs' = [dirs EXCEPT ![New] = [dirs[New] EXCEPT !.docs = work.docs]]
      BY <2>1 DEF WriteData
    <3>2. dirs'[New] = [dirs[New] EXCEPT !.docs = work.docs]
      BY <1>1, <3>1 DEF DiskShape
    <3>3. dirs'[New] = [state |-> "filling", docs |-> work.docs, deletions |-> dirs[New].deletions]
      BY <1>1, <3>2
    <3>4. dirs' = [d \in Ids |-> dirs'[d]] /\ \A d \in Ids : d # New => dirs'[d] = dirs[d]
      BY <3>1 DEF DiskShape
    <3> QED
      BY <2>1, <3>3, <3>4 DEF WriteData
  <2>2. CASE WriteDeletions
    <3>1. dirs[New].docs = work.docs
      BY <2>2 DEF WriteDeletions, WorkIntact, Writes
    <3>2. CASE New >= work.last
      <4> DEFINE found == [b \in work.dirty |-> bits[b]]
      <4>1. dirs' = [dirs EXCEPT ![New] = [dirs[New] EXCEPT !.deletions = found]]
        BY <2>2, <3>2 DEF WriteDeletions
      <4>2. dirs'[New] = [dirs[New] EXCEPT !.deletions = found]
        BY <1>1, <4>1 DEF DiskShape
      <4> HIDE DEF found
      <4>3. dirs'[New] = [state |-> "filling", docs |-> work.docs, deletions |-> found]
        BY <1>1, <3>1, <4>2
      <4>4. dirs' = [d \in Ids |-> dirs'[d]] /\ \A d \in Ids : d # New => dirs'[d] = dirs[d]
        BY <4>1 DEF DiskShape
      <4> QED
        BY <2>2, <4>3, <4>4 DEF WriteDeletions
    <3>3. CASE ~(New >= work.last)
      <4>1. dirs' = dirs
        BY <2>2, <3>3 DEF WriteDeletions
      <4> QED
        BY <1>1, <2>2, <3>1, <4>1 DEF WriteDeletions, DiskShape
    <3> QED
      BY <3>2, <3>3
  <2>3. CASE WriteRest
    <3>1. dirs[New].docs = work.docs
      BY <2>3 DEF WriteRest, WorkIntact, Writes
    <3>2. dirs' = [dirs EXCEPT ![New] = [dirs[New] EXCEPT !.state = "whole"]]
      BY <2>3 DEF WriteRest
    <3>3. dirs'[New] = [dirs[New] EXCEPT !.state = "whole"]
      BY <1>1, <3>2 DEF DiskShape
    <3>4. dirs'[New] = [state |-> "whole", docs |-> work.docs, deletions |-> dirs[New].deletions]
      BY <1>1, <3>1, <3>3
    <3>5. dirs' = [d \in Ids |-> dirs'[d]] /\ \A d \in Ids : d # New => dirs'[d] = dirs[d]
      BY <3>2 DEF DiskShape
    <3> QED
      BY <2>3, <3>4, <3>5 DEF WriteRest
  <2> QED
    BY <2>1, <2>2, <2>3
<1> QED
  BY <1>1, <1>2

LEMMA FillingKeepsDisk ==
  ASSUME DiskInv, WriteData \/ WriteDeletions \/ WriteRest
  PROVE  DiskInv'
<1> USE DEF DiskInv
<1>1. pc \in Writes \ {"write", "create"} /\ pc' \in Writes \ {"write"} /\ New \in Ids /\ New' = New
  BY FillingFills
<1>2. /\ UNCHANGED <<commits, memory, work, stale, history>>
      /\ dirs' = [d \in Ids |-> dirs'[d]]
      /\ \A d \in Ids : d # New => dirs'[d] = dirs[d]
      /\ dirs'[New] = [state     |-> IF pc' = "create" THEN "whole" ELSE "filling",
                       docs      |-> work.docs,
                       deletions |-> dirs'[New].deletions]
  BY FillingFills
<1>3. commits' = commits /\ Listed' = Listed /\ \A k : IsLast(k)' <=> IsLast(k)
  BY <1>2 DEF Listed, IsLast
<1>4. DiskShape'
  <2>1. IsDir(dirs'[New])
    BY <1>2 DEF IsDir
  <2> QED
    BY <1>2, <1>3, <2>1 DEF DiskShape
<1>5. MemoryShape' /\ ThreadShape' /\ Phases'
  <2>1. MemoryShape'
    BY <1>2 DEF memory, MemoryShape
  <2>2. ThreadShape'
    BY <1>1, <1>2 DEF history, ThreadShape, New
  <2>3. Phases'
    BY <1>1, <1>2 DEF memory, Phases, Writes
  <2> QED
    BY <2>1, <2>2, <2>3
<1>6. CommitsIntact'
  BY <1>1, <1>2, OthersKeepIntact
<1>7. TornIsNewest'
  BY <1>1, <1>2, <1>3 DEF TornIsNewest, memory, history
<1>8. WorkIntact'
  <2>1. \A b \in Range(work.infos.barrels) :
           (b.id = New /\ b.count = Len(work.docs)) \/ (b.id \in 0..(New - 1) /\ Intact(b)')
    BY <1>1, <1>2, OthersKeepIntact
  <2>2. IsLast(New - 1)
    BY <1>1 DEF WorkIntact
  <2> QED
    BY <1>1, <1>2, <1>3, <2>1, <2>2 DEF WorkIntact, Writes
<1>9. StaleUnused'
  BY <1>1 DEF StaleUnused, Writes
<1> QED
  BY <1>4, <1>5, <1>6, <1>7, <1>8, <1>9

\* the file is made: for getLastCommit, the commit is there
LEMMA CreateKeepsDisk == ASSUME DiskInv, CreateCommitFile PROVE DiskInv'
<1> USE DEF DiskInv
<1>1. /\ pc = "create" /\ pc' = "write" /\ New \in Ids /\ New' = New /\ New \in Nat /\ IsLast(New - 1)
      /\ UNCHANGED <<dirs, memory, work, stale, history>>
      /\ commits' = [commits EXCEPT ![New] = [state |-> "torn", barrels |-> <<>>]]
  BY IdsAreNumbers DEF CreateCommitFile, Writes, WorkIntact, New
<1>2. /\ commits'[New] = [state |-> "torn", barrels |-> <<>>]
      /\ \A c \in Ids : c # New => commits'[c] = commits[c]
  BY <1>1 DEF DiskShape
<1>3. Listed' = Listed \cup {New}
  BY <1>1, <1>2 DEF Listed
<1>4. IsLast(New)'
  BY <1>1, <1>3, IdsAreNumbers DEF IsLast, Listed
<1>5. DiskShape'
  BY <1>1, <1>2, EmptySequence DEF DiskShape, IsFile
<1>6. MemoryShape' /\ ThreadShape' /\ Phases'
  BY <1>1 DEF memory, history, MemoryShape, ThreadShape, Phases, Writes, New
<1>7. CommitsIntact'
  <2>1. Range(commits'[New].barrels) = {}
    BY <1>2, EmptySequence
  <2>2. \A c \in Ids : c # New => Range(commits'[c].barrels) = Range(commits[c].barrels)
    BY <1>2
  <2> QED
    BY <1>1, <2>1, <2>2 DEF CommitsIntact, Intact
<1>8. TornIsNewest'
  <2>1. \A c \in Ids : commits[c].state # "torn"
    BY <1>1 DEF TornIsNewest, Phases
  <2> QED
    BY <1>1, <1>2, <1>4, <2>1 DEF TornIsNewest
<1>9. WorkIntact'
  BY <1>1, <1>2, <1>4 DEF WorkIntact, Writes, Intact
<1>10. StaleUnused'
  BY <1>1 DEF StaleUnused
<1> QED
  BY <1>5, <1>6, <1>7, <1>8, <1>9, <1>10

LEMMA WriteCommitKeepsDisk == ASSUME DiskInv, WriteCommitFile PROVE DiskInv'
<1> USE DEF DiskInv
<1>1. /\ pc = "write" /\ New \in Ids /\ New \in Nat /\ IsLast(New) /\ commits[New].state = "torn"
      /\ UNCHANGED <<dirs, memory, stale, history>>
      /\ commits' = [commits EXCEPT ![New] = [state |-> "whole", barrels |-> work.infos.barrels]]
  BY IdsAreNumbers DEF WriteCommitFile, Writes, WorkIntact
<1>2. /\ commits'[New] = [state |-> "whole", barrels |-> work.infos.barrels]
      /\ \A c \in Ids : c # New => commits'[c] = commits[c]
  BY <1>1 DEF DiskShape
<1>3. Listed' = Listed /\ \A k : IsLast(k)' <=> IsLast(k)
  BY <1>1, <1>2 DEF Listed, IsLast
<1>4. \/ pc' \in {"clean", "merge"} /\ work' = NoWork
      \/ pc' = "proposal" /\ work' = [NoWork EXCEPT !.infos = work.infos]
  BY DEF WriteCommitFile
<1>5. DiskShape'
  BY <1>1, <1>2 DEF DiskShape, IsFile, ThreadShape, IsList
<1>6. MemoryShape'
  BY <1>1 DEF memory, MemoryShape
<1>7. ThreadShape'
  BY <1>1, <1>4, EmptySequence DEF ThreadShape, history, NoWork, NoBarrels, IsList, New
<1>8. Phases'
  BY <1>1, <1>4 DEF WriteCommitFile, memory, Phases, NotMerging, NoWork
<1>9. CommitsIntact'
  <2>1. \A b \in Range(work.infos.barrels) : b.id \in 0..New /\ Intact(b)
    BY <1>1 DEF WorkIntact, Writes, Intact
  <2>2. Range(commits'[New].barrels) = Range(work.infos.barrels)
    BY <1>2
  <2>3. \A c \in Ids : c # New => Range(commits'[c].barrels) = Range(commits[c].barrels)
    BY <1>2
  <2> QED
    BY <1>1, <2>1, <2>2, <2>3 DEF CommitsIntact, Intact
<1>10. TornIsNewest'
  <2>1. \A c \in Ids : commits'[c].state # "torn"
    BY <1>1, <1>2, OneLast DEF TornIsNewest
  <2> QED
    BY <2>1 DEF TornIsNewest
<1>11. WorkIntact'
  <2>1. CASE pc' # "proposal"
    BY <1>4, <2>1 DEF WorkIntact, Writes
  <2>2. CASE pc' = "proposal"
    <3>1. work'.infos = work.infos /\ New' = New
      BY <1>4, <2>2 DEF NoWork, New
    <3> QED
      BY <1>1, <1>2, <1>3, <2>2, <3>1 DEF WorkIntact, Writes
  <2> QED
    BY <2>1, <2>2
<1>12. StaleUnused'
  BY <1>4 DEF StaleUnused
<1> QED
  BY <1>5, <1>6, <1>7, <1>8, <1>9, <1>10, <1>11, <1>12

\* The commit files of the cleaner's steps.
LEMMA CleanerKeepsDisk ==
  ASSUME DiskInv, DropCommit \/ Reserve \/ RemoveDir \/ Cleaned
  PROVE  DiskInv'
<1> USE DEF DiskInv
<1>1. \A c \in Ids : commits[c].state # "torn"
  BY DEF DropCommit, Reserve, RemoveDir, Cleaned, TornIsNewest, Phases
<1>2. \A k \in Ids : \A b \in Range(commits[k].barrels) : k \in Listed /\ b.id \in Referenced(k)
  BY EmptySequence DEF DiskShape, IsFile, Listed, Referenced
<1>3. CASE DropCommit
  <2>1. PICK c \in Listed : /\ stale' = stale \cup Referenced(c)
                            /\ commits' = [commits EXCEPT ![c] = NoFile]
    BY <1>3 DEF DropCommit
  <2>2. c \in Ids /\ \A b \in Range(commits[c].barrels) : b.id \in Ids
    BY <2>1, IdsAreNumbers DEF Listed, CommitsIntact, Ids
  <2>3. \A k \in Ids : commits'[k] = IF k = c THEN NoFile ELSE commits[k]
    BY <2>1, <2>2 DEF DiskShape
  <2>4. DiskShape'
    BY <1>3, <2>1, <2>2, <2>3, EmptySequence DEF DropCommit, DiskShape, IsFile, NoFile
  <2>5. MemoryShape' /\ Phases'
    BY <1>3 DEF DropCommit, memory, MemoryShape, Phases, Writes
  <2>6. ThreadShape'
    BY <1>3, <2>1, <2>2 DEF DropCommit, history, ThreadShape, New, Referenced
  <2>7. CommitsIntact'
    BY <1>3, <2>3, EmptySequence DEF DropCommit, CommitsIntact, Intact, NoFile
  <2>8. TornIsNewest'
    BY <1>1, <2>3 DEF TornIsNewest, NoFile
  <2>9. WorkIntact' /\ StaleUnused'
    BY <1>3 DEF DropCommit, WorkIntact, StaleUnused, Writes
  <2> QED
    BY <2>4, <2>5, <2>6, <2>7, <2>8, <2>9
<1>4. CASE Reserve
  <2>1. DiskShape' /\ CommitsIntact' /\ Listed' = Listed
    BY <1>4, FilesStay DEF Reserve
  <2>2. MemoryShape' /\ Phases' /\ ThreadShape'
    BY <1>4 DEF Reserve, memory, history, MemoryShape, Phases, ThreadShape, New, Writes
  <2>3. TornIsNewest' /\ WorkIntact'
    BY <1>1, <1>4 DEF Reserve, disk, TornIsNewest, WorkIntact, Writes
  <2>4. StaleUnused'
    BY <1>4, <2>1 DEF Reserve, disk, StaleUnused, Referenced
  <2> QED
    BY <2>1, <2>2, <2>3, <2>4
<1>5. CASE RemoveDir
  <2>1. PICK b \in stale : stale' = stale \ {b} /\ dirs' = [dirs EXCEPT ![b] = NoDir]
    BY <1>5 DEF RemoveDir
  <2>2. b \in Ids /\ \A d \in Ids : dirs'[d] = IF d = b THEN NoDir ELSE dirs[d]
    BY <2>1 DEF ThreadShape, DiskShape
  <2>3. DiskShape'
    BY <1>5, <2>1, <2>2 DEF RemoveDir, DiskShape, IsDir, NoDir
  <2>4. MemoryShape' /\ Phases' /\ ThreadShape'
    BY <1>5, <2>1 DEF RemoveDir, memory, history, MemoryShape, Phases, ThreadShape, New
  <2>5. CommitsIntact'
    <3>1. \A k \in Ids : \A x \in Range(commits[k].barrels) : x.id # b /\ x.id \in Ids
      BY <1>2, <1>5, <2>1, IdsAreNumbers DEF RemoveDir, StaleUnused, CommitsIntact, Ids
    <3> QED
      BY <1>5, <2>2, <3>1 DEF RemoveDir, CommitsIntact, Intact
  <2>6. TornIsNewest' /\ WorkIntact'
    BY <1>1, <1>5 DEF RemoveDir, TornIsNewest, WorkIntact, Writes
  <2>7. StaleUnused'
    BY <1>5, <2>1 DEF RemoveDir, StaleUnused, Listed, Referenced
  <2> QED
    BY <2>3, <2>4, <2>5, <2>6, <2>7
<1>6. CASE Cleaned
  <2>1. DiskShape' /\ CommitsIntact'
    BY <1>6, FilesStay DEF Cleaned
  <2>2. MemoryShape' /\ Phases'
    BY <1>6, ForgottenShapes DEF Cleaned, memory, MemoryShape, Phases
  <2>3. ThreadShape' /\ WorkIntact' /\ StaleUnused' /\ TornIsNewest'
    BY <1>1, <1>6 DEF Cleaned, disk, history, ThreadShape, WorkIntact, StaleUnused, TornIsNewest, New, Writes
  <2> QED
    BY <2>1, <2>2, <2>3
<1> QED
  BY <1>3, <1>4, <1>5, <1>6

-----------------------------------------------------------------------------
(* The first theorem                                                       *)

LEMMA InitDiskInv == StoreInit => DiskInv
<1> SUFFICES ASSUME StoreInit PROVE DiskInv
  OBVIOUS
<1>1. /\ \A c \in Ids : commits[c] = NoFile /\ dirs[c] = NoDir
      /\ DiskShape
  BY EmptySequence DEF StoreInit, DiskShape, IsFile, IsDir, NoFile, NoDir
<1>2. MemoryShape /\ ThreadShape /\ Phases
  BY EmptySequence DEF StoreInit, NotRunning, MemoryShape, ThreadShape, Phases, IsList,
       NoBarrels, NoWork, NotMerging, New, INVALID_COMMIT
<1>3. CommitsIntact /\ TornIsNewest /\ WorkIntact /\ StaleUnused
  BY <1>1, EmptySequence DEF StoreInit, NotRunning, CommitsIntact, TornIsNewest, WorkIntact,
       StaleUnused, NoFile, Writes
<1> QED
  BY <1>1, <1>2, <1>3 DEF DiskInv

LEMMA StepKeepsDiskInv == DiskInv /\ [WriterNext]_storeVars => DiskInv'
<1> SUFFICES ASSUME DiskInv, [WriterNext]_storeVars PROVE DiskInv'
  OBVIOUS
<1>1. CASE Open
  BY <1>1, OpenKeepsDisk
<1>2. CASE Add \/ Seal \/ Close \/ AnyMerge
           \/ \E d \in Documents : DeleteOnDisk(d) \/ DeleteInMemory(d)
  BY <1>2, ClientKeepsDisk
<1>3. CASE CommitThread
  BY <1>3, TakeBatchKeepsDisk, FillingKeepsDisk, CreateKeepsDisk, WriteCommitKeepsDisk,
     CleanerKeepsDisk, MergeKeepsDisk, MergeProposalKeepsDisk DEF CommitThread
<1>4. CASE Crash
  BY <1>4, CrashKeepsDisk
<1>5. CASE UNCHANGED storeVars
  <2>1. UNCHANGED <<disk, memory, thread, history>>
    BY <1>5 DEF storeVars
  <2>2. DiskShape' /\ CommitsIntact' /\ ThreadShape' /\ WorkIntact' /\ StaleUnused'
    BY <2>1, FilesStay, ThreadStays DEF history
  <2>3. MemoryShape' /\ Phases' /\ TornIsNewest'
    BY <2>1, FilesStay DEF DiskInv, memory, thread, history, disk, MemoryShape, Phases, TornIsNewest, New
  <2> QED
    BY <2>2, <2>3 DEF DiskInv
<1> QED
  BY <1>1, <1>2, <1>3, <1>4, <1>5, LastMergeIsAny DEF WriterNext, StoreNext

LEMMA DiskInvHolds == StoreSpec => []DiskInv
<1>1. DiskInv /\ [StoreNext]_storeVars => DiskInv'
  BY StepKeepsDiskInv DEF WriterNext
<1> QED
  BY <1>1, InitDiskInv, PTL DEF StoreSpec

\* Whatever the moment, and after any crash, a commit file that can be read refers to
\* directories that are complete; a torn one is the newest.
THEOREM CommitsAreWhole == StoreSpec => []CommitIsWhole
<1>1. DiskInv => CommitIsWhole
  BY DEF DiskInv, CommitsIntact, Intact, TornIsNewest, CommitIsWhole
<1> QED
  BY <1>1, DiskInvHolds, PTL

-----------------------------------------------------------------------------
(* The cleaner leaves nothing behind                                       *)

\* Without a crash every directory on disk belongs to a commit, will be removed, or is
\* being filled, ...
NothingForgotten ==
    crashes = 0 => \A d \in Ids :
        dirs[d].state # "absent" =>
            \/ \E c \in Listed : d \in Referenced(c)
            \/ d \in stale
            \/ pc \in Writes /\ d = New

\* ... and while the thread rests, or removes directories, there are few commits.  Where
\* the process ended in the middle of a merge there may be more.
FewCommits ==
    pc \in {"idle", "dirs"} /\ crashes = 0 /\ KeepCount > 0 /\ Strategy # "dbt" =>
        Cardinality(Listed) <= KeepCount

GarbageInv == NothingForgotten /\ FewCommits

LEMMA QuietKeepsGarbage ==
  ASSUME GarbageInv, UNCHANGED <<disk, stale, crashes>>,
         pc \in Writes => pc' \in Writes /\ New' = New,
         pc' \in {"idle", "dirs"} => pc \in {"idle", "dirs"} \/ Strategy = "dbt"
  PROVE  GarbageInv'
<1>1. NothingForgotten'
  BY DEF GarbageInv, NothingForgotten, disk, Listed, Referenced
<1>2. FewCommits'
  BY DEF GarbageInv, FewCommits, disk, Listed
<1> QED
  BY <1>1, <1>2 DEF GarbageInv

LEMMA WritingKeepsGarbage ==
  ASSUME DiskInv, GarbageInv,
         TakeBatch \/ WriteData \/ WriteDeletions \/ WriteRest \/ CreateCommitFile
           \/ WriteCommitFile \/ MergeProposal
  PROVE  GarbageInv'
<1>1. pc' \notin {"idle", "dirs"} /\ crashes' = crashes /\ stale' = stale
  BY DEF TakeBatch, WriteData, WriteDeletions, WriteRest, CreateCommitFile, WriteCommitFile,
         MergeProposal, history
<1>2. FewCommits'
  BY <1>1 DEF FewCommits
<1>3. CASE TakeBatch \/ MergeProposal
  <2>1. PICK n : /\ New' = n /\ pc' \in Writes
                 /\ \A d \in Ids : d # n => dirs'[d] = dirs[d]
    <3>1. CASE TakeBatch
      <4>1. PICK c \in Ids \cup {INVALID_COMMIT} :
               /\ dirs' = [dirs EXCEPT ![c + 1] = [NoDir EXCEPT !.state = "filling"]]
               /\ work' = [infos |-> NewBarrel(InfosAt(c), Head(pending).barrel.count,
                                               Head(pending).barrel.deleted),
                           docs  |-> Head(pending).docs,
                           dirty |-> Head(pending).dirty,
                           last  |-> Head(pending).last]
        BY <3>1 DEF TakeBatch
      <4>2. New' = c + 1
        BY <4>1, InfosAtIsList DEF New, NewBarrel, DiskInv
      <4> QED
        BY <3>1, <4>1, <4>2 DEF TakeBatch, DiskInv, DiskShape, Writes
    <3>2. CASE MergeProposal
      <4>1. PICK proposal, docs :
               work' = [work EXCEPT
                   !.infos = NewBarrel(WithoutBarrels(work.infos, proposal), Len(docs), 0),
                   !.docs = docs]
        BY <3>2 DEF MergeProposal
      <4>2. WithoutBarrels(work.infos, proposal).commit = New
        BY WithoutBarrelsKeeps DEF DiskInv, ThreadShape, New
      <4>3. NewBarrel(WithoutBarrels(work.infos, proposal), Len(docs), 0).commit = New + 1
        BY <4>2 DEF NewBarrel
      <4>4. New' = New + 1
        BY <4>1, <4>3 DEF New, DiskInv, ThreadShape
      <4> QED
        BY <3>2, <4>4 DEF MergeProposal, DiskInv, DiskShape, Writes
    <3> QED
      BY <1>3, <3>1, <3>2
  <2>2. commits' = commits /\ pc \notin Writes
    BY <1>3 DEF TakeBatch, MergeProposal, Writes
  <2> QED
    BY <1>1, <1>2, <2>1, <2>2 DEF GarbageInv, NothingForgotten, Listed, Referenced
<1>4. CASE WriteData \/ WriteDeletions \/ WriteRest
  <2>1. /\ pc \in Writes /\ pc' \in Writes /\ New' = New /\ commits' = commits
        /\ \A d \in Ids : d # New => dirs'[d] = dirs[d]
    BY <1>4, FillingFills
  <2> QED
    BY <1>1, <1>2, <2>1 DEF GarbageInv, NothingForgotten, Listed, Referenced
<1>5. CASE CreateCommitFile
  <2>1. /\ pc \in Writes /\ pc' \in Writes /\ New' = New /\ dirs' = dirs
        /\ New \in Ids /\ New \notin Listed
        /\ \A c \in Ids : c # New => commits'[c] = commits[c]
    <3>1. pc = "create" /\ New \in Ids /\ IsLast(New - 1) /\ New \in Nat
      BY <1>5, IdsAreNumbers DEF CreateCommitFile, DiskInv, WorkIntact, Writes
    <3>2. New \notin Listed
      BY <3>1, IdsAreNumbers DEF IsLast, Listed
    <3> QED
      BY <1>5, <3>1, <3>2 DEF CreateCommitFile, Writes, New, DiskInv, DiskShape
  <2>2. \A c \in Listed : c \in Listed' /\ Referenced(c)' = Referenced(c)
    BY <2>1 DEF Listed, Referenced
  <2> QED
    BY <1>1, <1>2, <2>1, <2>2 DEF GarbageInv, NothingForgotten
<1>6. CASE WriteCommitFile
  <2>1. /\ pc = "write" /\ dirs' = dirs /\ New \in Ids /\ commits[New].state = "torn"
        /\ commits' = [commits EXCEPT ![New] = [state |-> "whole", barrels |-> work.infos.barrels]]
        /\ \E b \in Range(work.infos.barrels) : b.id = New
    BY <1>6 DEF WriteCommitFile, DiskInv, WorkIntact, Writes
  <2>2. Range(commits[New].barrels) = {}
    BY <2>1, EmptySequence DEF DiskInv, DiskShape, IsFile
  <2>3. /\ commits'[New] = [state |-> "whole", barrels |-> work.infos.barrels]
        /\ \A c \in Ids : c # New => commits'[c] = commits[c]
    BY <2>1 DEF DiskInv, DiskShape
  <2> DEFINE d == New
  <2>4. d \in Listed' /\ \E b \in Range(commits'[d].barrels) : b.id = d
    BY <2>1, <2>3 DEF Listed
  <2>5. \A c \in Listed : c # d => c \in Listed' /\ Referenced(c)' = Referenced(c)
    BY <2>1, <2>3 DEF Listed, Referenced
  <2>6. Referenced(d) = {}
    BY <2>2 DEF Referenced
  <2>7. \A k \in Ids : dirs[k].state # "absent" =>
           k = d \/ k \in stale \/ crashes # 0 \/ \E c \in Listed : c # d /\ k \in Referenced(c)
    BY <2>6 DEF GarbageInv, NothingForgotten
  <2> HIDE DEF d
  <2>8. \A k \in Ids : dirs'[k].state # "absent" =>
           (\E c \in Listed' : k \in Referenced(c)') \/ k \in stale' \/ crashes' # 0
    BY <1>1, <2>1, <2>4, <2>5, <2>7 DEF Referenced
  <2>9. NothingForgotten'
    BY <2>8 DEF NothingForgotten
  <2> QED
    BY <1>2, <2>9 DEF GarbageInv
<1> QED
  BY <1>3, <1>4, <1>5, <1>6

LEMMA CleanerKeepsGarbage ==
  ASSUME DiskInv, GarbageInv, DropCommit \/ Reserve \/ RemoveDir \/ Cleaned
  PROVE  GarbageInv'
<1>1. CASE DropCommit
  <2>1. PICK c \in Listed : /\ stale' = stale \cup Referenced(c)
                            /\ commits' = [commits EXCEPT ![c] = NoFile]
    BY <1>1 DEF DropCommit
  <2>2. \A k \in Listed : k # c => k \in Listed' /\ Referenced(k)' = Referenced(k)
    BY <2>1 DEF DiskInv, DiskShape, Listed, Referenced
  <2> QED
    BY <1>1, <2>1, <2>2 DEF DropCommit, GarbageInv, NothingForgotten, FewCommits, history, Writes
<1>2. CASE Reserve
  <2>1. Listed' = Listed /\ \A c : Referenced(c)' = Referenced(c)
    BY <1>2 DEF Reserve, disk, Listed, Referenced
  <2>2. Cardinality(Listed) \in Nat
    <3>1. IsFiniteSet(0..MaxCommit) /\ Listed \subseteq 0..MaxCommit
      BY IdsAreNumbers, FS_Interval DEF Listed, Ids
    <3> QED
      BY <3>1, FS_Subset, FS_CardinalityType
  <2>3. NothingForgotten'
    BY <1>2, <2>1 DEF Reserve, GarbageInv, NothingForgotten, disk, history, Writes
  <2>4. FewCommits'
    BY <1>2, <2>1, <2>2, KeepAssumption DEF Reserve, FewCommits, TooMany
  <2> QED
    BY <2>3, <2>4 DEF GarbageInv
<1>3. CASE RemoveDir
  <2>1. PICK b \in stale : stale' = stale \ {b} /\ dirs' = [dirs EXCEPT ![b] = NoDir]
    BY <1>3 DEF RemoveDir
  <2>2. \A d \in Ids : dirs'[d] = IF d = b THEN NoDir ELSE dirs[d]
    BY <2>1 DEF DiskInv, DiskShape
  <2>3. \A d \in Ids : dirs'[d].state # "absent" => d # b /\ dirs[d].state # "absent"
    BY <2>2 DEF NoDir
  <2> QED
    BY <1>3, <2>1, <2>3 DEF RemoveDir, GarbageInv, NothingForgotten, FewCommits, Listed, Referenced,
         history, Writes
<1>4. CASE Cleaned
  BY <1>4, QuietKeepsGarbage DEF Cleaned, history, Writes
<1> QED
  BY <1>1, <1>2, <1>3, <1>4

\* The store merges by its own policy.
OwnPolicy == merging # NotMerging => merging.policy = Strategy

LEMMA StepKeepsPolicy == DiskInv /\ OwnPolicy /\ [StoreNext]_storeVars => OwnPolicy'
<1> SUFFICES ASSUME DiskInv, OwnPolicy, [StoreNext]_storeVars PROVE OwnPolicy'
  OBVIOUS
<1>1. CASE UNCHANGED merging
  BY <1>1 DEF OwnPolicy
<1>2. CASE LastMerge
  BY <1>2 DEF LastMerge, MergeWith, OwnPolicy, NotMerging
<1>3. CASE Merge \/ MergeProposal
  <2>1. pc \in {"merge", "proposal"} /\ \E parts : merging' = [merging EXCEPT !.proposals = parts]
    BY <1>3 DEF Merge, MergeProposal
  <2>2. merging # NotMerging /\ merging'.policy = merging.policy
    BY <2>1 DEF DiskInv, Phases, MemoryShape
  <2> QED
    BY <2>2 DEF OwnPolicy
<1>4. CASE Forgotten
  BY <1>4 DEF Forgotten, OwnPolicy
<1> QED
  BY <1>1, <1>2, <1>3, <1>4 DEF StoreNext, CommitThread, storeVars, memory, Open, Add, Seal, Close,
     DeleteOnDisk, DeleteInMemory, TakeBatch, WriteData, WriteDeletions, WriteRest,
     CreateCommitFile, WriteCommitFile, DropCommit, Reserve, RemoveDir, Cleaned, MergeAborts, Crash

LEMMA StepKeepsGarbage == DiskInv /\ OwnPolicy /\ GarbageInv /\ [StoreNext]_storeVars => GarbageInv'
<1> SUFFICES ASSUME DiskInv, OwnPolicy, GarbageInv, [StoreNext]_storeVars PROVE GarbageInv'
  OBVIOUS
<1>1. CASE UNCHANGED <<disk, thread, crashes>>
  BY <1>1, QuietKeepsGarbage DEF thread, New
<1>2. CASE Open \/ Add \/ Seal \/ Close
            \/ \E d \in Documents : DeleteOnDisk(d) \/ DeleteInMemory(d)
  <2>1. UNCHANGED <<disk, thread, crashes>>
    BY <1>2 DEF Open, Add, Seal, Close, DeleteOnDisk, DeleteInMemory, history
  <2> QED
    BY <1>1, <2>1
<1>3. CASE LastMerge \/ Merge
  BY <1>3, QuietKeepsGarbage DEF LastMerge, MergeWith, Merge, history, Writes
<1>4. CASE MergeAborts
  <2>1. Strategy = "dbt"
    BY <1>4 DEF MergeAborts, NullProposal, DiskInv, Phases, OwnPolicy
  <2> QED
    BY <1>4, <2>1, QuietKeepsGarbage DEF MergeAborts, history, Writes
<1>5. CASE Crash
  BY <1>5 DEF Crash, GarbageInv, NothingForgotten, FewCommits, DiskInv, ThreadShape
<1>6. CASE UNCHANGED storeVars
  BY <1>1, <1>6 DEF storeVars, history
<1> QED
  BY <1>2, <1>3, <1>4, <1>5, <1>6, WritingKeepsGarbage, CleanerKeepsGarbage
  DEF StoreNext, CommitThread

\* While the commit thread rests, and if no crash interrupted it, the directories on disk
\* are those the commits refer to, and the cleaner has left as many commits as it should.
THEOREM NoGarbageLeft == StoreSpec => []NoGarbage
<1>1. StoreInit => GarbageInv /\ OwnPolicy
  <2> SUFFICES ASSUME StoreInit PROVE GarbageInv /\ OwnPolicy
    OBVIOUS
  <2>1. Listed = {} /\ \A d \in Ids : dirs[d].state = "absent"
    BY DEF StoreInit, Listed, NoFile, NoDir
  <2> QED
    BY <2>1, FS_EmptySet, KeepAssumption DEF GarbageInv, NothingForgotten, FewCommits, OwnPolicy,
       StoreInit, NotRunning
<1>2. DiskInv /\ GarbageInv => NoGarbage
  <2> SUFFICES ASSUME DiskInv, GarbageInv, pc = "idle", crashes = 0, KeepCount > 0
               PROVE  /\ Strategy # "dbt" => Cardinality(Listed) <= KeepCount
                      /\ {b \in Ids : dirs[b].state # "absent"} = UNION {Referenced(c) : c \in Listed}
    BY DEF NoGarbage
  <2>1. Strategy # "dbt" => Cardinality(Listed) <= KeepCount
    BY DEF GarbageInv, FewCommits
  <2>2. stale = {} /\ pc \notin Writes
    BY DEF DiskInv, Phases, Writes
  <2>3. \A d \in Ids : dirs[d].state # "absent" => \E c \in Listed : d \in Referenced(c)
    BY <2>2 DEF GarbageInv, NothingForgotten
  <2>4. \A c \in Listed : \A d \in Referenced(c) : d \in Ids /\ dirs[d].state = "whole"
    BY IdsAreNumbers DEF DiskInv, CommitsIntact, Intact, Referenced, Listed, Ids
  <2> QED
    BY <2>1, <2>3, <2>4
<1> QED
  BY <1>1, <1>2, DiskInvHolds, StepKeepsPolicy, StepKeepsGarbage, PTL DEF StoreSpec

-----------------------------------------------------------------------------
(* A deletion that was written is never forgotten                          *)

\* there is a deletion file of barrel b in directory d
HasFile(d, b) == b \in Ids /\ b <= d /\ b \in DOMAIN dirs[d].deletions

\* the directory belongs to a commit, perhaps the one being written, and is not left
\* from a crash
Begun(d) ==
    IF pc \in Writes THEN d <= New
    ELSE \A c \in Ids \cup {INVALID_COMMIT} : IsLast(c) => d <= c

\* the commit that the batch taken last makes
Reached == keeper.commit - Len(pending)

\* A later file has the deletions of an earlier one.
FilesGrow ==
    \A d, e, b \in Ids :
        d < e /\ Begun(e) /\ HasFile(d, b) /\ HasFile(e, b) =>
            dirs[d].deletions[b] \subseteq dirs[e].deletions[b]

\* The keeper numbers barrels ahead of the commit thread, and as it will.
KeeperAhead ==
    Writing =>
        /\ IsLast(IF pc \in Writes /\ pc # "write" THEN Reached - 1 ELSE Reached)
        /\ pc \in Writes => New = Reached

\* The filter has what the files have.
BitsKnown ==
    Writing =>
        \A d, b \in Ids : d <= Reached /\ HasFile(d, b) => dirs[d].deletions[b] \subseteq bits[b]

DeletionsInv == FilesGrow /\ KeeperAhead /\ BitsKnown

LEMMA ReachedIsNumber == MemoryShape => Reached \in Int /\ Len(pending) \in Nat /\ Reached <= keeper.commit
BY SequenceShape DEF MemoryShape, Reached

\* What is looked for in the directories up to some commit is found in the last of them.
LEMMA LatestIsLast ==
  ASSUME DiskShape, NEW b \in Ids, NEW c \in Int
  PROVE  \/ LatestFilter(b, b, c) = {} /\ \A d \in Ids : d <= c => ~HasFile(d, b)
         \/ \E m \in Ids : /\ m <= c /\ HasFile(m, b)
                           /\ LatestFilter(b, b, c) = dirs[m].deletions[b]
                           /\ \A d \in Ids : d <= c /\ HasFile(d, b) => d <= m
<1> DEFINE found == WithFilter(b, b, c)
<1>1. \A d \in Ids : d \in found <=> d <= c /\ HasFile(d, b)
  BY DEF WithFilter, HasFile, DiskShape, IsDir
<1>2. found \subseteq Ids
  BY DEF WithFilter
<1>3. CASE found = {}
  BY <1>1, <1>3 DEF LatestFilter
<1>4. CASE found # {}
  <2> DEFINE m == CHOOSE k \in found : \A j \in found : j <= k
  <2>1. found \subseteq Nat /\ \A x \in found : x <= MaxCommit
    BY <1>2, IdsAreNumbers DEF Ids
  <2>2. \E k \in found : \A j \in found : j <= k
    <3> HIDE DEF found
    <3> QED
      BY <1>4, <2>1, IdsAreNumbers, Largest
  <2>3. m \in found /\ \A j \in found : j <= m
    <3> HIDE DEF found
    <3> QED
      BY <2>2
  <2>4. LatestFilter(b, b, c) = dirs[m].deletions[b]
    BY <1>4 DEF LatestFilter
  <2> HIDE DEF m, found
  <2> QED
    BY <1>1, <1>2, <2>3, <2>4
<1> QED
  BY <1>3, <1>4

\* Steps that add no deletion file.
LEMMA FilesGrowStays ==
  ASSUME FilesGrow,
         \A d, b \in Ids : HasFile(d, b)' =>
             HasFile(d, b) /\ dirs'[d].deletions[b] = dirs[d].deletions[b],
         \A d, b \in Ids : Begun(d)' /\ HasFile(d, b)' => Begun(d)
  PROVE  FilesGrow'
BY DEF FilesGrow

LEMMA BitsKnownStays ==
  ASSUME BitsKnown, Writing' => Writing,
         \A d, b \in Ids : HasFile(d, b)' =>
             HasFile(d, b) /\ dirs'[d].deletions[b] = dirs[d].deletions[b],
         \A d, b \in Ids : Writing' /\ d <= Reached' /\ HasFile(d, b)' =>
             d <= Reached /\ bits[b] \subseteq bits'[b]
  PROVE  BitsKnown'
BY DEF BitsKnown

\* Begun means less only when the thread goes on to the next commit.
LEMMA BegunStays ==
  ASSUME DiskInv, \A c : IsLast(c)' <=> IsLast(c),
         pc' \in Writes => pc \in Writes /\ New' = New
  PROVE  \A d \in Ids : Begun(d)' => Begun(d)
<1>1. CASE pc' \in Writes \/ pc \notin Writes
  BY <1>1 DEF Begun
<1>2. CASE pc' \notin Writes /\ pc \in Writes
  <2>1. /\ New \in Nat /\ IsLast(IF pc = "write" THEN New ELSE New - 1)
        /\ New \in Ids /\ New - 1 \in Ids \cup {INVALID_COMMIT}
    BY <1>2, IdsAreNumbers DEF DiskInv, WorkIntact, Ids
  <2>2. SUFFICES ASSUME NEW d \in Ids, Begun(d)' PROVE d <= New
    BY <1>2 DEF Begun
  <2>3. d <= New \/ d <= New - 1
    BY <1>2, <2>1, <2>2 DEF Begun
  <2> QED
    BY <2>1, <2>3, IdsAreNumbers
<1> QED
  BY <1>1, <1>2

\* Steps that change no file, nor what is known of the files.
LEMMA QuietKeepsDeletions ==
  ASSUME DiskInv, DeletionsInv, UNCHANGED disk,
         pc' \in Writes => pc \in Writes /\ New' = New,
         \/ ~Writing'
         \/ /\ Writing /\ Reached' = Reached
            /\ pc' \in Writes <=> pc \in Writes
            /\ pc' = "write" <=> pc = "write"
            /\ \A b \in Ids : b <= Reached => bits[b] \subseteq bits'[b]
  PROVE  DeletionsInv'
<1>1. \A c : IsLast(c)' <=> IsLast(c)
  BY FilesStay
<1>2. \A d, b \in Ids : HasFile(d, b)' => HasFile(d, b) /\ dirs'[d].deletions[b] = dirs[d].deletions[b]
  BY DEF disk, HasFile
<1>3. FilesGrow'
  BY <1>1, <1>2, BegunStays, FilesGrowStays DEF DeletionsInv
<1>4. KeeperAhead'
  BY <1>1 DEF DeletionsInv, KeeperAhead
<1>5. BitsKnown'
  <2>1. CASE ~Writing'
    BY <2>1 DEF BitsKnown
  <2>2. CASE Writing'
    <3>1. \A d, b \in Ids : d <= Reached /\ HasFile(d, b) => b <= Reached
      BY ReachedIsNumber, IdsAreNumbers DEF HasFile, DiskInv
    <3> QED
      BY <1>2, <2>2, <3>1, BitsKnownStays DEF DeletionsInv
  <2> QED
    BY <2>1, <2>2
<1> QED
  BY <1>3, <1>4, <1>5 DEF DeletionsInv

LEMMA OpenKeepsDeletions == ASSUME DiskInv, DeletionsInv, Open PROVE DeletionsInv'
<1>1. PICK c \in Ids \cup {INVALID_COMMIT} :
         IsLast(c) /\ keeper' = InfosAt(c) /\ bits' = OpenedBits(InfosAt(c))
  BY DEF Open
<1>2. /\ pc = "idle" /\ pc' = "idle" /\ UNCHANGED disk /\ pc \notin Writes
      /\ pending = <<>> /\ pending' = pending
  BY DEF Open, thread, DiskInv, Phases, Writes
<1>3. c \in Int /\ InfosAt(c).commit = c
  BY <1>1, InfosAtIsList DEF DiskInv
<1>4. Reached' = c
  BY <1>1, <1>2, <1>3, EmptySequence DEF Reached
<1>5. \A k : IsLast(k)' <=> IsLast(k)
  BY <1>2, FilesStay
<1>6. \A d, b \in Ids : HasFile(d, b)' => HasFile(d, b) /\ dirs'[d].deletions[b] = dirs[d].deletions[b]
  BY <1>2 DEF disk, HasFile
<1>7. FilesGrow'
  <2>1. pc' \notin Writes
    BY <1>2 DEF Writes
  <2> QED
    BY <1>5, <1>6, <2>1, BegunStays, FilesGrowStays DEF DeletionsInv
<1>8. KeeperAhead'
  BY <1>1, <1>2, <1>4, <1>5 DEF KeeperAhead, Writes
<1>9. BitsKnown'
  <2> SUFFICES ASSUME NEW d \in Ids, NEW b \in Ids, d <= c, HasFile(d, b)
               PROVE  dirs[d].deletions[b] \subseteq bits'[b]
    BY <1>2, <1>4, <1>6 DEF BitsKnown, disk
  <2>1. bits'[b] = LatestFilter(b, b, c)
    BY <1>1, <1>3 DEF OpenedBits
  <2>2. PICK m \in Ids : /\ m <= c /\ HasFile(m, b) /\ d <= m
                         /\ LatestFilter(b, b, c) = dirs[m].deletions[b]
    BY <1>3, LatestIsLast DEF DiskInv
  <2>3. Begun(m)
    BY <1>1, <1>2, <2>2, OneLast DEF Begun
  <2>4. d = m \/ d < m
    BY <2>2, IdsAreNumbers
  <2> QED
    BY <2>1, <2>2, <2>3, <2>4 DEF DeletionsInv, FilesGrow
<1> QED
  BY <1>7, <1>8, <1>9 DEF DeletionsInv

\* The client's steps.
LEMMA ClientKeepsDeletions ==
  ASSUME DiskInv, DeletionsInv,
         \/ Add \/ Seal \/ Close \/ AnyMerge \/ Crash
         \/ \E d \in Documents : DeleteOnDisk(d) \/ DeleteInMemory(d)
  PROVE  DeletionsInv'
<1>1. CASE Add \/ \E d \in Documents : DeleteInMemory(d)
  <2>1. UNCHANGED <<disk, thread, status, keeper, bits, pending, merging>>
    BY <1>1 DEF Add, DeleteInMemory
  <2> QED
    BY <2>1, QuietKeepsDeletions DEF thread, New, Writing, Reached
<1>2. CASE \E d \in Documents : DeleteOnDisk(d)
  <2>1. /\ UNCHANGED <<disk, thread, status, keeper, pending, merging>>
        /\ \E b, local : bits' = [bits EXCEPT ![b] = @ \cup {local}]
    BY <1>2 DEF DeleteOnDisk
  <2>2. \A b \in Ids : bits[b] \subseteq bits'[b]
    BY <2>1 DEF DiskInv, MemoryShape
  <2> QED
    BY <2>1, <2>2, QuietKeepsDeletions DEF thread, New, Writing, Reached
<1>3. CASE Seal \/ Close
  <2>1. /\ UNCHANGED <<disk, thread, merging>> /\ (Writing' => Writing)
        /\ \/ SealDocuments \/ SealDeletions
           \/ UNCHANGED <<keeper, bits, pending>>
    BY <1>3 DEF Seal, Close, Writing
  <2>2. CASE SealDocuments \/ SealDeletions
    <3>1. /\ keeper'.commit = keeper.commit + 1 /\ Len(pending') = Len(pending) + 1
          /\ \A b \in Ids : b # keeper.commit + 1 => bits'[b] = bits[b]
      BY <2>2, SealShapes DEF DiskInv
    <3>2. /\ keeper.commit \in Int /\ Len(pending) \in Nat
          /\ Reached \in Int /\ Reached <= keeper.commit
      BY ReachedIsNumber DEF DiskInv, MemoryShape
    <3>3. Reached' = Reached
      BY <3>1, <3>2 DEF Reached
    <3>4. \A b \in Ids : b <= Reached => bits[b] \subseteq bits'[b]
      BY <3>1, <3>2, IdsAreNumbers
    <3> QED
      BY <2>1, <3>3, <3>4, QuietKeepsDeletions DEF thread, New
  <2>3. CASE UNCHANGED <<keeper, bits, pending>>
    BY <2>1, <2>3, QuietKeepsDeletions DEF thread, New, Reached
  <2> QED
    BY <2>1, <2>2, <2>3
<1>4. CASE AnyMerge
  <2>1. UNCHANGED disk /\ pc' \notin Writes
    BY <1>4 DEF AnyMerge, MergeWith, Writes
  <2>2. ~Writing'
    BY <1>4 DEF AnyMerge, MergeWith, Writing, NotMerging, Policies
  <2> QED
    BY <2>1, <2>2, QuietKeepsDeletions
<1>5. CASE Crash
  BY <1>5, QuietKeepsDeletions DEF Crash, Writing, Writes
<1> QED
  BY <1>1, <1>2, <1>3, <1>4, <1>5

LEMMA MergingKeepsDeletions ==
  ASSUME DiskInv, DeletionsInv, Merge \/ MergeAborts \/ Reserve \/ Cleaned
  PROVE  DeletionsInv'
<1>1. UNCHANGED disk /\ pc' \notin Writes
  BY DEF Merge, MergeAborts, Reserve, Cleaned, Writes
<1>2. CASE Merge \/ MergeAborts
  <2>1. merging.policy # "none" /\ merging # NotMerging
    BY <1>2 DEF Merge, MergeAborts, DiskInv, Phases, Policies
  <2>2. ~Writing'
    <3>1. CASE Merge
      <4>1. merging'.policy = merging.policy
        BY <3>1 DEF Merge, DiskInv, MemoryShape
      <4> QED
        BY <2>1, <4>1 DEF Writing, NotMerging
    <3>2. CASE MergeAborts
      BY <3>2 DEF MergeAborts, Writing
    <3> QED
      BY <1>2, <3>1, <3>2
  <2> QED
    BY <1>1, <2>2, QuietKeepsDeletions
<1>3. CASE Reserve \/ (Cleaned /\ merging = NotMerging)
  <2>1. UNCHANGED memory /\ pc \notin Writes
    BY <1>3 DEF Reserve, Cleaned, Writes
  <2> QED
    BY <1>1, <2>1, QuietKeepsDeletions DEF memory, Writing, Reached, Writes
<1>4. CASE Cleaned /\ merging # NotMerging
  BY <1>1, <1>4, QuietKeepsDeletions DEF Cleaned, Writing
<1> QED
  BY <1>2, <1>3, <1>4

\* The next batch is taken: its directory is new and has no deletion file yet.
LEMMA TakeBatchKeepsDeletions == ASSUME DiskInv, DeletionsInv, TakeBatch PROVE DeletionsInv'
<1>1. PICK c \in Ids \cup {INVALID_COMMIT} :
         /\ IsLast(c) /\ c < MaxCommit
         /\ work' = [infos |-> NewBarrel(InfosAt(c), Head(pending).barrel.count,
                                         Head(pending).barrel.deleted),
                     docs  |-> Head(pending).docs,
                     dirty |-> Head(pending).dirty,
                     last  |-> Head(pending).last]
         /\ dirs' = [dirs EXCEPT ![c + 1] = [NoDir EXCEPT !.state = "filling"]]
  BY DEF TakeBatch
<1>2. /\ pc = "idle" /\ pc' = "data" /\ pending # <<>> /\ pending' = Tail(pending)
      /\ UNCHANGED <<commits, status, keeper, bits, merging>> /\ pc \notin Writes /\ pc' \in Writes
  BY DEF TakeBatch, Writes
<1>3. c + 1 \in Ids /\ c \in Int
  BY <1>1, IdsAreNumbers DEF Ids
<1>4. New' = c + 1
  BY <1>1, InfosAtIsList DEF New, NewBarrel, DiskInv
<1>5. Writing /\ Writing'
  BY <1>2 DEF Writing, DiskInv, Phases
<1>6. Reached = c
  BY <1>1, <1>2, <1>5, OneLast DEF DeletionsInv, KeeperAhead
<1>7. Reached' = c + 1
  <2>1. Len(pending') = Len(pending) - 1 /\ Len(pending) \in Int /\ keeper.commit \in Int
    BY <1>2, TailSequence, ReachedIsNumber DEF DiskInv, MemoryShape
  <2> QED
    BY <1>2, <1>6, <2>1 DEF Reached
<1>8. \A k : IsLast(k)' <=> IsLast(k)
  BY <1>2 DEF IsLast, Listed
<1>9. /\ \A d \in Ids : dirs'[d] = IF d = c + 1 THEN [NoDir EXCEPT !.state = "filling"] ELSE dirs[d]
      /\ dirs'[c + 1].deletions = <<>>
  BY <1>1, <1>3 DEF DiskInv, DiskShape, NoDir
<1>10. \A d, b \in Ids : HasFile(d, b)' =>
          d # c + 1 /\ HasFile(d, b) /\ dirs'[d].deletions[b] = dirs[d].deletions[b]
  BY <1>9 DEF HasFile
<1>11. FilesGrow'
  <2>1. \A d, b \in Ids : Begun(d)' /\ HasFile(d, b)' => Begun(d)
    <3> SUFFICES ASSUME NEW d \in Ids, d <= c + 1, d # c + 1 PROVE Begun(d)
      BY <1>2, <1>4, <1>10 DEF Begun
    <3>1. d <= c
      BY <1>3, IdsAreNumbers
    <3> QED
      BY <1>1, <1>2, <3>1, OneLast DEF Begun
  <2> QED
    BY <1>10, <2>1, FilesGrowStays DEF DeletionsInv
<1>12. KeeperAhead'
  <2>1. Reached' - 1 = c
    BY <1>3, <1>7
  <2> QED
    BY <1>1, <1>2, <1>4, <1>7, <1>8, <2>1 DEF KeeperAhead
<1>13. BitsKnown'
  <2>1. \A d, b \in Ids : d <= Reached' /\ HasFile(d, b)' => d <= Reached
    <3> SUFFICES ASSUME NEW d \in Ids, NEW b \in Ids, d <= c + 1, HasFile(d, b)' PROVE d <= c
      BY <1>6, <1>7
    <3>1. d # c + 1
      BY <1>10
    <3> QED
      BY <1>3, <3>1, IdsAreNumbers
  <2> QED
    BY <1>2, <1>5, <1>10, <2>1, BitsKnownStays DEF DeletionsInv
<1> QED
  BY <1>11, <1>12, <1>13 DEF DeletionsInv

LEMMA MergeProposalKeepsDeletions == ASSUME DiskInv, DeletionsInv, MergeProposal PROVE DeletionsInv'
<1>1. PICK proposal, docs :
         work' = [work EXCEPT
             !.infos = NewBarrel(WithoutBarrels(work.infos, proposal), Len(docs), 0), !.docs = docs]
  BY DEF MergeProposal
<1>2. /\ pc = "proposal" /\ New \in Ids /\ New \in Int /\ New < MaxCommit /\ IsLast(New) /\ New + 1 \in Ids
      /\ pc' \in Writes /\ pc \notin Writes
      /\ dirs' = [dirs EXCEPT ![New + 1] = [NoDir EXCEPT !.state = "filling"]]
      /\ merging' = [merging EXCEPT !.proposals = Tail(@)]
  BY IdsAreNumbers DEF MergeProposal, DiskInv, WorkIntact, Writes, Ids
<1>3. New' = New + 1
  <2>1. WithoutBarrels(work.infos, proposal).commit = New
    BY WithoutBarrelsKeeps DEF DiskInv, ThreadShape, New
  <2>2. NewBarrel(WithoutBarrels(work.infos, proposal), Len(docs), 0).commit = New + 1
    BY <2>1 DEF NewBarrel
  <2> QED
    BY <1>1, <2>2 DEF New, DiskInv, ThreadShape
<1>4. ~Writing'
  <2>1. merging'.policy = merging.policy /\ merging.policy # "none"
    BY <1>2 DEF DiskInv, Phases, MemoryShape, Policies, MergeProposal
  <2> QED
    BY <2>1 DEF Writing, NotMerging
<1> DEFINE n == New + 1
<1>5. /\ \A d \in Ids : dirs'[d] = IF d = n THEN [NoDir EXCEPT !.state = "filling"] ELSE dirs[d]
      /\ dirs'[n].deletions = <<>>
  BY <1>2 DEF DiskInv, DiskShape, NoDir
<1>6. \A d, b \in Ids : HasFile(d, b)' =>
         d # n /\ HasFile(d, b) /\ dirs'[d].deletions[b] = dirs[d].deletions[b]
  BY <1>5 DEF HasFile
<1>7. \A d, b \in Ids : Begun(d)' /\ HasFile(d, b)' => Begun(d)
  <2> SUFFICES ASSUME NEW d \in Ids, d <= New + 1, d # New + 1 PROVE Begun(d)
    BY <1>2, <1>3, <1>6 DEF Begun
  <2>1. d <= New
    BY <1>2, IdsAreNumbers
  <2> QED
    BY <1>2, <2>1, OneLast DEF Begun
<1>8. FilesGrow'
  BY <1>6, <1>7, FilesGrowStays DEF DeletionsInv
<1> QED
  BY <1>4, <1>8 DEF DeletionsInv, KeeperAhead, BitsKnown

\* The directory is filled: its deletion files have the bits, or there are none.
LEMMA FillingKeepsDeletions ==
  ASSUME DiskInv, DeletionsInv, WriteData \/ WriteDeletions \/ WriteRest
  PROVE  DeletionsInv'
<1>1. /\ pc \in Writes /\ pc # "write" /\ pc' \in Writes /\ pc' # "write"
      /\ New \in Ids /\ New \in Int /\ New' = New
      /\ UNCHANGED <<commits, memory>>
      /\ \A d \in Ids : d # New => dirs'[d] = dirs[d]
  BY FillingFills, IdsAreNumbers
<1>2. /\ \A c : IsLast(c)' <=> IsLast(c)
      /\ Writing' <=> Writing
      /\ Reached' = Reached /\ bits' = bits
      /\ \A d : Begun(d)' <=> Begun(d)
  BY <1>1 DEF IsLast, Listed, memory, Writing, Reached, Begun
<1>3. KeeperAhead'
  BY <1>1, <1>2 DEF DeletionsInv, KeeperAhead
<1>4. CASE dirs'[New].deletions = dirs[New].deletions \/ DOMAIN dirs'[New].deletions = {}
  <2>1. \A d, b \in Ids : HasFile(d, b)' =>
           HasFile(d, b) /\ dirs'[d].deletions[b] = dirs[d].deletions[b]
    BY <1>1, <1>4 DEF HasFile
  <2>2. FilesGrow'
    BY <1>2, <2>1, FilesGrowStays DEF DeletionsInv
  <2>3. BitsKnown'
    BY <1>2, <2>1, BitsKnownStays DEF DeletionsInv
  <2> QED
    BY <1>3, <2>2, <2>3 DEF DeletionsInv
<1>5. CASE Writing /\ dirs'[New].deletions = [b \in work.dirty |-> bits[b]]
  <2>1. Reached = New
    BY <1>1, <1>5 DEF DeletionsInv, KeeperAhead
  <2>7. PICK n \in Ids : n = New
    BY <1>1
  <2>2. \A b \in Ids : HasFile(n, b)' => dirs'[n].deletions[b] = bits[b]
    BY <1>5, <2>7 DEF HasFile
  <2>3. \A d, b \in Ids : d # n /\ HasFile(d, b)' =>
           HasFile(d, b) /\ dirs'[d].deletions[b] = dirs[d].deletions[b]
    BY <1>1, <2>7 DEF HasFile
  <2>4. \A d, b \in Ids : d <= n /\ HasFile(d, b)' => dirs'[d].deletions[b] \subseteq bits[b]
    BY <1>5, <2>7, <2>1, <2>2, <2>3 DEF DeletionsInv, BitsKnown
  <2>5. BitsKnown'
    BY <1>2, <2>7, <2>1, <2>4 DEF BitsKnown
  <2>6. FilesGrow'
    <3> SUFFICES ASSUME NEW d \in Ids, NEW e \in Ids, NEW b \in Ids,
                        d < e, e <= n, HasFile(d, b)', HasFile(e, b)'
                 PROVE  dirs'[d].deletions[b] \subseteq dirs'[e].deletions[b]
      BY <1>1, <1>2, <2>7 DEF FilesGrow, Begun
    <3>1. CASE e = n
      <4>1. d <= n
        BY <3>1, IdsAreNumbers
      <4>2. HasFile(n, b)'
        BY <3>1
      <4>3. dirs'[n].deletions[b] = bits[b] /\ dirs'[d].deletions[b] \subseteq bits[b]
        BY <2>2, <2>4, <4>1, <4>2
      <4> QED
        BY <3>1, <4>3
    <3>2. CASE e # n
      <4>1. d # n /\ Begun(e)
        BY <1>1, <2>7, <3>2, IdsAreNumbers DEF Begun
      <4> QED
        BY <2>3, <3>2, <4>1 DEF DeletionsInv, FilesGrow
    <3> QED
      BY <3>1, <3>2
  <2> QED
    BY <1>3, <2>5, <2>6 DEF DeletionsInv
<1>6. \/ dirs'[New].deletions = dirs[New].deletions \/ DOMAIN dirs'[New].deletions = {}
      \/ Writing /\ dirs'[New].deletions = [b \in work.dirty |-> bits[b]]
  <2>1. dirs[New] = [state |-> dirs[New].state, docs |-> dirs[New].docs, deletions |-> dirs[New].deletions]
    BY <1>1 DEF DiskInv, DiskShape, IsDir
  <2>2. CASE WriteData \/ WriteRest
    <3>1. CASE WriteData
      <4>1. dirs' = [dirs EXCEPT ![New] = [dirs[New] EXCEPT !.docs = work.docs]]
        BY <3>1 DEF WriteData
      <4>2. dirs'[New] = [dirs[New] EXCEPT !.docs = work.docs]
        BY <1>1, <4>1 DEF DiskInv, DiskShape
      <4> QED
        BY <2>1, <4>2
    <3>2. CASE WriteRest
      <4>1. dirs' = [dirs EXCEPT ![New] = [dirs[New] EXCEPT !.state = "whole"]]
        BY <3>2 DEF WriteRest
      <4>2. dirs'[New] = [dirs[New] EXCEPT !.state = "whole"]
        BY <1>1, <4>1 DEF DiskInv, DiskShape
      <4> QED
        BY <2>1, <4>2
    <3> QED
      BY <2>2, <3>1, <3>2
  <2>3. CASE WriteDeletions
    <3> DEFINE found == [b \in work.dirty |-> bits[b]]
    <3>1. dirs' = dirs \/ dirs' = [dirs EXCEPT ![New] = [dirs[New] EXCEPT !.deletions = found]]
      BY <2>3 DEF WriteDeletions
    <3>2. DOMAIN found = work.dirty
      OBVIOUS
    <3> HIDE DEF found
    <3>3. dirs' = dirs \/ dirs'[New] = [dirs[New] EXCEPT !.deletions = found]
      BY <1>1, <3>1 DEF DiskInv, DiskShape
    <3>4. dirs'[New].deletions = dirs[New].deletions \/ dirs'[New].deletions = found
      BY <2>1, <3>3
    <3>5. Writing \/ work.dirty = {}
      BY <1>1 DEF Writing, DiskInv, Phases, Writes
    <3> QED
      BY <3>2, <3>4, <3>5 DEF found
  <2> QED
    BY <2>2, <2>3
<1> QED
  BY <1>4, <1>5, <1>6

\* The commit file is made, and written.
LEMMA CommitFileKeepsDeletions ==
  ASSUME DiskInv, DeletionsInv, CreateCommitFile \/ WriteCommitFile
  PROVE  DeletionsInv'
<1>1. UNCHANGED <<dirs, memory>>
  BY DEF CreateCommitFile, WriteCommitFile
<1>2. /\ Reached' = Reached /\ bits' = bits /\ (Writing' <=> Writing)
      /\ \A d, b \in Ids : HasFile(d, b)' =>
            HasFile(d, b) /\ dirs'[d].deletions[b] = dirs[d].deletions[b]
  BY <1>1 DEF memory, Reached, Writing, HasFile
<1>3. BitsKnown'
  BY <1>2, BitsKnownStays DEF DeletionsInv
<1>4. CASE CreateCommitFile
  <2>1. pc = "create" /\ pc' = "write" /\ pc \in Writes /\ pc' \in Writes /\ New' = New
    BY <1>4 DEF CreateCommitFile, Writes, New
  <2>2. FilesGrow'
    BY <1>2, <2>1, FilesGrowStays DEF DeletionsInv, Begun
  <2>3. IsLast(New)'
    <3>1. DiskInv'
      BY <1>4, CreateKeepsDisk
    <3> QED
      BY <2>1, <3>1 DEF DiskInv, WorkIntact
  <2>4. KeeperAhead'
    BY <1>2, <2>1, <2>3 DEF DeletionsInv, KeeperAhead
  <2> QED
    BY <1>3, <2>2, <2>4 DEF DeletionsInv
<1>5. CASE WriteCommitFile
  <2>1. pc = "write" /\ pc \in Writes /\ pc' \notin Writes /\ New \in Ids
    BY <1>5 DEF WriteCommitFile, Writes, DiskInv, WorkIntact
  <2>2. \A c : IsLast(c)' <=> IsLast(c)
    <3>1. commits' = [commits EXCEPT ![New] = [state |-> "whole", barrels |-> work.infos.barrels]]
          /\ commits[New].state = "torn"
      BY <1>5 DEF WriteCommitFile, DiskInv, WorkIntact
    <3>2. Listed' = Listed
      BY <2>1, <3>1 DEF Listed, DiskInv, DiskShape
    <3> QED
      BY <3>2 DEF IsLast
  <2>3. FilesGrow'
    BY <1>2, <2>1, <2>2, BegunStays, FilesGrowStays DEF DeletionsInv
  <2>4. KeeperAhead'
    BY <1>2, <2>1, <2>2 DEF DeletionsInv, KeeperAhead
  <2> QED
    BY <1>3, <2>3, <2>4 DEF DeletionsInv
<1> QED
  BY <1>4, <1>5

\* The cleaner never drops the newest commit.
LEMMA DropKeepsLast ==
  ASSUME DiskInv, DropCommit
  PROVE  \A c : IsLast(c)' <=> IsLast(c)
<1>1. PICK c \in Listed : (\A k \in Listed : c <= k) /\ commits' = [commits EXCEPT ![c] = NoFile]
  BY DEF DropCommit
<1>2. Listed' = Listed \ {c}
  BY <1>1 DEF Listed, NoFile, DiskInv, DiskShape
<1>3. Listed \subseteq Nat /\ KeepCount \in Nat /\ KeepCount > 0 /\ Cardinality(Listed) > KeepCount
  BY IdsAreNumbers, KeepAssumption DEF Listed, DropCommit, TooMany
<1>4. PICK k \in Listed : k # c
  <2> SUFFICES ASSUME Listed \subseteq {c} PROVE FALSE
    OBVIOUS
  <2>1. Listed = {c}
    BY <1>1
  <2>2. Cardinality(Listed) = 1
    BY <2>1, FS_Singleton
  <2> QED
    BY <1>3, <2>2
<1>5. c < k
  BY <1>1, <1>3, <1>4
<1>6. ~IsLast(c) /\ ~IsLast(INVALID_COMMIT)
  BY <1>1, <1>3, <1>4, <1>5, IdsAreNumbers DEF IsLast
<1>7. ASSUME NEW d, IsLast(d) PROVE IsLast(d)'
  BY <1>2, <1>6, <1>7 DEF IsLast
<1>8. ASSUME NEW d, IsLast(d)' PROVE IsLast(d)
  <2>1. d \in Listed /\ \A j \in Listed : j # c => j <= d
    BY <1>2, <1>4, <1>8 DEF IsLast
  <2>2. c <= d
    BY <1>1, <2>1
  <2> QED
    BY <2>1, <2>2 DEF IsLast
<1> QED
  BY <1>7, <1>8

LEMMA CleanerKeepsDeletions ==
  ASSUME DiskInv, DeletionsInv, DropCommit \/ RemoveDir
  PROVE  DeletionsInv'
<1>1. UNCHANGED <<memory, pc, work>> /\ pc \notin Writes
  BY DEF DropCommit, RemoveDir, Writes
<1>2. \A c : IsLast(c)' <=> IsLast(c)
  <2>1. CASE RemoveDir
    BY <2>1 DEF RemoveDir, IsLast, Listed
  <2> QED
    BY <2>1, DropKeepsLast
<1>3. \A d, b \in Ids : HasFile(d, b)' =>
         HasFile(d, b) /\ dirs'[d].deletions[b] = dirs[d].deletions[b]
  <2>1. CASE DropCommit
    BY <2>1 DEF DropCommit, HasFile
  <2>2. CASE RemoveDir
    <3>1. PICK x : dirs' = [dirs EXCEPT ![x] = NoDir]
      BY <2>2 DEF RemoveDir
    <3>2. \A d \in Ids : dirs'[d] = dirs[d] \/ dirs'[d] = NoDir
      BY <3>1 DEF DiskInv, DiskShape
    <3>3. DOMAIN NoDir.deletions = {}
      BY DEF NoDir
    <3> QED
      BY <3>2, <3>3 DEF HasFile
  <2> QED
    BY <2>1, <2>2
<1>4. FilesGrow'
  BY <1>1, <1>2, <1>3, BegunStays, FilesGrowStays DEF DeletionsInv
<1>5. KeeperAhead'
  BY <1>1, <1>2 DEF DeletionsInv, KeeperAhead, memory, Writing, Reached, New
<1>6. BitsKnown'
  BY <1>1, <1>3, BitsKnownStays DEF DeletionsInv, memory, Writing, Reached
<1> QED
  BY <1>4, <1>5, <1>6 DEF DeletionsInv

LEMMA StepKeepsDeletions == DiskInv /\ DeletionsInv /\ [WriterNext]_storeVars => DeletionsInv'
<1> SUFFICES ASSUME DiskInv, DeletionsInv, [WriterNext]_storeVars PROVE DeletionsInv'
  OBVIOUS
<1>1. CASE Open
  BY <1>1, OpenKeepsDeletions
<1>2. CASE \/ Add \/ Seal \/ Close \/ AnyMerge \/ Crash
           \/ \E d \in Documents : DeleteOnDisk(d) \/ DeleteInMemory(d)
  BY <1>2, ClientKeepsDeletions
<1>3. CASE CommitThread
  BY <1>3, TakeBatchKeepsDeletions, FillingKeepsDeletions, CommitFileKeepsDeletions,
     CleanerKeepsDeletions, MergingKeepsDeletions, MergeProposalKeepsDeletions DEF CommitThread
<1>4. CASE UNCHANGED storeVars
  <2>1. UNCHANGED <<disk, memory, thread>>
    BY <1>4 DEF storeVars
  <2>2. CASE Writing
    BY <2>1, <2>2, QuietKeepsDeletions DEF thread, memory, New, Writing, Reached
  <2>3. CASE ~Writing
    BY <2>1, <2>3, QuietKeepsDeletions DEF thread, memory, New, Writing
  <2> QED
    BY <2>2, <2>3
<1> QED
  BY <1>1, <1>2, <1>3, <1>4, LastMergeIsAny DEF WriterNext, StoreNext

\* Whatever the newest commit has as deleted, the filter of the writing process has too,
\* however many crashes, merges and cleanings there were.
THEOREM NoDeletionForgotten == StoreSpec => []DeletionsKnown
<1>1. StoreInit => DeletionsInv
  <2> SUFFICES ASSUME StoreInit PROVE DeletionsInv
    OBVIOUS
  <2>1. ~Writing
    BY DEF StoreInit, NotRunning, Writing
  <2>2. \A d, b \in Ids : ~HasFile(d, b)
    BY DEF StoreInit, HasFile, NoDir
  <2> QED
    BY <2>1, <2>2 DEF DeletionsInv, FilesGrow, KeeperAhead, BitsKnown
<1>2. DiskInv /\ DeletionsInv => DeletionsKnown
  <2> SUFFICES ASSUME DiskInv, DeletionsInv, NEW c \in Ids, IsLast(c),
                      commits[c].state = "whole", Writing, NEW b \in Referenced(c)
               PROVE  LatestFilter(b, b, c) \subseteq bits[b]
    BY DEF DeletionsKnown
  <2>1. b \in Ids /\ c \in Int
    BY IdsAreNumbers DEF DiskInv, CommitsIntact, Referenced, Ids
  <2>2. c <= Reached
    <3>1. Reached \in Int
      BY ReachedIsNumber DEF DiskInv
    <3>2. c = Reached \/ c = Reached - 1
      BY OneLast DEF DeletionsInv, KeeperAhead
    <3> QED
      BY <2>1, <3>1, <3>2
  <2>3. Reached \in Int /\ \A m \in Ids : m <= c => m <= Reached
    BY <2>1, <2>2, IdsAreNumbers, ReachedIsNumber DEF DiskInv
  <2>4. CASE LatestFilter(b, b, c) = {}
    BY <2>4
  <2>5. ASSUME NEW m \in Ids, m <= c, HasFile(m, b), LatestFilter(b, b, c) = dirs[m].deletions[b]
        PROVE  LatestFilter(b, b, c) \subseteq bits[b]
    BY <2>1, <2>3, <2>5 DEF DeletionsInv, BitsKnown
  <2> QED
    BY <2>1, <2>4, <2>5, LatestIsLast DEF DiskInv
<1>3. DiskInv /\ DeletionsInv /\ [StoreNext]_storeVars => DeletionsInv'
  BY StepKeepsDeletions DEF WriterNext
<1> QED
  BY <1>1, <1>2, <1>3, DiskInvHolds, PTL DEF StoreSpec

\* three steps change commit files
LEMMA CommitFileSteps ==
  ASSUME [StoreNext]_storeVars
  PROVE  UNCHANGED commits \/ CreateCommitFile \/ WriteCommitFile \/ DropCommit
<1>1. CASE CommitThread
  BY <1>1 DEF CommitThread, TakeBatch, WriteData, WriteDeletions, WriteRest, Reserve, RemoveDir, Cleaned,
     Merge, MergeAborts, MergeProposal, disk
<1>2. CASE Open \/ Add \/ Seal \/ Close \/ LastMerge \/ Crash
  BY <1>2 DEF Open, Add, Seal, Close, LastMerge, MergeWith, Crash, disk
<1>3. CASE \E d \in Documents : DeleteOnDisk(d) \/ DeleteInMemory(d)
  BY <1>3 DEF DeleteOnDisk, DeleteInMemory, disk
<1> QED
  BY <1>1, <1>2, <1>3 DEF StoreNext, storeVars, disk

-----------------------------------------------------------------------------
(* What is merged with what                                                *)

\* A list of barrels: ids and ranges of document ids ascend.
Ordered(barrels) ==
    /\ IsSequence(barrels)
    /\ \A i \in 1..Len(barrels) :
          /\ barrels[i] = [id   |-> barrels[i].id,    base    |-> barrels[i].base,
                           count |-> barrels[i].count, deleted |-> barrels[i].deleted]
          /\ barrels[i].id \in Ids
          /\ barrels[i].base \in Nat /\ barrels[i].count \in Nat /\ barrels[i].deleted \in Nat
    /\ \A i, k \in 1..Len(barrels) : i < k =>
          barrels[i].id < barrels[k].id /\ barrels[i].base + barrels[i].count <= barrels[k].base

LEMMA IdIsNumber == \A x \in Ids : x \in Nat /\ x \in Int
BY IdsAreNumbers

LEMMA OrderedSelection ==
  ASSUME NEW s, NEW t, Ordered(s), IsSequence(t),
         NEW to \in [1..Len(t) -> 1..Len(s)],
         \A k \in 1..Len(t) : t[k] = s[to[k]],
         \A k, l \in 1..Len(t) : k < l => to[k] < to[l]
  PROVE  Ordered(t) /\ Range(t) \subseteq Range(s)
<1>1. Range(t) = {t[k] : k \in 1..Len(t)} /\ Range(s) = {s[i] : i \in 1..Len(s)}
  BY SequenceShape DEF Ordered
<1>2. \A k \in 1..Len(t) : to[k] \in 1..Len(s)
  OBVIOUS
<1>3. Range(t) \subseteq Range(s)
  BY <1>1, <1>2
<1>4. ASSUME NEW k \in 1..Len(t)
      PROVE  /\ t[k] = [id   |-> t[k].id,    base    |-> t[k].base,
                        count |-> t[k].count, deleted |-> t[k].deleted]
             /\ t[k].id \in Ids
             /\ t[k].base \in Nat /\ t[k].count \in Nat /\ t[k].deleted \in Nat
  <2>1. to[k] \in 1..Len(s) /\ t[k] = s[to[k]]
    BY <1>2
  <2> QED
    BY <2>1 DEF Ordered
<1>5. ASSUME NEW k \in 1..Len(t), NEW l \in 1..Len(t), k < l
      PROVE  t[k].id < t[l].id /\ t[k].base + t[k].count <= t[l].base
  <2>1. /\ to[k] \in 1..Len(s) /\ to[l] \in 1..Len(s) /\ to[k] < to[l]
        /\ t[k] = s[to[k]] /\ t[l] = s[to[l]]
    BY <1>2, <1>5
  <2> QED
    BY <2>1 DEF Ordered
<1> QED
  BY <1>3, <1>4, <1>5 DEF Ordered

LEMMA OrderedIsInjective ==
  ASSUME NEW s, Ordered(s), NEW i \in 1..Len(s), NEW k \in 1..Len(s), i # k
  PROVE  s[i].id # s[k].id
<1>1. Len(s) \in Nat
  BY SequenceShape DEF Ordered
<1>2. s[i].id \in Ids /\ s[k].id \in Ids
  BY DEF Ordered
<1>3. s[i].id \in Int /\ s[k].id \in Int
  BY <1>2, IdIsNumber
<1>4. i < k => s[i].id < s[k].id
  BY DEF Ordered
<1>5. k < i => s[k].id < s[i].id
  BY DEF Ordered
<1> QED
  BY <1>1, <1>3, <1>4, <1>5

\* Every count of documents has a level.
LEMMA LevelIsThere == ASSUME NEW count PROVE Level(count) \in 0..DfBits
<1> DEFINE Within(n) == n = DfBits \/ count <= ScaleFactor * CollisionFactor ^ (n + 1)
           T == {n \in 0..DfBits : Within(n)}
<1>1. DfBits \in T /\ T \subseteq Nat
  BY DEF DfBits
<1>2. PICK m \in T : \A n \in T : m <= n
  <2> HIDE DEF T
  <2> QED
    BY <1>1, Smallest
<1>3. \A k \in 0..(m - 1) : k \in 0..DfBits /\ k # DfBits /\ ~(m <= k)
  BY <1>2 DEF DfBits
<1>4. \A k \in 0..(m - 1) : ~(count <= ScaleFactor * CollisionFactor ^ (k + 1))
  BY <1>2, <1>3
<1>5. \E n \in 0..DfBits :
         /\ n = DfBits \/ count <= ScaleFactor * CollisionFactor ^ (n + 1)
         /\ \A k \in 0..(n - 1) : ~(count <= ScaleFactor * CollisionFactor ^ (k + 1))
  BY <1>2, <1>4
<1> QED
  BY <1>5 DEF Level

LEMMA MergedNodeIsNode ==
  ASSUME NEW barrels, Ordered(barrels), NEW ids \in SUBSET Int
  PROVE  LET node == MergedNode(barrels, ids)
         IN node \in [ids : SUBSET Int, count : Int] /\ node.ids = ids
<1> DEFINE n == Len(barrels)
           step == [i \in 1..n |-> [x \in Int |->
                      IF barrels[i].id \in ids THEN x + barrels[i].count - barrels[i].deleted ELSE x]]
           IsSum(f) == f = [i \in 0..n |->
                      IF i = 0 THEN 0
                      ELSE IF barrels[i].id \in ids THEN f[i - 1] + barrels[i].count - barrels[i].deleted
                      ELSE f[i - 1]]
<1>1. n \in Nat /\ \A i \in 1..n : barrels[i].count \in Int /\ barrels[i].deleted \in Int
  <2>1. n \in Nat
    BY SequenceShape DEF Ordered
  <2>2. \A i \in 1..n : barrels[i].count \in Nat /\ barrels[i].deleted \in Nat
    BY DEF Ordered
  <2> QED
    BY <2>1, <2>2
<1>2. step \in [1..n -> [Int -> Int]]
  BY <1>1
<1>3. PICK f \in [0..n -> Int] : f[0] = 0 /\ \A i \in 1..n : f[i] = step[i][f[i - 1]]
  <2> DEFINE S == Int
             first == 0
  <2>1. n \in Nat /\ first \in S /\ step \in [1..n -> [S -> S]]
    BY <1>1, <1>2
  <2> HIDE DEF S, first, step, n
  <2>2. \E g \in [0..n -> S] : g[0] = first /\ \A i \in 1..n : g[i] = step[i][g[i - 1]]
    BY <2>1, Recursion
  <2> QED
    BY <2>2 DEF S, first
<1>4. IsSum(f)
  <2>1. ASSUME NEW i \in 0..n, i # 0
        PROVE  f[i] = IF barrels[i].id \in ids THEN f[i - 1] + barrels[i].count - barrels[i].deleted
                      ELSE f[i - 1]
    <3>1. i \in 1..n /\ i - 1 \in 0..n
      BY <1>1, <2>1
    <3>2. f[i] = step[i][f[i - 1]] /\ f[i - 1] \in Int
      BY <1>3, <3>1
    <3> HIDE DEF n
    <3> QED
      BY <3>1, <3>2
  <2>2. f = [i \in 0..n |-> f[i]]
    OBVIOUS
  <2> HIDE DEF n, step
  <2> QED
    BY <1>3, <2>1, <2>2
<1> DEFINE sum == CHOOSE g : IsSum(g)
<1>5. IsSum(sum)
  <2> HIDE DEF IsSum
  <2> QED
    BY <1>4
<1>6. MergedNode(barrels, ids) = [ids |-> ids, count |-> sum[n]]
  BY DEF MergedNode
<1> HIDE DEF sum
<1> DEFINE T == {i \in 0..n : sum[i] \in Int}
<1>7. /\ sum[0] = 0
      /\ \A i \in 1..n : sum[i] = IF barrels[i].id \in ids
                                  THEN sum[i - 1] + barrels[i].count - barrels[i].deleted
                                  ELSE sum[i - 1]
  <2> HIDE DEF n
  <2>1. \A i \in 0..n : sum[i] = IF i = 0 THEN 0
                                ELSE IF barrels[i].id \in ids
                                THEN sum[i - 1] + barrels[i].count - barrels[i].deleted
                                ELSE sum[i - 1]
    BY <1>5, Zenon
  <2> QED
    BY <1>1, <2>1
<1>8. 0 \in T /\ \A i \in 1..n : i - 1 \in T => i \in T
  <2> HIDE DEF n
  <2>1. 0 \in T
    BY <1>1, <1>7
  <2>2. ASSUME NEW i \in 1..n, i - 1 \in T PROVE i \in T
    <3>1. sum[i - 1] \in Int /\ i \in 0..n
      BY <2>2
    <3>2. barrels[i].count \in Int /\ barrels[i].deleted \in Int
      BY <1>1
    <3> QED
      BY <1>7, <3>1, <3>2
  <2> QED
    BY <2>1, <2>2
<1>9. n \in T
  <2> HIDE DEF T, n
  <2>1. 0..n \subseteq T
    BY <1>1, <1>8, InductionUpto
  <2> QED
    BY <1>1, <2>1
<1> HIDE DEF n
<1> QED
  BY <1>6, <1>9

\* One turn of the tree's loops
LEMMA TurnTurns ==
  ASSUME NEW barrels, NEW s \in Trees
  PROVE  LET t == Turn(barrels)[s]
             level == Level(s.node.count)
             there == {u \in s.tree : u[2] = level}
             nodes == {u[1] : u \in there} \cup {s.node.ids}
         IN \/ /\ s.node = NoNode /\ s.taken < Len(barrels)
               /\ t = [tree |-> s.tree, node |-> Node(barrels[s.taken + 1]),
                       taken |-> s.taken + 1, result |-> s.result]
            \/ /\ s.node # NoNode
               /\ t = [tree |-> s.tree \cup {<<s.node.ids, level>>}, node |-> NoNode,
                       taken |-> s.taken, result |-> s.result]
            \/ /\ s.node # NoNode /\ Cardinality(nodes) >= CollisionFactor
               /\ t = [tree |-> s.tree \ there, node |-> MergedNode(barrels, UNION nodes),
                       taken |-> s.taken,
                       result |-> s.result \cup ((UNION {ids \in nodes : IsBarrel(ids)}) \X {level})]
            \/ t = s
<1> DEFINE level == Level(s.node.count)
           there == {u \in s.tree : u[2] = level}
           nodes == {u[1] : u \in there} \cup {s.node.ids}
           t == Turn(barrels)[s]
           merges == Cardinality(nodes) >= CollisionFactor
           merged == MergedNode(barrels, UNION nodes)
           more == (UNION {ids \in nodes : IsBarrel(ids)}) \X {level}
<1>1. t = CASE s.node = NoNode /\ s.taken < Len(barrels) ->
                 [s EXCEPT !.taken = @ + 1, !.node = Node(barrels[s.taken + 1])]
            [] s.node # NoNode /\ ~merges ->
                 [s EXCEPT !.tree = @ \cup {<<s.node.ids, level>>}, !.node = NoNode]
            [] s.node # NoNode /\ merges ->
                 [s EXCEPT !.tree = @ \ there, !.node = merged, !.result = @ \cup more]
            [] OTHER -> s
  BY DEF Turn
<1>2. s = [tree |-> s.tree, node |-> s.node, taken |-> s.taken, result |-> s.result]
  BY DEF Trees
<1> HIDE DEF t, level, there, nodes, merged, more, merges
<1>3. \/ /\ s.node = NoNode /\ s.taken < Len(barrels)
         /\ t = [tree |-> s.tree, node |-> Node(barrels[s.taken + 1]),
                 taken |-> s.taken + 1, result |-> s.result]
      \/ /\ s.node # NoNode
         /\ t = [tree |-> s.tree \cup {<<s.node.ids, level>>}, node |-> NoNode,
                 taken |-> s.taken, result |-> s.result]
      \/ /\ s.node # NoNode /\ merges
         /\ t = [tree |-> s.tree \ there, node |-> merged,
                 taken |-> s.taken, result |-> s.result \cup more]
      \/ t = s
  <2>1. CASE s.node = NoNode /\ s.taken < Len(barrels)
    BY <1>1, <1>2, <2>1
  <2>2. CASE s.node # NoNode /\ ~merges
    BY <1>1, <1>2, <2>2
  <2>3. CASE s.node # NoNode /\ merges
    BY <1>1, <1>2, <2>3
  <2>4. CASE s.node = NoNode /\ ~(s.taken < Len(barrels))
    BY <1>1, <2>4
  <2> QED
    BY <2>1, <2>2, <2>3, <2>4
<1> QED
  BY <1>3 DEF t, level, there, nodes, merged, more, merges

LEMMA TreeOf ==
  ASSUME NEW tree \in SUBSET ((SUBSET Int) \X Nat), NEW node \in [ids : SUBSET Int, count : Int],
         NEW taken \in Nat, NEW result \in SUBSET (Int \X Nat)
  PROVE  [tree |-> tree, node |-> node, taken |-> taken, result |-> result] \in Trees
BY DEF Trees

LEMMA TurnStays ==
  ASSUME NEW barrels, Ordered(barrels)
  PROVE  Turn(barrels) \in [Trees -> Trees]
<1>1. ASSUME NEW s \in Trees PROVE Turn(barrels)[s] \in Trees
  <2> DEFINE t == Turn(barrels)[s]
             level == Level(s.node.count)
             there == {u \in s.tree : u[2] = level}
             nodes == {u[1] : u \in there} \cup {s.node.ids}
             fine == {x \in nodes : IsBarrel(x)}
  <2> SUFFICES t \in Trees
    OBVIOUS
  <2>1. /\ s.tree \in SUBSET ((SUBSET Int) \X Nat) /\ s.taken \in Nat
        /\ s.node \in [ids : SUBSET Int, count : Int]
        /\ s.result \in SUBSET (Int \X Nat)
    BY DEF Trees
  <2>2. level \in Nat
    BY LevelIsThere DEF DfBits
  <2> HIDE DEF level
  <2>3. NoNode \in [ids : SUBSET Int, count : Int]
    BY DEF NoNode
  <2>4. CASE s.node = NoNode /\ s.taken < Len(barrels)
             /\ t = [tree |-> s.tree, node |-> Node(barrels[s.taken + 1]),
                     taken |-> s.taken + 1, result |-> s.result]
    <3>1. s.taken + 1 \in 1..Len(barrels)
      BY <2>1, <2>4, SequenceShape DEF Ordered
    <3>2. barrels[s.taken + 1].id \in Ids /\ barrels[s.taken + 1].count \in Nat
      BY <3>1 DEF Ordered
    <3>3. Node(barrels[s.taken + 1]) \in [ids : SUBSET Int, count : Int]
      <4>1. {barrels[s.taken + 1].id} \in SUBSET Int
        BY <3>2, IdIsNumber
      <4> QED
        BY <3>2, <4>1 DEF Node
    <3>4. s.taken + 1 \in Nat
      BY <2>1
    <3> HIDE DEF t
    <3> QED
      BY <2>1, <2>4, <3>3, <3>4, TreeOf
  <2>5. CASE t = [tree |-> s.tree \cup {<<s.node.ids, level>>}, node |-> NoNode,
                  taken |-> s.taken, result |-> s.result]
    <3>1. <<s.node.ids, level>> \in (SUBSET Int) \X Nat
      BY <2>1, <2>2
    <3>2. s.tree \cup {<<s.node.ids, level>>} \in SUBSET ((SUBSET Int) \X Nat)
      BY <2>1, <3>1
    <3> HIDE DEF t
    <3> QED
      BY <2>1, <2>3, <2>5, <3>2, TreeOf
  <2>6. CASE t = [tree |-> s.tree \ there, node |-> MergedNode(barrels, UNION nodes),
                  taken |-> s.taken, result |-> s.result \cup ((UNION fine) \X {level})]
    <3>1. UNION nodes \in SUBSET Int /\ UNION fine \subseteq UNION nodes
      BY <2>1
    <3> HIDE DEF nodes, there, fine
    <3>2. MergedNode(barrels, UNION nodes) \in [ids : SUBSET Int, count : Int]
      BY <3>1, MergedNodeIsNode
    <3>3. s.result \cup ((UNION fine) \X {level}) \in SUBSET (Int \X Nat)
      BY <2>1, <2>2, <3>1
    <3>4. s.tree \ there \in SUBSET ((SUBSET Int) \X Nat)
      BY <2>1
    <3> HIDE DEF t
    <3> QED
      BY <2>1, <2>6, <3>2, <3>3, <3>4, TreeOf
  <2>7. \/ s.node = NoNode /\ s.taken < Len(barrels)
           /\ t = [tree |-> s.tree, node |-> Node(barrels[s.taken + 1]),
                   taken |-> s.taken + 1, result |-> s.result]
        \/ t = [tree |-> s.tree \cup {<<s.node.ids, level>>}, node |-> NoNode,
                taken |-> s.taken, result |-> s.result]
        \/ t = [tree |-> s.tree \ there, node |-> MergedNode(barrels, UNION nodes),
                taken |-> s.taken, result |-> s.result \cup ((UNION fine) \X {level})]
        \/ t = s
    BY TurnTurns DEF level
  <2> QED
    BY <2>4, <2>5, <2>6, <2>7
<1>2. Turn(barrels) = [s \in Trees |-> Turn(barrels)[s]]
  BY DEF Turn
<1> QED
  BY <1>1, <1>2

Taken(barrels, n) == {barrels[i].id : i \in 1..n}

\* The nodes stand for disjoint sets of the barrels taken, and a barrel that has collided
\* is never again a node of its own.
TreeSound(barrels, s) ==
    /\ s \in Trees /\ s.taken \in 0..Len(barrels)
    /\ \A t \in s.tree : /\ t[1] # {} /\ t[1] \subseteq Taken(barrels, s.taken)
                         /\ t[1] \cap s.node.ids = {}
    /\ \A t, u \in s.tree : t # u => t[1] \cap u[1] = {}
    /\ s.node.ids \subseteq Taken(barrels, s.taken)
    /\ s.node # NoNode => s.node.ids # {}
    /\ s.result \subseteq Taken(barrels, s.taken) \X (0..DfBits)
    /\ \A p, q \in s.result : p[1] = q[1] => p = q
    /\ \A p \in s.result : s.node.ids # {p[1]} /\ \A t \in s.tree : t[1] # {p[1]}

LEMMA TurnKeepsSound ==
  ASSUME NEW barrels, Ordered(barrels), NEW s, TreeSound(barrels, s)
  PROVE  TreeSound(barrels, Turn(barrels)[s])
<1> DEFINE t == Turn(barrels)[s]
           level == Level(s.node.count)
           there == {u \in s.tree : u[2] = level}
           nodes == {u[1] : u \in there} \cup {s.node.ids}
           fine == {ids \in nodes : IsBarrel(ids)}
           X == Taken(barrels, s.taken)
<1> SUFFICES TreeSound(barrels, t)
  OBVIOUS
<1>1. s \in Trees /\ t \in Trees /\ s.taken \in 0..Len(barrels) /\ Len(barrels) \in Nat
      /\ NoNode.ids = {} /\ level \in 0..DfBits /\ level \in Nat
  <2>1. s \in Trees /\ s.taken \in 0..Len(barrels)
    BY DEF TreeSound
  <2>2. t \in Trees
    BY <2>1, TurnStays
  <2>3. Len(barrels) \in Nat
    BY SequenceShape DEF Ordered
  <2>4. level \in 0..DfBits /\ level \in Nat
    BY LevelIsThere DEF DfBits
  <2> QED
    BY <2>1, <2>2, <2>3, <2>4 DEF NoNode
<1>2. s.tree \in SUBSET ((SUBSET Int) \X Nat)
  BY <1>1 DEF Trees
<1>3. CASE s.node = NoNode /\ s.taken < Len(barrels)
           /\ t = [tree |-> s.tree, node |-> Node(barrels[s.taken + 1]),
                   taken |-> s.taken + 1, result |-> s.result]
  <2> DEFINE x == barrels[s.taken + 1].id
             n == s.taken
  <2>1. n \in Nat /\ n + 1 \in 0..Len(barrels) /\ n + 1 \in 1..Len(barrels) /\ 1..(n + 1) = 1..n \cup {n + 1}
    BY <1>1, <1>3
  <2>2. Taken(barrels, n + 1) = X \cup {x}
    BY <2>1 DEF Taken
  <2>3. x \notin X
    <3>1. \A i \in 1..n : i \in 1..Len(barrels) /\ i # n + 1
      BY <1>1, <2>1
    <3> QED
      BY <2>1, <3>1, OrderedIsInjective DEF Taken
  <2>4. t.tree = s.tree /\ t.node.ids = {x} /\ t.taken = n + 1 /\ t.result = s.result
    BY <1>3 DEF Node
  <2> HIDE DEF t, x, X, n
  <2>5. \A u \in s.tree : u[1] # {} /\ u[1] \subseteq X
    BY DEF TreeSound, X
  <2>6. s.result \subseteq X \X (0..DfBits)
    BY DEF TreeSound, X
  <2>7. \A p \in s.result : p[1] \in X
    BY <2>6
  <2> QED
    BY <1>1, <2>1, <2>2, <2>3, <2>4, <2>5, <2>6, <2>7 DEF TreeSound
<1>4. CASE s.node # NoNode
           /\ t = [tree |-> s.tree \cup {<<s.node.ids, level>>}, node |-> NoNode,
                   taken |-> s.taken, result |-> s.result]
  <2> DEFINE u == <<s.node.ids, level>>
  <2>1. t.tree = s.tree \cup {u} /\ t.node = NoNode /\ t.taken = s.taken /\ t.result = s.result
    BY <1>4
  <2>2. u[1] = s.node.ids /\ u[1] # {}
    BY <1>4 DEF TreeSound
  <2> HIDE DEF t, u, X
  <2> QED
    BY <1>1, <2>1, <2>2 DEF TreeSound
<1>5. CASE s.node # NoNode /\ Cardinality(nodes) >= CollisionFactor
           /\ t = [tree |-> s.tree \ there, node |-> MergedNode(barrels, UNION nodes),
                   taken |-> s.taken, result |-> s.result \cup ((UNION fine) \X {level})]
  <2>1. nodes \subseteq SUBSET X /\ \A ids \in nodes : ids # {}
    BY <1>5 DEF TreeSound
  <2>2. \A v, w \in nodes : v # w => v \cap w = {}
    BY DEF TreeSound
  <2>3. \A u \in s.tree \ there : \A v \in nodes : u[1] \cap v = {}
    BY DEF TreeSound
  <2>4. \A p \in s.result : \A v \in nodes : v # {p[1]}
    BY DEF TreeSound
  <2>5. X \subseteq Ids /\ X \subseteq Int /\ IsFiniteSet(X)
    <3>1. \A i \in 1..s.taken : i \in 1..Len(barrels)
      BY <1>1
    <3>2. X \subseteq Ids
      BY <3>1 DEF Taken, Ordered
    <3>3. IsFiniteSet(Ids)
      BY BoundAssumption, FS_Interval DEF Ids
    <3> QED
      BY <3>2, <3>3, FS_Subset, IdIsNumber
  <2>6. ASSUME NEW ids \in fine PROVE \E x \in X : ids = {x}
    <3>1. ids \in nodes /\ Cardinality(ids) = 1 /\ ids \subseteq X
      BY <2>1, <2>6 DEF IsBarrel
    <3>2. IsFiniteSet(ids)
      BY <2>5, <3>1, FS_Subset
    <3>3. PICK x : ids = {x}
      BY <3>1, <3>2, FS_Singleton
    <3> QED
      BY <3>1, <3>3
  <2>7. \A x \in UNION fine : x \in X /\ {x} \in nodes
    BY <2>6
  <2>8. PICK v \in nodes, w \in nodes : v # w
    <3>1. s.node.ids \in nodes
      OBVIOUS
    <3>2. Cardinality(nodes) # 1
      BY <1>5, FactorAssumption
    <3> HIDE DEF nodes
    <3>3. nodes # {s.node.ids}
      BY <3>2, FS_Singleton
    <3> QED
      BY <3>1, <3>3
  <2>9. \A x : UNION nodes # {x}
    <3>1. v # {} /\ w # {} /\ v \cap w = {}
      BY <2>1, <2>2, <2>8
    <3>2. PICK y \in v, z \in w : y # z
      BY <3>1
    <3>3. y \in UNION nodes /\ z \in UNION nodes
      BY <2>8, <3>2
    <3> QED
      BY <3>2, <3>3
  <2>10. UNION nodes \subseteq X /\ UNION nodes # {}
    BY <2>1, <2>8
  <2> HIDE DEF nodes
  <2>11. UNION nodes \in SUBSET Int
    BY <2>5, <2>10
  <2>12. MergedNode(barrels, UNION nodes).ids = UNION nodes
    BY <2>11, MergedNodeIsNode
  <2>13. /\ t.tree = s.tree \ there /\ t.node.ids = UNION nodes /\ t.taken = s.taken
         /\ t.result = s.result \cup ((UNION fine) \X {level})
    <3> HIDE DEF t, there, fine
    <3> QED
      BY <1>5, <2>12
  <2> DEFINE more == (UNION fine) \X {level}
  <2> HIDE DEF fine, X, there, level
  <2>14. ASSUME NEW p \in more
         PROVE  p[1] \in X /\ {p[1]} \in nodes /\ p = <<p[1], level>> /\ p \in X \X (0..DfBits)
    <3>1. p = <<p[1], level>> /\ p[1] \in UNION fine
      OBVIOUS
    <3> QED
      BY <1>1, <2>7, <3>1
  <2> HIDE DEF more
  <2>15. \A p \in t.result : p \in s.result \/ p \in more
    BY <2>13 DEF more
  <2> HIDE DEF t
  <2>16. \A p, q \in t.result : p[1] = q[1] => p = q
    <3> SUFFICES ASSUME NEW p \in t.result, NEW q \in t.result, p[1] = q[1] PROVE p = q
      OBVIOUS
    <3>1. CASE p \in s.result /\ q \in s.result
      BY <3>1 DEF TreeSound
    <3>2. CASE p \in more /\ q \in more
      BY <2>14, <3>2
    <3>3. ~(p \in s.result /\ q \in more) /\ ~(p \in more /\ q \in s.result)
      BY <2>4, <2>14
    <3> QED
      BY <2>15, <3>1, <3>2, <3>3
  <2>17. ASSUME NEW p \in t.result PROVE t.node.ids # {p[1]} /\ \A u \in t.tree : u[1] # {p[1]}
    <3>1. t.node.ids # {p[1]}
      BY <2>9, <2>13
    <3>2. ASSUME NEW u \in t.tree PROVE u[1] # {p[1]}
      <4>1. u \in s.tree /\ u \in s.tree \ there
        BY <2>13
      <4>2. CASE p \in s.result
        BY <4>1, <4>2 DEF TreeSound
      <4>3. CASE p \in more
        BY <2>3, <2>14, <4>1, <4>3
      <4> QED
        BY <2>15, <4>2, <4>3
    <3> QED
      BY <3>1, <3>2
  <2>18. t.result \subseteq X \X (0..DfBits)
    <3>1. s.result \subseteq X \X (0..DfBits)
      BY DEF TreeSound, X
    <3> QED
      BY <2>14, <2>15, <3>1
  <2>19. \A u \in t.tree : u \in s.tree /\ u[1] \cap t.node.ids = {}
    BY <2>3, <2>13
  <2> QED
    BY <1>1, <2>10, <2>13, <2>16, <2>17, <2>18, <2>19 DEF TreeSound, X
<1> QED
  <2>1. \/ s.node = NoNode /\ s.taken < Len(barrels)
           /\ t = [tree |-> s.tree, node |-> Node(barrels[s.taken + 1]),
                   taken |-> s.taken + 1, result |-> s.result]
        \/ s.node # NoNode
           /\ t = [tree |-> s.tree \cup {<<s.node.ids, level>>}, node |-> NoNode,
                   taken |-> s.taken, result |-> s.result]
        \/ s.node # NoNode /\ Cardinality(nodes) >= CollisionFactor
           /\ t = [tree |-> s.tree \ there, node |-> MergedNode(barrels, UNION nodes),
                   taken |-> s.taken, result |-> s.result \cup ((UNION fine) \X {level})]
        \/ t = s
    BY <1>1, TurnTurns
  <2>2. CASE t = s
    <3> HIDE DEF t
    <3> QED
      BY <2>2
  <2> HIDE DEF level, there, nodes, fine, t
  <2> QED
    BY <1>3, <1>4, <1>5, <2>1, <2>2

\* What the tree collects are barrels of the list, each at one level.
LEMMA ResultTreeSound ==
  ASSUME NEW barrels, Ordered(barrels)
  PROVE  /\ ResultTree(barrels) \subseteq Taken(barrels, Len(barrels)) \X (0..DfBits)
         /\ \A p, q \in ResultTree(barrels) : p[1] = q[1] => p = q
<1> DEFINE n == 3 * Len(barrels)
           start == [tree |-> {}, node |-> NoNode, taken |-> 0, result |-> {}]
           step == [i \in 1..n |-> Turn(barrels)]
           IsAfter(f) == f = [turn \in 0..n |-> IF turn = 0 THEN start
                                                ELSE Turn(barrels)[f[turn - 1]]]
<1>1. Len(barrels) \in Nat /\ n \in Nat
  BY SequenceShape DEF Ordered
<1>2. TreeSound(barrels, start)
  <2>1. NoNode \in [ids : SUBSET Int, count : Int] /\ NoNode.ids = {}
    BY DEF NoNode
  <2>2. start \in Trees
    BY <2>1, TreeOf
  <2>3. start.tree = {} /\ start.node = NoNode /\ start.taken = 0 /\ start.result = {}
    OBVIOUS
  <2> HIDE DEF start
  <2> QED
    BY <1>1, <2>1, <2>2, <2>3 DEF TreeSound
<1>3. start \in Trees /\ step \in [1..n -> [Trees -> Trees]]
  BY <1>2, TurnStays DEF TreeSound
<1>4. PICK f \in [0..n -> Trees] : f[0] = start /\ \A i \in 1..n : f[i] = step[i][f[i - 1]]
  <2> DEFINE S == Trees
  <2>1. n \in Nat /\ start \in S /\ step \in [1..n -> [S -> S]]
    BY <1>1, <1>3
  <2> HIDE DEF S, n, start, step
  <2>2. \E g \in [0..n -> S] : g[0] = start /\ \A i \in 1..n : g[i] = step[i][g[i - 1]]
    BY <2>1, Recursion
  <2> QED
    BY <2>2 DEF S
<1>5. IsAfter(f)
  <2>1. ASSUME NEW i \in 0..n, i # 0 PROVE f[i] = Turn(barrels)[f[i - 1]]
    <3>1. i \in 1..n
      BY <1>1, <2>1
    <3> QED
      BY <1>4, <3>1
  <2>2. f = [i \in 0..n |-> f[i]]
    BY <1>4
  <2> HIDE DEF n, step, start
  <2> QED
    BY <1>4, <2>1, <2>2
<1> DEFINE after == CHOOSE g : IsAfter(g)
<1>6. IsAfter(after)
  <2> HIDE DEF IsAfter
  <2> QED
    BY <1>5
<1>7. ResultTree(barrels) = after[n].result
  BY DEF ResultTree
<1> HIDE DEF after, start
<1>8. after[0] = start /\ \A i \in 1..n : after[i] = Turn(barrels)[after[i - 1]]
  <2> HIDE DEF n
  <2>1. \A i \in 0..n : after[i] = IF i = 0 THEN start ELSE Turn(barrels)[after[i - 1]]
    BY <1>6, Zenon
  <2> QED
    BY <1>1, <2>1
<1> DEFINE T == {i \in 0..n : TreeSound(barrels, after[i])}
<1>9. 0 \in T
  BY <1>1, <1>2, <1>8
<1>10. ASSUME NEW i \in 1..n, i - 1 \in T PROVE i \in T
  <2>1. TreeSound(barrels, Turn(barrels)[after[i - 1]]) /\ i \in 0..n
    BY <1>1, <1>10, TurnKeepsSound
  <2> QED
    BY <1>8, <2>1
<1>11. TreeSound(barrels, after[n])
  <2> HIDE DEF T, n
  <2>1. 0..n \subseteq T
    BY <1>1, <1>9, <1>10, InductionUpto
  <2> QED
    BY <1>1, <2>1 DEF T
<1>12. ASSUME NEW m \in 0..Len(barrels)
       PROVE  Taken(barrels, m) \subseteq Taken(barrels, Len(barrels))
  BY <1>1, <1>12, \A i \in 1..m : i \in 1..Len(barrels) DEF Taken
<1> HIDE DEF n
<1> QED
  <2> DEFINE s == after[n]
  <2>1. /\ s.taken \in 0..Len(barrels)
        /\ s.result \subseteq Taken(barrels, s.taken) \X (0..DfBits)
        /\ \A p, q \in s.result : p[1] = q[1] => p = q
    BY <1>11 DEF TreeSound
  <2>2. Taken(barrels, s.taken) \subseteq Taken(barrels, Len(barrels))
    BY <1>12, <2>1
  <2> HIDE DEF s
  <2>3. s.result \subseteq Taken(barrels, Len(barrels)) \X (0..DfBits)
    BY <2>1, <2>2
  <2> QED
    BY <1>7, <2>1, <2>3 DEF s

\* Lists of some of the barrels, each barrel in one of them at most.
SoundParts(parts, infos) ==
    /\ IsSequence(parts)
    /\ \A i \in 1..Len(parts) :
          /\ IsList(parts[i]) /\ Ordered(parts[i].barrels) /\ parts[i].barrels # <<>>
          /\ Range(parts[i].barrels) \subseteq Range(infos.barrels)
          /\ parts[i].commit \in Ids /\ parts[i].commit <= infos.commit
          /\ \A b \in Range(parts[i].barrels) : b.id <= parts[i].commit
    /\ \A i, k \in 1..Len(parts) :
          i # k => Range(parts[i].barrels) \cap Range(parts[k].barrels) = {}

\* A list of barrels has the commit id of its newest.
LEMMA CollectedHasIds ==
  ASSUME NEW barrels, Ordered(barrels), barrels # <<>>
  PROVE  LET list == Collected(barrels)
         IN /\ IsList(list) /\ list.barrels = barrels /\ list.commit \in Ids
            /\ \A b \in Range(barrels) : b.id <= list.commit
            /\ \E b \in Range(barrels) : b.id = list.commit
<1> DEFINE S == {b.id : b \in Range(barrels)}
           list == Collected(barrels)
<1>1. IsSequence(barrels) /\ Range(barrels) # {} /\ \A b \in Range(barrels) : b.id \in Ids
  <2>1. Len(barrels) \in Nat /\ Len(barrels) # 0 /\ Range(barrels) = {barrels[i] : i \in 1..Len(barrels)}
    BY SequenceShape DEF Ordered
  <2>2. 1 \in 1..Len(barrels)
    BY <2>1
  <2> QED
    BY <2>1, <2>2 DEF Ordered
<1>2. S \subseteq Ids /\ S # {}
  BY <1>1
<1>3. S \subseteq Nat /\ \A x \in S : x <= MaxCommit
  BY <1>2, IdsAreNumbers DEF Ids
<1>4. \E m \in S : \A x \in S : x <= m
  <2> HIDE DEF S
  <2> QED
    BY <1>2, <1>3, Largest, IdsAreNumbers
<1>5. Max(S) \in S /\ \A x \in S : x <= Max(S)
  <2> HIDE DEF S
  <2>1. \E m \in S : \A x \in S : m >= x
    BY <1>3, <1>4
  <2>2. Max(S) \in S /\ \A x \in S : Max(S) >= x
    BY <2>1 DEF Max
  <2> QED
    BY <1>3, <2>2
<1>6. list = [commit |-> Max(S), barrels |-> barrels]
  BY DEF Collected
<1> HIDE DEF list
<1>7. list.commit = Max(S) /\ list.barrels = barrels /\ IsList(list)
  BY <1>1, <1>6 DEF IsList
<1> QED
  BY <1>2, <1>5, <1>7 DEF list

\* What is selected of a list of barrels is a list of barrels.
LEMMA SelectedBarrels ==
  ASSUME NEW s, Ordered(s), NEW P \in SUBSET (1..Len(s))
  PROVE  /\ Ordered(Selection(s)[P]) /\ Range(Selection(s)[P]) = {s[i] : i \in P}
         /\ P # {} => Selection(s)[P] # <<>>
<1> DEFINE t == Selection(s)[P]
<1>1. IsSequence(s)
  BY DEF Ordered
<1>2. LET u == Selection(s)[P]
      IN /\ IsSequence(u)
         /\ Range(u) = {s[i] : i \in P}
         /\ \E from \in [1..Len(u) -> P] :
               /\ \A k \in 1..Len(u) : u[k] = s[from[k]]
               /\ \A k, l \in 1..Len(u) : k < l => from[k] < from[l]
  BY <1>1, SelectionKeeps
<1> HIDE DEF t
<1>3. PICK to \in [1..Len(t) -> P] :
         /\ \A k \in 1..Len(t) : t[k] = s[to[k]]
         /\ \A k, l \in 1..Len(t) : k < l => to[k] < to[l]
  BY <1>2 DEF t
<1>4. to \in [1..Len(t) -> 1..Len(s)]
  BY <1>3
<1>5. IsSequence(t) /\ Range(t) = {s[i] : i \in P}
  BY <1>2 DEF t
<1>6. P # {} => t # <<>>
  <2>1. ASSUME NEW i \in P PROVE Range(t) # {}
    BY <1>5
  <2> QED
    BY <2>1, EmptySequence
<1>7. Ordered(t)
  BY <1>3, <1>4, <1>5, OrderedSelection
<1> QED
  BY <1>5, <1>6, <1>7 DEF t

LEMMA SelectedApart ==
  ASSUME NEW s, Ordered(s), NEW P \in SUBSET (1..Len(s)), NEW Q \in SUBSET (1..Len(s)),
         P \cap Q = {}
  PROVE  Range(Selection(s)[P]) \cap Range(Selection(s)[Q]) = {}
<1>1. \A i \in P, k \in Q : s[i].id # s[k].id
  BY OrderedIsInjective
<1>2. \A i \in P, k \in Q : s[i] # s[k]
  BY <1>1
<1>3. Range(Selection(s)[P]) = {s[i] : i \in P}
  BY SelectedBarrels
<1>4. Range(Selection(s)[Q]) = {s[i] : i \in Q}
  BY SelectedBarrels
<1> QED
  BY <1>2, <1>3, <1>4

\* The numbers of a finite set in ascending order
LEMMA AscendingAscends ==
  ASSUME NEW S, S \subseteq Nat, IsFiniteSet(S)
  PROVE  LET s == Ascending(S)
         IN /\ IsSequence(s) /\ \A i \in 1..Len(s) : s[i] \in S
            /\ \A i, k \in 1..Len(s) : i # k => s[i] # s[k]
<1> DEFINE n == Cardinality(S)
           IsAscending(s) == s \in [1..n -> S] /\ \A i, k \in DOMAIN s : i < k => s[i] < s[k]
           a == CHOOSE s \in [1..n -> S] : \A i, k \in DOMAIN s : i < k => s[i] < s[k]
<1>1. n \in Nat
  BY FS_CardinalityType
<1>2. PICK s \in [1..n -> S] : \A i, k \in 1..n : i < k => s[i] < s[k]
  BY InOrder
<1>3. IsAscending(a)
  <2>1. \E t \in [1..n -> S] : \A i, k \in DOMAIN t : i < k => t[i] < t[k]
    BY <1>2
  <2> QED
    BY <2>1
<1>4. Ascending(S) = a
  BY DEF Ascending
<1> HIDE DEF a, n
<1>5. DOMAIN a = 1..n /\ \A i \in 1..n : a[i] \in S
  BY <1>3
<1>6. a \in Seq(S) /\ Len(a) = n
  BY <1>1, <1>3
<1>7. IsSequence(a)
  BY <1>6, SequenceOf
<1>8. ASSUME NEW i \in 1..n, NEW k \in 1..n, i # k PROVE a[i] # a[k]
  <2>1. i < k \/ k < i
    BY <1>1, <1>8
  <2>2. a[i] \in Nat /\ a[k] \in Nat
    BY <1>5
  <2> QED
    BY <1>3, <1>5, <2>1, <2>2
<1> QED
  BY <1>4, <1>5, <1>6, <1>7, <1>8

LEMMA FunctionSequence ==
  ASSUME NEW n \in Nat, NEW f, f = [i \in 1..n |-> f[i]]
  PROVE  IsSequence(f) /\ Len(f) = n
<1>1. f \in [1..n -> Range(f)]
  BY DEF Range
<1>2. f \in Seq(Range(f)) /\ Len(f) = n
  BY <1>1
<1> QED
  BY <1>2 DEF IsSequence

\* The barrels are those of the list, their ids are not above its commit id.
IsIndex(infos) ==
    /\ IsList(infos) /\ infos.commit \in Ids \cup {INVALID_COMMIT}
    /\ Ordered(infos.barrels)
    /\ \A b \in Range(infos.barrels) : b.id <= infos.commit

LEMMA DBTProposalsSound ==
  ASSUME NEW infos, IsIndex(infos)
  PROVE  SoundParts(DBTProposals(infos.barrels), infos)
<1> DEFINE barrels == infos.barrels
           result == ResultTree(barrels)
           levels == {pair[2] : pair \in result}
           firsts == {n \in levels : n - 1 \notin levels}
           lows == Ascending(firsts)
           With(low) == {i \in DOMAIN barrels : \E n \in levels :
                            /\ <<barrels[i].id, n>> \in result
                            /\ low <= n /\ low..n \subseteq levels}
           parts == [i \in DOMAIN lows |-> Collected(Selection(barrels)[With(lows[i])])]
<1>1. /\ Ordered(barrels) /\ IsSequence(barrels) /\ DOMAIN barrels = 1..Len(barrels) /\ Len(barrels) \in Nat
      /\ \A b \in Range(barrels) : b.id <= infos.commit
  BY SequenceShape DEF IsIndex, Ordered
<1>2. /\ result \subseteq Taken(barrels, Len(barrels)) \X (0..DfBits)
      /\ \A p, q \in result : p[1] = q[1] => p = q
  <2> HIDE DEF barrels
  <2> QED
    BY <1>1, ResultTreeSound
<1>3. result \in SUBSET (Int \X Nat)
  <2>1. Taken(barrels, Len(barrels)) \subseteq Int
    <3>1. \A i \in 1..Len(barrels) : barrels[i].id \in Int
      BY <1>1, IdIsNumber DEF Ordered
    <3> HIDE DEF barrels
    <3> QED
      BY <3>1 DEF Taken
  <2>2. 0..DfBits \subseteq Nat
    BY DEF DfBits
  <2> HIDE DEF result, barrels
  <2> QED
    BY <1>2, <2>1, <2>2
<1>4. DBTProposals(barrels) = parts
  <2> HIDE DEF barrels
  <2>1. result \in SUBSET (Int \X Nat)
    BY <1>3
  <2> QED
    BY <2>1 DEF DBTProposals
<1> HIDE DEF barrels, result
<1>5. levels \subseteq 0..DfBits /\ \A p \in result : p = <<p[1], p[2]>> /\ p[1] \in Taken(barrels, Len(barrels))
  BY <1>2
<1>6. IsFiniteSet(firsts) /\ firsts \subseteq Nat
  <2>1. firsts \subseteq 0..DfBits
    BY <1>5
  <2>2. IsFiniteSet(0..DfBits) /\ 0..DfBits \subseteq Nat
    <3>1. 0 \in Int /\ DfBits \in Int /\ 0..DfBits \subseteq Nat
      BY DEF DfBits
    <3> QED
      BY <3>1, FS_Interval
  <2> HIDE DEF firsts
  <2> QED
    BY <2>1, <2>2, FS_Subset
<1>7. /\ IsSequence(lows) /\ \A i \in 1..Len(lows) : lows[i] \in firsts
      /\ \A i, k \in 1..Len(lows) : i # k => lows[i] # lows[k]
  <2> HIDE DEF firsts
  <2> QED
    BY <1>6, AscendingAscends
<1>8. \A low : With(low) \in SUBSET (1..Len(barrels))
  BY <1>1
<1>9. ASSUME NEW low \in firsts PROVE With(low) # {}
  <2>1. low \in levels /\ low \in Int
    BY <1>6
  <2>2. PICK p \in result : p[2] = low
    BY <2>1
  <2>3. PICK i \in 1..Len(barrels) : p[1] = barrels[i].id
    BY <1>5 DEF Taken
  <2>4. <<barrels[i].id, low>> \in result /\ low <= low /\ low..low \subseteq levels
    BY <1>5, <2>1, <2>2, <2>3
  <2>5. i \in With(low)
    BY <1>1, <2>1, <2>4
  <2> QED
    BY <2>5
<1>10. ASSUME NEW low \in firsts, NEW other \in firsts, low < other PROVE With(low) \cap With(other) = {}
  <2> SUFFICES ASSUME NEW i \in With(low), i \in With(other) PROVE FALSE
    OBVIOUS
  <2>1. PICK n \in levels : <<barrels[i].id, n>> \in result /\ low <= n /\ low..n \subseteq levels
    OBVIOUS
  <2>2. PICK m \in levels : <<barrels[i].id, m>> \in result /\ other <= m
    OBVIOUS
  <2>3. n = m
    BY <1>2, <2>1, <2>2
  <2>4. low \in Nat /\ other \in Nat /\ n \in Nat
    BY <1>5, <1>6
  <2>5. other - 1 \in low..n
    BY <1>10, <2>1, <2>2, <2>3, <2>4
  <2>6. other - 1 \in levels
    BY <2>1, <2>5
  <2> QED
    BY <2>6
<1> HIDE DEF firsts, With
<1>11. \A i, k \in 1..Len(lows) : i # k => With(lows[i]) \cap With(lows[k]) = {}
  <2> SUFFICES ASSUME NEW i \in 1..Len(lows), NEW k \in 1..Len(lows), i # k
               PROVE  With(lows[i]) \cap With(lows[k]) = {}
    OBVIOUS
  <2>1. lows[i] \in firsts /\ lows[k] \in firsts /\ lows[i] # lows[k]
    BY <1>7
  <2>2. lows[i] \in Nat /\ lows[k] \in Nat
    BY <1>6, <2>1
  <2>3. lows[i] < lows[k] \/ lows[k] < lows[i]
    BY <2>1, <2>2
  <2> HIDE DEF lows
  <2> QED
    BY <1>10, <2>1, <2>3
<1>12. DOMAIN lows = 1..Len(lows) /\ Len(lows) \in Nat
  BY <1>7, SequenceShape
<1> DEFINE chosen == [i \in 1..Len(lows) |-> Selection(barrels)[With(lows[i])]]
<1>13. ASSUME NEW i \in 1..Len(lows)
       PROVE  /\ Ordered(chosen[i]) /\ chosen[i] # <<>>
              /\ Range(chosen[i]) \subseteq Range(barrels)
  <2>1. With(lows[i]) # {} /\ With(lows[i]) \in SUBSET (1..Len(barrels))
    BY <1>7, <1>8, <1>9
  <2>2. chosen[i] = Selection(barrels)[With(lows[i])]
    OBVIOUS
  <2> HIDE DEF chosen
  <2>3. Ordered(chosen[i]) /\ Range(chosen[i]) = {barrels[k] : k \in With(lows[i])} /\ chosen[i] # <<>>
    BY <1>1, <2>1, <2>2, SelectedBarrels
  <2> QED
    BY <1>1, <2>1, <2>3, SequenceShape
<1>14. ASSUME NEW i \in 1..Len(lows), NEW k \in 1..Len(lows), i # k
       PROVE  Range(chosen[i]) \cap Range(chosen[k]) = {}
  BY <1>1, <1>8, <1>11, <1>14, SelectedApart
<1>15. IsSequence(parts) /\ Len(parts) = Len(lows) /\ \A i \in 1..Len(lows) : parts[i] = Collected(chosen[i])
  <2>1. parts = [i \in 1..Len(lows) |-> Collected(chosen[i])]
    BY <1>12
  <2> HIDE DEF parts, chosen, lows
  <2>2. parts = [i \in 1..Len(lows) |-> parts[i]]
    BY <2>1
  <2> QED
    BY <1>12, <2>1, <2>2, FunctionSequence
<1> HIDE DEF parts, chosen, lows
<1>16. ASSUME NEW i \in 1..Len(parts)
       PROVE  /\ IsList(parts[i]) /\ Ordered(parts[i].barrels) /\ parts[i].barrels # <<>>
              /\ Range(parts[i].barrels) \subseteq Range(barrels)
              /\ parts[i].commit \in Ids /\ parts[i].commit <= infos.commit
              /\ \A b \in Range(parts[i].barrels) : b.id <= parts[i].commit
  <2>1. /\ i \in 1..Len(lows) /\ parts[i] = Collected(chosen[i])
        /\ Ordered(chosen[i]) /\ chosen[i] # <<>> /\ Range(chosen[i]) \subseteq Range(barrels)
    BY <1>13, <1>15
  <2>2. /\ IsList(parts[i]) /\ parts[i].barrels = chosen[i] /\ parts[i].commit \in Ids
        /\ \A b \in Range(chosen[i]) : b.id <= parts[i].commit
        /\ \E b \in Range(chosen[i]) : b.id = parts[i].commit
    BY <2>1, CollectedHasIds
  <2> QED
    BY <1>1, <2>1, <2>2
<1>17. \A i, k \in 1..Len(parts) : i # k => Range(parts[i].barrels) \cap Range(parts[k].barrels) = {}
  <2>1. \A i \in 1..Len(parts) : i \in 1..Len(lows) /\ parts[i].barrels = chosen[i]
    <3> SUFFICES ASSUME NEW i \in 1..Len(parts) PROVE i \in 1..Len(lows) /\ parts[i].barrels = chosen[i]
      OBVIOUS
    <3>1. i \in 1..Len(lows) /\ parts[i] = Collected(chosen[i])
      BY <1>15
    <3> QED
      BY <3>1 DEF Collected
  <2> QED
    BY <1>14, <2>1
<1> QED
  BY <1>4, <1>15, <1>16, <1>17 DEF SoundParts, barrels

-----------------------------------------------------------------------------
(* How the proposals are cut                                               *)

LEMMA TimesGrows ==
  ASSUME NEW a \in Nat, NEW b \in Nat, NEW c \in Nat, a <= b
  PROVE  a * c <= b * c /\ a * c \in Nat /\ b * c \in Nat
OBVIOUS

LEMMA Divided ==
  ASSUME NEW a \in Nat, NEW b \in Nat, b > 0
  PROVE  /\ a \div b \in Nat
         /\ (a \div b) * b <= a /\ a < (a \div b) * b + b
OBVIOUS

\* A chunk has a barrel at least, and the chunks have all the barrels.
LEMMA CeilingCovers ==
  ASSUME NEW a \in Nat, NEW b \in Nat, b > 0
  PROVE  /\ Ceiling(a, b) \in Nat
         /\ Ceiling(a, b) * b < a + b
         /\ a <= Ceiling(a, b) * b
<1> DEFINE c == Ceiling(a, b)
<1>1. a + b - 1 \in Nat /\ c = (a + b - 1) \div b
  BY DEF Ceiling
<1>2. c \in Nat /\ c * b <= a + b - 1 /\ a + b - 1 < c * b + b
  BY <1>1, Divided
<1> HIDE DEF c
<1>3. c * b \in Nat
  BY <1>2, TimesGrows
<1>4. c * b < a + b /\ a <= c * b
  BY <1>2, <1>3
<1> QED
  BY <1>2, <1>4 DEF c

LEMMA ChunkFits ==
  ASSUME NEW count \in Nat, count > 0, NEW most \in Nat, most > 0
  PROVE  LET size == count \div Ceiling(count, most)
         IN /\ Ceiling(count, most) \in Nat /\ Ceiling(count, most) > 0
            /\ size \in 1..most
            /\ Ceiling(count, most) = 1 => count <= most
<1> DEFINE c == Ceiling(count, most)
           size == count \div c
<1>1. c \in Nat /\ c * most < count + most /\ count <= c * most
  BY CeilingCovers
<1> HIDE DEF c
<1>2. c # 0
  <2> SUFFICES ASSUME c = 0 PROVE FALSE
    OBVIOUS
  <2>1. c * most = 0
    BY <1>1
  <2> QED
    BY <1>1, <2>1
<1>3. size \in Nat /\ size * c <= count /\ count < size * c + c
  BY <1>1, <1>2, Divided
<1> HIDE DEF size
<1>4. size # 0
  <2> SUFFICES ASSUME size = 0 PROVE FALSE
    OBVIOUS
  <2>1. size * c = 0
    BY <1>1
  <2>2. count + 1 <= c
    BY <1>1, <1>3, <2>1
  <2>3. (count + 1) * most <= c * most
    BY <1>1, <2>2, TimesGrows
  <2>4. (count + 1) * most = count * most + most
    OBVIOUS
  <2>5. count * 1 <= count * most
    OBVIOUS
  <2>6. c * most \in Nat /\ count * most \in Nat
    BY <1>1, TimesGrows
  <2> QED
    BY <1>1, <2>3, <2>4, <2>5, <2>6
<1>5. size <= most
  <2> SUFFICES ASSUME most + 1 <= size PROVE FALSE
    BY <1>3
  <2>1. (most + 1) * c <= size * c
    BY <1>1, <1>3, TimesGrows
  <2>2. (most + 1) * c = c * most + c
    BY <1>1
  <2>3. c * most \in Nat /\ size * c \in Nat
    BY <1>1, <1>3, TimesGrows
  <2> QED
    BY <1>1, <1>2, <1>3, <2>1, <2>2, <2>3
<1>6. c = 1 => count <= most
  BY <1>1
<1> QED
  BY <1>1, <1>2, <1>3, <1>4, <1>5, <1>6 DEF c, size

LEMMA PartOfBarrels ==
  ASSUME NEW s, Ordered(s), NEW m \in 1..Len(s), NEW n \in m..Len(s)
  PROVE  LET t == SubSeq(s, m, n)
         IN /\ Ordered(t) /\ Len(t) = n - m + 1 /\ t # <<>>
            /\ Range(t) = {s[i] : i \in m..n}
<1> DEFINE t == SubSeq(s, m, n)
           to == [k \in 1..Len(t) |-> m + k - 1]
<1>1. s \in Seq(Range(s)) /\ Len(s) \in Nat /\ m \in Nat /\ n \in Nat
  BY SequenceShape DEF Ordered, IsSequence
<1>2. t \in Seq(Range(s)) /\ Len(t) = n - m + 1 /\ \A k \in 1..(n - m + 1) : t[k] = s[m + k - 1]
  BY <1>1, SubSeqProperties
<1>3. IsSequence(t)
  BY <1>2, SequenceOf
<1> HIDE DEF t
<1>4. to \in [1..Len(t) -> 1..Len(s)]
  BY <1>1, <1>2
<1>5. /\ \A k \in 1..Len(t) : t[k] = s[to[k]]
      /\ \A k, l \in 1..Len(t) : k < l => to[k] < to[l]
  BY <1>1, <1>2
<1> HIDE DEF to
<1>6. Ordered(t)
  BY <1>3, <1>4, <1>5, OrderedSelection
<1>7. Range(t) = {s[i] : i \in m..n}
  <2>1. Range(t) = {t[k] : k \in 1..Len(t)}
    BY <1>3, SequenceShape
  <2>2. \A k \in 1..Len(t) : m + k - 1 \in m..n /\ t[k] = s[m + k - 1]
    BY <1>1, <1>2
  <2>3. \A i \in m..n : i - m + 1 \in 1..Len(t) /\ m + (i - m + 1) - 1 = i
    BY <1>1, <1>2
  <2>4. \A i \in m..n : s[i] = t[i - m + 1]
    BY <2>2, <2>3
  <2>5. \A x \in Range(t) : x \in {s[i] : i \in m..n}
    BY <2>1, <2>2
  <2>6. \A i \in m..n : s[i] \in Range(t)
    BY <2>1, <2>3, <2>4
  <2> QED
    BY <2>5, <2>6
<1>8. t # <<>>
  BY <1>1, <1>2, <1>3, SequenceShape
<1> QED
  BY <1>2, <1>6, <1>7, <1>8 DEF t

\* Parts for which the files may be open
FewParts(parts) == \A i \in 1..Len(parts) : Len(parts[i].barrels) \in 1..MaxAllowedBarrels

LEMMA OneSound ==
  ASSUME NEW p, IsIndex(p), p.barrels # <<>>, NEW infos,
         Range(p.barrels) \subseteq Range(infos.barrels), p.commit <= infos.commit
  PROVE  SoundParts(<<p>>, infos)
<1>1. p.commit \in Ids
  <2>1. Len(p.barrels) \in Nat /\ Len(p.barrels) # 0 /\ Range(p.barrels) = {p.barrels[i] : i \in 1..Len(p.barrels)}
    BY SequenceShape DEF IsIndex, Ordered
  <2>2. 1 \in 1..Len(p.barrels)
    BY <2>1
  <2>3. p.barrels[1].id \in Ids /\ p.barrels[1].id <= p.commit
    BY <2>1, <2>2 DEF IsIndex, Ordered
  <2>4. p.barrels[1].id \in Nat
    BY <2>3, IdIsNumber
  <2>5. p.commit # -1
    BY <2>3, <2>4
  <2> QED
    BY <2>5, IdsAreNumbers DEF IsIndex
<1>2. Len(<<p>>) = 1 /\ <<p>>[1] = p /\ IsSequence(<<p>>)
  <2>1. <<p>> \in Seq({p})
    OBVIOUS
  <2> QED
    BY <2>1, SequenceOf
<1> DEFINE parts == <<p>>
<1>3. Len(parts) = 1 /\ parts[1] = p /\ IsSequence(parts)
  BY <1>2
<1> HIDE DEF parts
<1>4. \A i \in 1..Len(parts) : i = 1 /\ parts[i] = p
  BY <1>3
<1>5. SoundParts(parts, infos)
  BY <1>1, <1>3, <1>4 DEF SoundParts, IsIndex
<1> QED
  BY <1>5 DEF parts

LEMMA CutSound ==
  ASSUME NEW p, IsIndex(p), p.barrels # <<>>
  PROVE  SoundParts(Cut(p), p) /\ FewParts(Cut(p))
<1> DEFINE s == p.barrels
           count == Len(s)
           size == Chunk(p)
           K == Ceiling(count, size)
           Until(i) == IF i * size <= count THEN i * size ELSE count
           Chunked(i) == SubSeq(s, (i - 1) * size + 1, Until(i))
<1>1. count \in Nat /\ count > 0 /\ Ordered(s) /\ p.commit \in Int
      /\ MaxAllowedBarrels \in Nat /\ MaxAllowedBarrels > 0
  <2>1. count \in Nat /\ count # 0 /\ Ordered(s)
    BY SequenceShape DEF IsIndex, Ordered
  <2>2. p.commit \in Int
    BY IdIsNumber, IdsAreNumbers DEF IsIndex
  <2> QED
    BY <2>1, <2>2, SplitAssumption
<1>2. /\ size \in 1..MaxAllowedBarrels
      /\ Ceiling(count, MaxAllowedBarrels) = 1 => count <= MaxAllowedBarrels
  <2> HIDE DEF count
  <2>1. LET c == count \div Ceiling(count, MaxAllowedBarrels)
        IN /\ Ceiling(count, MaxAllowedBarrels) \in Nat /\ Ceiling(count, MaxAllowedBarrels) > 0
           /\ c \in 1..MaxAllowedBarrels
           /\ Ceiling(count, MaxAllowedBarrels) = 1 => count <= MaxAllowedBarrels
    BY <1>1, ChunkFits
  <2> QED
    BY <2>1 DEF Chunk, count
<1>3. CASE Ceiling(count, MaxAllowedBarrels) = 1
  <2>1. Cut(p) = <<p>>
    BY <1>3 DEF Cut
  <2>2. SoundParts(<<p>>, p)
    BY <1>1, OneSound
  <2>3. FewParts(<<p>>)
    BY <1>1, <1>2, <1>3 DEF FewParts
  <2> QED
    BY <2>1, <2>2, <2>3
<1>4. CASE Ceiling(count, MaxAllowedBarrels) # 1
  <2> DEFINE parts == [i \in 1..K |-> Collected(Chunked(i))]
  <2>1. Cut(p) = parts
    BY <1>4 DEF Cut
  <2> HIDE DEF s, size
  <2> HIDE DEF count
  <2>2. K \in Nat /\ K * size < count + size /\ size \in Nat /\ size > 0
    <3>1. size \in Nat /\ size > 0
      BY <1>1, <1>2
    <3> QED
      BY <1>1, <3>1, CeilingCovers
  <2> HIDE DEF K
  <2>3. ASSUME NEW i \in 1..K
        PROVE  /\ (i - 1) * size + 1 \in 1..count
               /\ Until(i) \in ((i - 1) * size + 1)..count
               /\ Until(i) <= i * size /\ i * size \in Nat
               /\ Until(i) - (i - 1) * size \in 1..MaxAllowedBarrels
    <3>1. i \in Nat /\ i - 1 \in Nat /\ i <= K
      BY <2>2
    <3>2. i * size <= K * size /\ i * size \in Nat /\ K * size \in Nat /\ (i - 1) * size \in Nat
      BY <2>2, <3>1, TimesGrows
    <3>3. i * size = (i - 1) * size + size
      BY <2>2, <3>1
    <3> DEFINE x == (i - 1) * size
               y == i * size
    <3>4. x \in Nat /\ y \in Nat /\ y = x + size /\ y < count + size
      BY <1>1, <2>2, <3>2, <3>3
    <3>5. Until(i) = IF y <= count THEN y ELSE count
      OBVIOUS
    <3> HIDE DEF x, y, Until
    <3>6. x + 1 \in 1..count /\ Until(i) \in (x + 1)..count /\ Until(i) <= y
          /\ Until(i) - x \in 1..MaxAllowedBarrels
      BY <1>1, <1>2, <2>2, <3>4, <3>5
    <3> QED
      BY <3>4, <3>6 DEF x, y
  <2> HIDE DEF Until
  <2>4. ASSUME NEW i \in 1..K
        PROVE  /\ Ordered(Chunked(i)) /\ Chunked(i) # <<>>
               /\ Len(Chunked(i)) \in 1..MaxAllowedBarrels
               /\ Range(Chunked(i)) = {s[k] : k \in ((i - 1) * size + 1)..Until(i)}
               /\ Range(Chunked(i)) \subseteq Range(s)
    <3> DEFINE m == (i - 1) * size + 1
    <3>1. m \in 1..Len(s) /\ Until(i) \in m..Len(s) /\ Until(i) - m + 1 \in 1..MaxAllowedBarrels
      <4>1. (i - 1) * size \in Int /\ Until(i) \in Int
        BY <2>2, <2>3
      <4> QED
        BY <2>3, <4>1 DEF count
    <3> HIDE DEF m
    <3>2. LET t == SubSeq(s, m, Until(i))
          IN /\ Ordered(t) /\ Len(t) = Until(i) - m + 1 /\ t # <<>>
             /\ Range(t) = {s[k] : k \in m..Until(i)}
      BY <1>1, <3>1, PartOfBarrels
    <3>3. {s[k] : k \in m..Until(i)} \subseteq Range(s)
      <4>1. Range(s) = {s[k] : k \in 1..Len(s)}
        BY <1>1, SequenceShape DEF Ordered
      <4>2. \A k \in m..Until(i) : k \in 1..Len(s)
        BY <1>1, <3>1 DEF count
      <4> QED
        BY <4>1, <4>2
    <3> QED
      BY <3>1, <3>2, <3>3 DEF m
  <2>5. ASSUME NEW i \in 1..K, NEW j \in 1..K, i < j
        PROVE  Range(Chunked(i)) \cap Range(Chunked(j)) = {}
    <3> DEFINE x == i * size
               y == (j - 1) * size
    <3>1. x <= y /\ x \in Nat /\ y \in Nat /\ Until(i) \in Int /\ Until(i) <= x
      <4>1. i \in Nat /\ j - 1 \in Nat /\ i <= j - 1
        BY <2>2, <2>5
      <4> QED
        BY <2>2, <2>3, <4>1, TimesGrows
    <3>2. \A k \in ((i - 1) * size + 1)..Until(i) : k \in 1..Len(s) /\ k <= x
      <4>1. (i - 1) * size + 1 \in 1..count /\ Until(i) \in Int /\ Until(i) <= count
        BY <2>3
      <4> QED
        BY <1>1, <3>1, <4>1 DEF count
    <3>3. \A k \in (y + 1)..Until(j) : k \in 1..Len(s) /\ y < k
      <4>1. y + 1 \in 1..count /\ Until(j) \in Int /\ Until(j) <= count
        BY <2>3
      <4> HIDE DEF y
      <4> QED
        BY <1>1, <3>1, <4>1 DEF count
    <3>4. Range(Chunked(j)) = {s[k] : k \in (y + 1)..Until(j)}
      BY <2>4
    <3> HIDE DEF x, y
    <3>5. \A k \in ((i - 1) * size + 1)..Until(i), l \in (y + 1)..Until(j) : s[k] # s[l]
      <4> SUFFICES ASSUME NEW k \in ((i - 1) * size + 1)..Until(i), NEW l \in (y + 1)..Until(j)
                   PROVE  s[k] # s[l]
        OBVIOUS
      <4>1. k \in 1..Len(s) /\ l \in 1..Len(s) /\ k # l
        BY <3>1, <3>2, <3>3
      <4>2. s[k].id # s[l].id
        BY <1>1, <4>1, OrderedIsInjective
      <4> QED
        BY <4>2
    <3> HIDE DEF Chunked
    <3> QED
      BY <2>4, <3>4, <3>5
  <2> HIDE DEF Chunked
  <2>6. IsSequence(parts) /\ Len(parts) = K
    <3> HIDE DEF parts
    <3>1. parts = [i \in 1..K |-> parts[i]]
      BY DEF parts
    <3> QED
      BY <2>2, <3>1, FunctionSequence
  <2>7. ASSUME NEW i \in 1..Len(parts)
        PROVE  /\ IsList(parts[i]) /\ Ordered(parts[i].barrels) /\ parts[i].barrels # <<>>
               /\ Range(parts[i].barrels) \subseteq Range(s)
               /\ parts[i].commit \in Ids /\ parts[i].commit <= p.commit
               /\ \A b \in Range(parts[i].barrels) : b.id <= parts[i].commit
               /\ parts[i].barrels = Chunked(i)
    <3>1. i \in 1..K /\ parts[i] = Collected(Chunked(i))
      BY <2>6
    <3>2. /\ IsList(parts[i]) /\ parts[i].barrels = Chunked(i) /\ parts[i].commit \in Ids
          /\ \A b \in Range(Chunked(i)) : b.id <= parts[i].commit
          /\ \E b \in Range(Chunked(i)) : b.id = parts[i].commit
      BY <2>4, <3>1, CollectedHasIds
    <3>3. \A b \in Range(s) : b.id <= p.commit
      BY DEF IsIndex, s
    <3> HIDE DEF parts
    <3> QED
      BY <2>4, <3>1, <3>2, <3>3
  <2> HIDE DEF parts
  <2>8. ASSUME NEW i \in 1..Len(parts), NEW k \in 1..Len(parts), i # k
        PROVE  Range(parts[i].barrels) \cap Range(parts[k].barrels) = {}
    <3>1. i < k \/ k < i
      BY <2>2, <2>6, <2>8
    <3> QED
      BY <2>5, <2>6, <2>7, <3>1
  <2>9. SoundParts(parts, p)
    BY <2>6, <2>7, <2>8 DEF SoundParts, s
  <2>10. FewParts(parts)
    BY <2>4, <2>6, <2>7 DEF FewParts
  <2> QED
    BY <2>1, <2>9, <2>10
<1> QED
  BY <1>3, <1>4

LEMMA SplitSound ==
  ASSUME NEW proposals, NEW infos, SoundParts(proposals, infos), infos.commit \in Int
  PROVE  SoundParts(Split(proposals), infos) /\ FewParts(Split(proposals))
<1> DEFINE n == Len(proposals)
           cuts == [i \in DOMAIN proposals |-> Cut(proposals[i])]
           flat == Split(proposals)
<1>1. n \in Nat /\ DOMAIN proposals = 1..n
  BY SequenceShape DEF SoundParts
<1>2. ASSUME NEW i \in 1..n
      PROVE  /\ cuts[i] = Cut(proposals[i])
             /\ SoundParts(cuts[i], proposals[i]) /\ FewParts(cuts[i]) /\ IsSequence(cuts[i])
             /\ proposals[i].commit \in Int /\ proposals[i].commit <= infos.commit
             /\ Range(proposals[i].barrels) \subseteq Range(infos.barrels)
  <2>1. IsIndex(proposals[i]) /\ proposals[i].barrels # <<>>
    BY DEF SoundParts, IsIndex
  <2>2. cuts[i] = Cut(proposals[i])
    BY <1>1
  <2>3. SoundParts(cuts[i], proposals[i]) /\ FewParts(cuts[i])
    BY <2>1, <2>2, CutSound
  <2> QED
    BY <2>2, <2>3, IdIsNumber DEF SoundParts
<1>3. IsSequence(cuts) /\ Len(cuts) = n
  <2> HIDE DEF n
  <2>1. cuts = [i \in 1..n |-> cuts[i]]
    BY <1>1
  <2> HIDE DEF cuts
  <2> QED
    BY <1>1, <2>1, FunctionSequence
<1> HIDE DEF cuts, n
<1>4. LET f == FlattenSeq(cuts)
      IN /\ IsSequence(f)
         /\ Range(f) = UNION {Range(cuts[i]) : i \in 1..Len(cuts)}
         /\ \E from \in [1..Len(f) -> (1..Len(cuts)) \X Nat] :
               /\ \A k \in 1..Len(f) :
                     /\ from[k][2] \in 1..Len(cuts[from[k][1]])
                     /\ f[k] = cuts[from[k][1]][from[k][2]]
               /\ \A k, l \in 1..Len(f) : k # l => from[k] # from[l]
  BY <1>2, <1>3, FlattenSequence
<1>5. flat = FlattenSeq(cuts)
  BY DEF Split, cuts
<1> HIDE DEF flat
<1>6. PICK from \in [1..Len(flat) -> (1..n) \X Nat] :
         /\ \A k \in 1..Len(flat) :
               /\ from[k][2] \in 1..Len(cuts[from[k][1]])
               /\ flat[k] = cuts[from[k][1]][from[k][2]]
         /\ \A k, l \in 1..Len(flat) : k # l => from[k] # from[l]
  BY <1>3, <1>4, <1>5
<1>7. ASSUME NEW k \in 1..Len(flat)
      PROVE  LET i == from[k][1] IN
             /\ i \in 1..n
             /\ IsList(flat[k]) /\ Ordered(flat[k].barrels) /\ flat[k].barrels # <<>>
             /\ Range(flat[k].barrels) \subseteq Range(proposals[i].barrels)
             /\ Range(flat[k].barrels) \subseteq Range(infos.barrels)
             /\ flat[k].commit \in Ids /\ flat[k].commit <= infos.commit
             /\ \A b \in Range(flat[k].barrels) : b.id <= flat[k].commit
             /\ Len(flat[k].barrels) \in 1..MaxAllowedBarrels
  <2> DEFINE i == from[k][1]
             j == from[k][2]
  <2>1. i \in 1..n /\ j \in 1..Len(cuts[i]) /\ flat[k] = cuts[i][j]
    <3>1. from[k] \in (1..n) \X Nat
      OBVIOUS
    <3> QED
      BY <1>6, <3>1
  <2> HIDE DEF i, j
  <2> DEFINE p == cuts[i][j]
  <2>2. /\ IsList(p) /\ Ordered(p.barrels) /\ p.barrels # <<>>
        /\ Range(p.barrels) \subseteq Range(proposals[i].barrels)
        /\ p.commit \in Ids /\ p.commit <= proposals[i].commit
        /\ \A b \in Range(p.barrels) : b.id <= p.commit
        /\ Len(p.barrels) \in 1..MaxAllowedBarrels
    BY <1>2, <2>1 DEF SoundParts, FewParts
  <2> HIDE DEF p
  <2>3. p.commit \in Int
    BY <2>2, IdIsNumber
  <2>4. proposals[i].commit \in Int /\ proposals[i].commit <= infos.commit
        /\ Range(proposals[i].barrels) \subseteq Range(infos.barrels)
    BY <1>2, <2>1
  <2>5. p.commit <= infos.commit
    BY <2>2, <2>3, <2>4
  <2>6. flat[k] = p
    BY <2>1 DEF p
  <2> QED
    BY <2>1, <2>2, <2>4, <2>5, <2>6 DEF i
<1>8. ASSUME NEW k \in 1..Len(flat), NEW l \in 1..Len(flat), k # l
      PROVE  Range(flat[k].barrels) \cap Range(flat[l].barrels) = {}
  <2> DEFINE i == from[k][1]
             j == from[k][2]
             u == from[l][1]
             v == from[l][2]
  <2>1. /\ from[k] = <<i, j>> /\ from[l] = <<u, v>> /\ from[k] # from[l]
        /\ i \in 1..n /\ u \in 1..n
        /\ j \in 1..Len(cuts[i]) /\ v \in 1..Len(cuts[u])
        /\ flat[k] = cuts[i][j] /\ flat[l] = cuts[u][v]
    <3>1. from[k] \in (1..n) \X Nat /\ from[l] \in (1..n) \X Nat
      OBVIOUS
    <3> QED
      BY SMTT(60), <1>6, <1>8, <3>1
  <2>2. /\ Range(flat[k].barrels) \subseteq Range(proposals[i].barrels)
        /\ Range(flat[l].barrels) \subseteq Range(proposals[u].barrels)
    BY <1>7
  <2> HIDE DEF i, j, u, v
  <2>3. CASE i = u
    <3>1. j # v
      BY <2>1, <2>3
    <3>2. SoundParts(cuts[i], proposals[i]) /\ v \in 1..Len(cuts[i]) /\ flat[l] = cuts[i][v]
      BY <1>2, <2>1, <2>3
    <3>3. Range(cuts[i][j].barrels) \cap Range(cuts[i][v].barrels) = {}
      BY <2>1, <3>1, <3>2 DEF SoundParts
    <3> QED
      BY <2>1, <3>2, <3>3
  <2>4. CASE i # u
    <3>1. Range(proposals[i].barrels) \cap Range(proposals[u].barrels) = {}
      BY <2>1, <2>4 DEF SoundParts, n
    <3> QED
      BY <2>2, <3>1
  <2> QED
    BY <2>3, <2>4
<1>9. IsSequence(flat)
  BY <1>4, <1>5
<1>10. SoundParts(flat, infos)
  BY <1>7, <1>8, <1>9 DEF SoundParts
<1>11. FewParts(flat)
  BY <1>7 DEF FewParts
<1> QED
  BY <1>10, <1>11 DEF flat

\* Whatever the policy proposes, the parts have barrels of the list, each one of them at
\* most, and no part has more than may be open.
LEMMA PartsSound ==
  ASSUME NEW infos, IsIndex(infos), NEW policy \in Policies
  PROVE  LET parts == Parts(infos, Proposals(policy, infos))
         IN SoundParts(parts, infos) /\ FewParts(parts)
<1> DEFINE proposals == Proposals(policy, infos)
           parts == Parts(infos, proposals)
<1> SUFFICES SoundParts(parts, infos) /\ FewParts(parts)
  OBVIOUS
<1>1. infos.commit \in Int /\ Len(infos.barrels) \in Nat
  <2>1. infos.commit \in Ids \/ infos.commit = -1
    BY IdsAreNumbers DEF IsIndex
  <2>2. infos.commit \in Int
    BY <2>1, IdIsNumber
  <2> QED
    BY <2>2, SequenceShape DEF IsIndex, Ordered
<1>2. SoundParts(<<>>, infos) /\ FewParts(<<>>)
  <2>1. 1..Len(<<>>) = {}
    OBVIOUS
  <2> QED
    BY <2>1, EmptySequence DEF SoundParts, FewParts
<1>3. CASE Len(infos.barrels) <= 1
  BY <1>2, <1>3 DEF Parts
<1>4. CASE ~(Len(infos.barrels) <= 1)
  <2>1. parts = Split(proposals)
    BY <1>4 DEF Parts
  <2>2. SoundParts(proposals, infos)
    <3>1. CASE policy = "nomerge"
      BY <1>2, <3>1 DEF Proposals
    <3>2. CASE policy = "optimize"
      <4>1. infos.barrels # <<>>
        BY <1>1, <1>4
      <4>2. SoundParts(<<infos>>, infos)
        BY <1>1, <4>1, OneSound
      <4> QED
        BY <3>2, <4>2 DEF Proposals
    <3>3. CASE policy = "dbt"
      BY <3>3, DBTProposalsSound DEF Proposals
    <3> QED
      BY <3>1, <3>2, <3>3 DEF Policies
  <2> HIDE DEF proposals, parts
  <2> QED
    BY <1>1, <2>1, <2>2, SplitSound
<1> QED
  BY <1>3, <1>4

-----------------------------------------------------------------------------
(* The lists of barrels, on disk and in work                               *)

\* Documents come in sequences.
DocsShape ==
    /\ \A c \in Ids : IsSequence(dirs[c].docs)
    /\ building = [docs |-> building.docs, deleted |-> building.deleted]
    /\ IsSequence(building.docs) /\ building.deleted \subseteq Range(building.docs)
    /\ \A i \in 1..Len(pending) : IsSequence(pending[i].docs) /\ pending[i].barrel.deleted \in Nat
    /\ IsSequence(work.docs)

\* Every list of barrels is sound, and what is left of a proposal is of the list at hand.
ListInv ==
    /\ \A c \in Ids : IsIndex(InfosAt(c))
    /\ IsIndex(work.infos)
    /\ SoundParts(merging.proposals, work.infos) /\ FewParts(merging.proposals)
    /\ pc = "proposal" => merging.proposals # <<>>

LEMMA NewBarrelExtends ==
  ASSUME NEW infos, IsIndex(infos), infos.commit < MaxCommit, NEW count \in Nat, NEW gone \in Nat
  PROVE  LET list == NewBarrel(infos, count, gone)
             new == Last(list.barrels)
         IN /\ IsIndex(list) /\ list.commit = infos.commit + 1 /\ infos.commit + 1 \in Ids
            /\ Len(list.barrels) = Len(infos.barrels) + 1
            /\ \A i \in 1..Len(infos.barrels) : list.barrels[i] = infos.barrels[i]
            /\ list.barrels[Len(infos.barrels) + 1] = new
            /\ new = [id |-> infos.commit + 1, base |-> NextBase(infos), count |-> count, deleted |-> gone]
            /\ NextBase(infos) \in Nat
            /\ Range(list.barrels) = Range(infos.barrels) \cup {new}
<1> DEFINE s == infos.barrels
           n == Len(s)
           new == [id |-> infos.commit + 1, base |-> NextBase(infos), count |-> count, deleted |-> gone]
           t == Append(s, new)
           list == NewBarrel(infos, count, gone)
<1>1. list = [commit |-> infos.commit + 1, barrels |-> t]
  BY DEF NewBarrel
<1>2. Ordered(s) /\ IsSequence(s) /\ n \in Nat /\ (s = <<>> <=> n = 0)
  BY SequenceShape DEF IsIndex, Ordered
<1>3. infos.commit \in Int /\ infos.commit + 1 \in Ids
  BY IdIsNumber, IdsAreNumbers DEF IsIndex, Ids
<1>4. \A i \in 1..n : /\ s[i].id \in Nat /\ s[i].id <= infos.commit
                      /\ s[i].base \in Nat /\ s[i].count \in Nat
  <2>1. \A i \in 1..n : s[i] \in Range(s)
    BY <1>2, SequenceShape
  <2> QED
    BY <1>2, <2>1, IdIsNumber DEF IsIndex, Ordered
<1>5. /\ IsSequence(t) /\ Len(t) = n + 1 /\ Range(t) = Range(s) \cup {new}
      /\ \A i \in 1..n : t[i] = s[i]
      /\ t[n + 1] = new /\ Last(t) = new
  BY <1>2, AppendSequence
<1>6. /\ NextBase(infos) \in Nat
      /\ \A i \in 1..n : s[i].base + s[i].count <= NextBase(infos)
  <2>1. CASE n = 0
    <3>1. NextBase(infos) = 0
      BY <1>2, <2>1 DEF NextBase
    <3> QED
      BY <2>1, <3>1
  <2>2. CASE n # 0
    <3>1. n \in 1..n /\ NextBase(infos) = s[n].base + s[n].count
      BY <1>2, <2>2 DEF NextBase, Last
    <3>2. ASSUME NEW i \in 1..n, i # n PROVE s[i].base + s[i].count <= s[n].base
      <4>1. i < n
        BY <1>2, <3>2
      <4> QED
        BY <1>2, <3>1, <4>1 DEF Ordered
    <3>3. s[n].base \in Nat /\ s[n].count \in Nat
      BY <1>4, <3>1
    <3> HIDE DEF n, s
    <3>4. ASSUME NEW i \in 1..n PROVE s[i].base + s[i].count <= NextBase(infos)
      <4>1. s[i].base \in Nat /\ s[i].count \in Nat
        BY <1>4
      <4> QED
        BY <3>1, <3>2, <3>3, <4>1
    <3> QED
      BY <3>1, <3>3, <3>4
  <2> QED
    BY <2>1, <2>2
<1>7. /\ new.id = infos.commit + 1 /\ new.base = NextBase(infos) /\ new.count = count /\ new.deleted = gone
      /\ new = [id |-> new.id, base |-> new.base, count |-> new.count, deleted |-> new.deleted]
  OBVIOUS
<1> HIDE DEF t, new
<1>8. Ordered(t)
  <2>1. ASSUME NEW i \in 1..Len(t)
        PROVE  /\ t[i] = [id   |-> t[i].id,    base    |-> t[i].base,
                          count |-> t[i].count, deleted |-> t[i].deleted]
               /\ t[i].id \in Ids
               /\ t[i].base \in Nat /\ t[i].count \in Nat /\ t[i].deleted \in Nat
    <3>1. CASE i = n + 1
      BY <1>3, <1>5, <1>6, <1>7, <3>1
    <3>2. CASE i \in 1..n
      BY <1>2, <1>5, <3>2 DEF Ordered
    <3> QED
      BY <1>2, <1>5, <3>1, <3>2
  <2>2. ASSUME NEW i \in 1..Len(t), NEW k \in 1..Len(t), i < k
        PROVE  t[i].id < t[k].id /\ t[i].base + t[i].count <= t[k].base
    <3>1. i \in 1..n
      BY <1>2, <1>5, <2>2
    <3>2. CASE k = n + 1
      BY SMTT(60), <1>3, <1>4, <1>5, <1>6, <1>7, <3>1, <3>2
    <3>3. CASE k \in 1..n
      BY <1>2, <1>5, <2>2, <3>1, <3>3 DEF Ordered
    <3> QED
      BY <1>2, <1>5, <3>2, <3>3
  <2> QED
    BY <1>5, <2>1, <2>2 DEF Ordered
<1> HIDE DEF list
<1>9. IsIndex(list)
  <2>1. \A b \in Range(t) : b.id <= infos.commit + 1
    <3>1. \A b \in Range(s) : b.id <= infos.commit /\ b.id \in Int
      BY <1>2, <1>4, SequenceShape
    <3> QED
      BY <1>3, <1>5, <1>7, <3>1
  <2>2. IsList(list)
    BY <1>1, <1>5 DEF IsList
  <2> QED
    BY <1>1, <1>3, <1>8, <2>1, <2>2 DEF IsIndex
<1> QED
  BY <1>1, <1>3, <1>5, <1>6, <1>9 DEF list, new

\* What is left of a list is a list.
LEMMA RestIsIndex ==
  ASSUME NEW infos, IsIndex(infos), NEW proposal
  PROVE  LET rest == WithoutBarrels(infos, proposal)
         IN /\ IsIndex(rest) /\ rest.commit = infos.commit
            /\ Range(rest.barrels) = Range(infos.barrels) \ Range(proposal.barrels)
<1> DEFINE rest == WithoutBarrels(infos, proposal)
<1>1. /\ IsList(rest) /\ rest.commit = infos.commit
      /\ Range(rest.barrels) = Range(infos.barrels) \ Range(proposal.barrels)
      /\ \E from \in [1..Len(rest.barrels) -> 1..Len(infos.barrels)] :
            /\ \A k \in 1..Len(rest.barrels) : rest.barrels[k] = infos.barrels[from[k]]
            /\ \A k, l \in 1..Len(rest.barrels) : k < l => from[k] < from[l]
  BY WithoutBarrelsKeeps DEF IsIndex
<1> HIDE DEF rest
<1>2. IsSequence(rest.barrels) /\ Ordered(infos.barrels)
  BY <1>1 DEF IsList, IsIndex
<1>3. Ordered(rest.barrels)
  BY <1>1, <1>2, OrderedSelection
<1>4. IsIndex(rest)
  BY <1>1, <1>3 DEF IsIndex
<1> QED
  BY <1>1, <1>4 DEF rest

\* Without a barrel's deleted documents, and those of all the barrels of a proposal
LEMMA WithoutIsSequence ==
  ASSUME NEW b, IsSequence(dirs[b].docs), NEW gone
  PROVE  /\ IsSequence(Without(b, gone))
         /\ Range(Without(b, gone)) = {dirs[b].docs[i] : i \in {i \in DOMAIN dirs[b].docs : i - 1 \notin gone}}
         /\ \E to \in [1..Len(Without(b, gone)) -> {i \in 1..Len(dirs[b].docs) : i - 1 \notin gone}] :
               /\ \A k \in 1..Len(Without(b, gone)) : Without(b, gone)[k] = dirs[b].docs[to[k]]
               /\ \A k, l \in 1..Len(Without(b, gone)) : k < l => to[k] < to[l]
<1> DEFINE s == dirs[b].docs
           P == {i \in 1..Len(s) : i - 1 \notin gone}
<1>1. IsSequence(s) /\ DOMAIN s = 1..Len(s) /\ P \in SUBSET (1..Len(s))
  BY SequenceShape
<1>2. Without(b, gone) = Selection(s)[P] /\ P = {i \in DOMAIN s : i - 1 \notin gone}
  BY <1>1 DEF Without
<1> HIDE DEF s
<1> HIDE DEF P
<1> DEFINE u == Selection(s)[P]
           w == Without(b, gone)
<1>3. LET v == Selection(s)[P]
      IN /\ IsSequence(v)
         /\ Range(v) = {s[i] : i \in P}
         /\ \E from \in [1..Len(v) -> P] :
               /\ \A k \in 1..Len(v) : v[k] = s[from[k]]
               /\ \A k, l \in 1..Len(v) : k < l => from[k] < from[l]
  BY <1>1, SelectionKeeps
<1>4. /\ IsSequence(u)
      /\ Range(u) = {s[i] : i \in P}
      /\ \E from \in [1..Len(u) -> P] :
            /\ \A k \in 1..Len(u) : u[k] = s[from[k]]
            /\ \A k, l \in 1..Len(u) : k < l => from[k] < from[l]
  BY <1>3
<1>5. w = u
  BY <1>2
<1> HIDE DEF u, w
<1>6. {s[i] : i \in P} = {s[i] : i \in {i \in DOMAIN s : i - 1 \notin gone}}
  BY <1>2
<1>7. /\ IsSequence(w)
      /\ Range(w) = {s[i] : i \in {i \in DOMAIN s : i - 1 \notin gone}}
      /\ \E from \in [1..Len(w) -> P] :
            /\ \A k \in 1..Len(w) : w[k] = s[from[k]]
            /\ \A k, l \in 1..Len(w) : k < l => from[k] < from[l]
  BY <1>4, <1>5, <1>6
<1> QED
  BY <1>7 DEF w, s, P

\* What of its barrel's documents a proposal is made of
PieceOf(proposal, b) == Without(b.id, LatestFilter(b.id, b.id, proposal.commit))

LEMMA MergedDocsAre ==
  ASSUME NEW proposal, IsSequence(proposal.barrels),
         \A i \in 1..Len(proposal.barrels) : IsSequence(dirs[proposal.barrels[i].id].docs)
  PROVE  LET docs == MergedDocs(proposal)
             n == Len(proposal.barrels)
         IN /\ IsSequence(docs)
            /\ Range(docs) = UNION {Range(PieceOf(proposal, proposal.barrels[i])) : i \in 1..n}
            /\ \E from \in [1..Len(docs) -> (1..n) \X Nat] :
                  /\ \A k \in 1..Len(docs) :
                        /\ from[k][2] \in 1..Len(PieceOf(proposal, proposal.barrels[from[k][1]]))
                        /\ docs[k] = PieceOf(proposal, proposal.barrels[from[k][1]])[from[k][2]]
                  /\ \A k, l \in 1..Len(docs) : k # l => from[k] # from[l]
<1> DEFINE n == Len(proposal.barrels)
           pieces == [i \in DOMAIN proposal.barrels |->
                        LET b == proposal.barrels[i] IN Without(b.id, LatestFilter(b.id, b.id, proposal.commit))]
           docs == MergedDocs(proposal)
<1>1. n \in Nat /\ DOMAIN proposal.barrels = 1..n
  BY SequenceShape
<1>2. ASSUME NEW i \in 1..n PROVE pieces[i] = PieceOf(proposal, proposal.barrels[i]) /\ IsSequence(pieces[i])
  <2>1. pieces[i] = PieceOf(proposal, proposal.barrels[i])
    BY <1>1 DEF PieceOf
  <2> HIDE DEF pieces
  <2> QED
    BY <2>1, WithoutIsSequence DEF PieceOf
<1>3. IsSequence(pieces) /\ Len(pieces) = n
  <2>1. pieces = [i \in 1..n |-> pieces[i]]
    BY <1>1
  <2> HIDE DEF pieces, n
  <2> QED
    BY <1>1, <2>1, FunctionSequence
<1>4. docs = FlattenSeq(pieces)
  BY DEF MergedDocs
<1> HIDE DEF pieces, docs, n
<1>5. LET f == FlattenSeq(pieces)
      IN /\ IsSequence(f)
         /\ Range(f) = UNION {Range(pieces[i]) : i \in 1..Len(pieces)}
         /\ \E from \in [1..Len(f) -> (1..Len(pieces)) \X Nat] :
               /\ \A k \in 1..Len(f) :
                     /\ from[k][2] \in 1..Len(pieces[from[k][1]])
                     /\ f[k] = pieces[from[k][1]][from[k][2]]
               /\ \A k, l \in 1..Len(f) : k # l => from[k] # from[l]
  <2>1. IsSequence(pieces) /\ \A i \in 1..Len(pieces) : IsSequence(pieces[i])
    BY <1>2, <1>3
  <2> QED
    BY <2>1, FlattenSequence
<1>6. /\ IsSequence(docs)
      /\ Range(docs) = UNION {Range(pieces[i]) : i \in 1..n}
      /\ \E from \in [1..Len(docs) -> (1..n) \X Nat] :
            /\ \A k \in 1..Len(docs) :
                  /\ from[k][2] \in 1..Len(pieces[from[k][1]])
                  /\ docs[k] = pieces[from[k][1]][from[k][2]]
            /\ \A k, l \in 1..Len(docs) : k # l => from[k] # from[l]
  BY <1>3, <1>4, <1>5
<1>7. Range(docs) = UNION {Range(PieceOf(proposal, proposal.barrels[i])) : i \in 1..n}
  BY <1>2, <1>6
<1>8. PICK from \in [1..Len(docs) -> (1..n) \X Nat] :
         /\ \A k \in 1..Len(docs) :
               /\ from[k][2] \in 1..Len(pieces[from[k][1]])
               /\ docs[k] = pieces[from[k][1]][from[k][2]]
         /\ \A k, l \in 1..Len(docs) : k # l => from[k] # from[l]
  BY <1>6
<1>9. ASSUME NEW k \in 1..Len(docs)
      PROVE  /\ from[k][2] \in 1..Len(PieceOf(proposal, proposal.barrels[from[k][1]]))
             /\ docs[k] = PieceOf(proposal, proposal.barrels[from[k][1]])[from[k][2]]
  <2>1. from[k] \in (1..n) \X Nat
    OBVIOUS
  <2>2. from[k][1] \in 1..n
    BY <2>1
  <2> QED
    BY <1>2, <1>8, <2>2
<1> QED
  BY <1>6, <1>7, <1>8, <1>9 DEF docs, n

\* Sealing makes of the building barrel a batch.
LEMMA SealDocs ==
  ASSUME DocsShape, MemoryShape, SealDocuments \/ SealDeletions
  PROVE  /\ Len(pending') = Len(pending) + 1
         /\ \A i \in 1..Len(pending) : pending'[i] = pending[i]
         /\ pending'[Len(pending) + 1].docs = building.docs
         /\ IsSequence(building.docs)
         /\ pending'[Len(pending) + 1].barrel.deleted \in Nat
<1>1. Cardinality(building.deleted) \in Nat
  <2>1. IsFiniteSet(Range(building.docs))
    <3>1. building.docs \in Seq(Range(building.docs))
      BY DEF DocsShape, IsSequence
    <3> QED
      BY <3>1, RangeIsFinite DEF IsSequence
  <2> QED
    BY <2>1, FS_Subset, FS_CardinalityType DEF DocsShape
<1>2. \E f, count, gone : /\ pending' = Append(pending, Sealed(NewBarrel(keeper, count, gone), building.docs, f))
                          /\ gone \in Nat
  BY <1>1 DEF SealDocuments, SealDeletions
<1>3. PICK f, count, gone : /\ pending' = Append(pending, Sealed(NewBarrel(keeper, count, gone), building.docs, f))
                            /\ gone \in Nat
  BY <1>2
<1> DEFINE p == Sealed(NewBarrel(keeper, count, gone), building.docs, f)
<1>4. p.docs = building.docs /\ p.barrel.deleted = gone
  <2> DEFINE e == [id |-> keeper.commit + 1, base |-> NextBase(keeper), count |-> count, deleted |-> gone]
  <2>1. NewBarrel(keeper, count, gone).barrels = Append(keeper.barrels, e) /\ e.deleted = gone
    BY DEF NewBarrel
  <2> HIDE DEF e
  <2>2. Last(NewBarrel(keeper, count, gone).barrels) = e
    BY <2>1, AppendSequence DEF MemoryShape, IsList
  <2> QED
    BY <2>1, <2>2 DEF Sealed
<1> HIDE DEF p
<1> QED
  BY <1>3, <1>4, AppendSequence DEF DocsShape, MemoryShape, p

LEMMA NoList ==
  /\ IsIndex(NoBarrels) /\ NoWork.infos = NoBarrels /\ NoWork.docs = <<>>
  /\ \A infos : SoundParts(<<>>, infos)
  /\ FewParts(<<>>)
<1>1. 1..Len(<<>>) = {} /\ IsSequence(<<>>) /\ Range(<<>>) = {}
  BY EmptySequence
<1>2. IsIndex(NoBarrels)
  BY <1>1 DEF IsIndex, NoBarrels, IsList, Ordered
<1> QED
  BY <1>1, <1>2 DEF SoundParts, FewParts, NoWork

LEMMA ListsStay ==
  ASSUME ListInv,
         \A c \in Ids : commits'[c].barrels = commits[c].barrels \/ commits'[c].barrels = <<>>,
         work'.infos = work.infos,
         merging'.proposals = merging.proposals \/ merging'.proposals = <<>>,
         pc' = "proposal" => pc = "proposal" /\ UNCHANGED merging
  PROVE  ListInv'
<1>1. ASSUME NEW c \in Ids PROVE IsIndex(InfosAt(c)')
  <2>1. CASE commits'[c].barrels = commits[c].barrels
    <3>1. InfosAt(c)' = InfosAt(c)
      BY <2>1 DEF InfosAt
    <3> QED
      BY <3>1 DEF ListInv
  <2>2. CASE commits'[c].barrels = <<>>
    <3>1. InfosAt(c)' = [commit |-> c, barrels |-> <<>>]
      BY <2>2, IdsAreNumbers DEF InfosAt
    <3>2. 1..Len(<<>>) = {} /\ IsSequence(<<>>) /\ Range(<<>>) = {}
      BY EmptySequence
    <3> QED
      BY <3>1, <3>2 DEF IsIndex, IsList, Ordered
  <2> QED
    BY <2>1, <2>2
<1>2. IsIndex(work'.infos)
  BY DEF ListInv
<1>3. SoundParts(merging'.proposals, work'.infos) /\ FewParts(merging'.proposals)
  BY NoList DEF ListInv
<1> QED
  BY <1>1, <1>2, <1>3 DEF ListInv

LEMMA DocsStay ==
  ASSUME DocsShape,
         \A c \in Ids : dirs'[c].docs \in {dirs[c].docs, work.docs, <<>>},
         building' = building \/ building' = NoBuilding,
         pending' = pending \/ pending' = <<>>,
         work'.docs = work.docs \/ work'.docs = <<>>
  PROVE  DocsShape'
<1>1. IsSequence(<<>>) /\ Range(<<>>) = {} /\ 1..Len(<<>>) = {}
  BY EmptySequence
<1>2. \A c \in Ids : IsSequence(dirs'[c].docs)
  BY <1>1 DEF DocsShape
<1>3. /\ building' = [docs |-> building'.docs, deleted |-> building'.deleted]
      /\ IsSequence(building'.docs) /\ building'.deleted \subseteq Range(building'.docs)
  BY <1>1 DEF DocsShape, NoBuilding
<1>4. \A i \in 1..Len(pending') : IsSequence(pending'[i].docs) /\ pending'[i].barrel.deleted \in Nat
  BY <1>1 DEF DocsShape
<1>5. IsSequence(work'.docs)
  BY <1>1 DEF DocsShape
<1> QED
  BY <1>2, <1>3, <1>4, <1>5 DEF DocsShape

LEMMA ClientKeepsLists ==
  ASSUME DiskInv, DocsShape, ListInv,
         \/ Open \/ Add \/ Seal \/ Close \/ AnyMerge
         \/ \E d \in Documents : DeleteOnDisk(d) \/ DeleteInMemory(d)
  PROVE  DocsShape' /\ ListInv'
<1>1. UNCHANGED <<disk, work>>
  BY DEF Open, Add, Seal, Close, AnyMerge, MergeWith, DeleteOnDisk, DeleteInMemory, thread
<1>2. UNCHANGED <<commits, dirs>>
  BY <1>1 DEF disk
<1>3. \/ merging' = merging /\ pc' = pc
      \/ merging'.proposals = <<>> /\ pc' = "merge"
  <2>1. CASE AnyMerge
    BY <2>1 DEF AnyMerge, MergeWith, NotMerging
  <2>2. CASE \/ Open \/ Add \/ Seal \/ Close
             \/ \E d \in Documents : DeleteOnDisk(d) \/ DeleteInMemory(d)
    BY <2>2 DEF Open, Add, Seal, Close, DeleteOnDisk, DeleteInMemory, thread
  <2> QED
    BY <2>1, <2>2
<1>4. ListInv'
  BY <1>1, <1>2, <1>3, ListsStay
<1>5. CASE Open \/ AnyMerge \/ \E d \in Documents : DeleteOnDisk(d)
  <2>1. UNCHANGED <<building, pending>>
    BY <1>5 DEF Open, AnyMerge, MergeWith, DeleteOnDisk
  <2> QED
    BY <1>1, <1>2, <1>4, <2>1, DocsStay
<1>6. CASE Add \/ \E d \in Documents : DeleteInMemory(d)
  <2>1. pending' = pending
    BY <1>6 DEF Add, DeleteInMemory
  <2>2. \/ building' = [docs |-> Append(building.docs, handedIn + 1), deleted |-> building.deleted]
        \/ \E d \in Range(building.docs) :
              building' = [docs |-> building.docs, deleted |-> building.deleted \cup {d}]
    BY <1>6 DEF Add, DeleteInMemory, DocsShape
  <2>3. /\ IsSequence(Append(building.docs, handedIn + 1))
        /\ Range(building.docs) \subseteq Range(Append(building.docs, handedIn + 1))
    BY AppendSequence DEF DocsShape
  <2>4. /\ building' = [docs |-> building'.docs, deleted |-> building'.deleted]
        /\ IsSequence(building'.docs) /\ building'.deleted \subseteq Range(building'.docs)
    <3>1. CASE building' = [docs |-> Append(building.docs, handedIn + 1), deleted |-> building.deleted]
      BY <2>3, <3>1 DEF DocsShape
    <3>2. CASE \E d \in Range(building.docs) :
                  building' = [docs |-> building.docs, deleted |-> building.deleted \cup {d}]
      BY <3>2 DEF DocsShape
    <3> QED
      BY <2>2, <3>1, <3>2
  <2>5. DocsShape'
    BY <1>1, <1>2, <2>1, <2>4 DEF DocsShape
  <2> QED
    BY <1>4, <2>5
<1>7. CASE Seal \/ Close
  <2>1. building' = NoBuilding
    BY <1>7 DEF Seal, Close
  <2>2. pending' = pending \/ SealDocuments \/ SealDeletions
    BY <1>7 DEF Seal, Close
  <2>3. CASE pending' = pending
    BY <1>1, <1>2, <1>4, <2>1, <2>3, DocsStay
  <2>4. CASE SealDocuments \/ SealDeletions
    <3>1. /\ Len(pending') = Len(pending) + 1
          /\ \A i \in 1..Len(pending) : pending'[i] = pending[i]
          /\ pending'[Len(pending) + 1].docs = building.docs
          /\ IsSequence(building.docs)
          /\ pending'[Len(pending) + 1].barrel.deleted \in Nat
      BY <2>4, SealDocs DEF DiskInv
    <3>2. Len(pending) \in Nat
      BY SequenceShape DEF DiskInv, MemoryShape
    <3>3. \A i \in 1..Len(pending') : IsSequence(pending'[i].docs) /\ pending'[i].barrel.deleted \in Nat
      BY <3>1, <3>2 DEF DocsShape
    <3>4. IsSequence(<<>>) /\ Range(<<>>) = {}
      BY EmptySequence
    <3>5. DocsShape'
      BY <1>1, <1>2, <2>1, <3>3, <3>4 DEF DocsShape, NoBuilding
    <3> QED
      BY <1>4, <3>5
  <2> QED
    BY <2>2, <2>3, <2>4
<1> QED
  BY <1>5, <1>6, <1>7

LEMMA EndKeepsLists ==
  ASSUME DiskInv, DocsShape, ListInv, Crash \/ MergeAborts \/ Reserve \/ Cleaned
  PROVE  DocsShape' /\ ListInv'
<1>1. UNCHANGED <<commits, dirs>> /\ (work' = work \/ work' = NoWork)
  BY DEF Crash, MergeAborts, Reserve, Cleaned, disk
<1>2. /\ pc' # "proposal"
      /\ UNCHANGED <<building, pending, merging>> \/ Forgotten
  BY DEF Crash, MergeAborts, Reserve, Cleaned, memory
<1>3. /\ building' = building \/ building' = NoBuilding
      /\ pending' = pending \/ pending' = <<>>
      /\ merging' = merging \/ merging'.proposals = <<>>
  BY <1>2 DEF Forgotten, NotMerging
<1>4. DocsShape'
  BY <1>1, <1>3, DocsStay, NoList
<1>5. CASE work' = work
  BY <1>1, <1>2, <1>3, <1>4, <1>5, ListsStay
<1>6. CASE work' = NoWork
  <2>1. Crash \/ work' = work
    BY DEF Crash, MergeAborts, Reserve, Cleaned
  <2>2. CASE Crash
    <3>1. merging'.proposals = <<>>
      BY <2>2 DEF Crash, Forgotten, NotMerging
    <3>2. \A c \in Ids : InfosAt(c)' = InfosAt(c)
      BY <1>1 DEF InfosAt
    <3>3. work'.infos = NoBarrels
      BY <1>6, NoList
    <3>4. SoundParts(merging'.proposals, work'.infos) /\ FewParts(merging'.proposals)
      BY <3>1, NoList
    <3>5. ListInv'
      BY <1>2, <3>2, <3>3, <3>4, NoList DEF ListInv
    <3> QED
      BY <1>4, <3>5
  <2> QED
    BY <1>5, <2>1, <2>2
<1> QED
  BY <1>1, <1>5, <1>6

LEMMA FilesKeepLists ==
  ASSUME DiskInv, DocsShape, ListInv,
         \/ WriteData \/ WriteDeletions \/ WriteRest
         \/ CreateCommitFile \/ DropCommit \/ RemoveDir
  PROVE  DocsShape' /\ ListInv'
<1>1. UNCHANGED <<memory, work>> /\ pc' # "proposal"
  BY DEF WriteData, WriteDeletions, WriteRest, CreateCommitFile, DropCommit, RemoveDir
<1>2. UNCHANGED <<building, pending, merging>>
  BY <1>1 DEF memory
<1>3. \A c \in Ids : dirs'[c].docs \in {dirs[c].docs, work.docs, <<>>}
  <2>1. CASE WriteData \/ WriteDeletions \/ WriteRest
    <3>1. /\ \A d \in Ids : d # New => dirs'[d] = dirs[d]
          /\ dirs'[New].docs = work.docs
      BY <2>1, FillingFills
    <3> QED
      BY <3>1
  <2>2. CASE CreateCommitFile \/ DropCommit
    BY <2>2 DEF CreateCommitFile, DropCommit
  <2>3. CASE RemoveDir
    BY <2>3 DEF RemoveDir, NoDir, DiskInv, DiskShape
  <2> QED
    BY <2>1, <2>2, <2>3
<1>4. \A c \in Ids : commits'[c].barrels = commits[c].barrels \/ commits'[c].barrels = <<>>
  BY DEF WriteData, WriteDeletions, WriteRest, CreateCommitFile, DropCommit, RemoveDir, NoFile,
         DiskInv, DiskShape
<1> QED
  BY <1>1, <1>2, <1>3, <1>4, ListsStay, DocsStay

LEMMA WriteCommitKeepsLists ==
  ASSUME DiskInv, DocsShape, ListInv, WriteCommitFile
  PROVE  DocsShape' /\ ListInv'
<1>1. /\ UNCHANGED <<dirs, memory>>
      /\ commits' = [commits EXCEPT ![New] = [state |-> "whole", barrels |-> work.infos.barrels]]
      /\ \/ work' = NoWork /\ merging.proposals = <<>> /\ pc' # "proposal"
         \/ work'.infos = work.infos /\ work'.docs = <<>> /\ merging.proposals # <<>>
  BY DEF WriteCommitFile, NoWork
<1>2. UNCHANGED <<building, pending, merging>>
  BY <1>1 DEF memory
<1>3. /\ work'.docs = <<>>
      /\ \/ work'.infos = work.infos
         \/ work'.infos = NoBarrels /\ merging.proposals = <<>>
  <2>1. CASE work' = NoWork /\ merging.proposals = <<>>
    BY <2>1, NoList
  <2>2. CASE work'.infos = work.infos /\ work'.docs = <<>>
    BY <2>2
  <2> QED
    BY <1>1, <2>1, <2>2
<1>4. DocsShape'
  BY <1>1, <1>2, <1>3, DocsStay
<1>5. ASSUME NEW c \in Ids PROVE IsIndex(InfosAt(c)')
  <2>1. CASE c = New
    <3>1. InfosAt(c)' = [commit |-> New, barrels |-> work.infos.barrels]
      BY <1>1, <2>1, IdsAreNumbers DEF InfosAt, DiskInv, DiskShape
    <3>2. InfosAt(c)' = work.infos
      BY <3>1 DEF New, ListInv, IsIndex, IsList
    <3> QED
      BY <3>2 DEF ListInv
  <2>2. CASE c # New
    <3>1. InfosAt(c)' = InfosAt(c)
      BY <1>1, <2>2 DEF InfosAt, DiskInv, DiskShape
    <3> QED
      BY <3>1 DEF ListInv
  <2> QED
    BY <2>1, <2>2
<1>6. /\ IsIndex(work'.infos)
      /\ SoundParts(merging'.proposals, work'.infos) /\ FewParts(merging'.proposals)
      /\ pc' = "proposal" => merging'.proposals # <<>>
  BY <1>1, <1>2, <1>3, NoList DEF ListInv
<1> QED
  BY <1>4, <1>5, <1>6 DEF ListInv

LEMMA TakeBatchKeepsLists ==
  ASSUME DiskInv, DocsShape, ListInv, TakeBatch
  PROVE  DocsShape' /\ ListInv'
<1>1. PICK c \in Ids \cup {INVALID_COMMIT} :
         /\ IsLast(c) /\ Readable(c) /\ c < MaxCommit
         /\ work' = [infos |-> NewBarrel(InfosAt(c), Head(pending).barrel.count,
                                         Head(pending).barrel.deleted),
                     docs  |-> Head(pending).docs,
                     dirty |-> Head(pending).dirty,
                     last  |-> Head(pending).last]
         /\ dirs' = [dirs EXCEPT ![c + 1] = [NoDir EXCEPT !.state = "filling"]]
  BY DEF TakeBatch
<1>2. /\ pending # <<>> /\ pending' = Tail(pending) /\ pc' = "data"
      /\ UNCHANGED <<commits, building, merging>>
  BY DEF TakeBatch
<1>3. /\ IsSequence(pending) /\ merging = NotMerging
      /\ Len(pending) \in Nat
  BY <1>2, SequenceShape DEF DiskInv, Phases, MemoryShape
<1>4. /\ Len(pending') = Len(pending) - 1
      /\ \A i \in 1..(Len(pending) - 1) : pending'[i] = pending[i + 1]
      /\ Head(pending) = pending[1] /\ 1 \in DOMAIN pending /\ 1 \in 1..Len(pending)
  BY <1>2, <1>3, TailSequence, SequenceShape
<1>5. /\ IsSequence(Head(pending).docs) /\ Head(pending).barrel.deleted \in Nat
      /\ Head(pending).barrel.count \in Nat
  BY <1>4, SequenceShape DEF DocsShape, DiskInv, MemoryShape
<1>6. IsIndex(InfosAt(c)) /\ InfosAt(c).commit = c
  BY NoList DEF ListInv, InfosAt, NoBarrels
<1>7. IsIndex(work'.infos)
  <2> DEFINE list == NewBarrel(InfosAt(c), Head(pending).barrel.count, Head(pending).barrel.deleted)
  <2>1. IsIndex(list)
    BY <1>1, <1>5, <1>6, NewBarrelExtends
  <2> HIDE DEF list
  <2>2. work'.infos = list
    BY <1>1 DEF list
  <2> QED
    BY <2>1, <2>2
<1>8. /\ \A d \in Ids : dirs'[d].docs = dirs[d].docs \/ dirs'[d].docs = <<>>
      /\ work'.docs = Head(pending).docs
  BY <1>1 DEF DiskInv, DiskShape, NoDir
<1>9. \A d \in Ids : IsSequence(dirs'[d].docs)
  BY <1>8, EmptySequence DEF DocsShape
<1>10. \A i \in 1..Len(pending') : IsSequence(pending'[i].docs) /\ pending'[i].barrel.deleted \in Nat
  <2>1. \A i \in 1..(Len(pending) - 1) : i + 1 \in 1..Len(pending)
    BY <1>3
  <2> QED
    BY <1>4, <2>1 DEF DocsShape
<1>11. DocsShape'
  BY <1>2, <1>5, <1>8, <1>9, <1>10 DEF DocsShape
<1>12. \A d \in Ids : InfosAt(d)' = InfosAt(d)
  BY <1>2 DEF InfosAt
<1>13. SoundParts(merging'.proposals, work'.infos) /\ FewParts(merging'.proposals) /\ pc' # "proposal"
  BY <1>2, <1>3, NoList DEF NotMerging
<1> QED
  BY <1>7, <1>11, <1>12, <1>13 DEF ListInv

LEMMA MergeKeepsLists ==
  ASSUME DiskInv, DocsShape, ListInv, Merge
  PROVE  DocsShape' /\ ListInv'
<1>1. PICK c \in Ids \cup {INVALID_COMMIT} :
         LET parts == Parts(InfosAt(c), Proposals(merging.policy, InfosAt(c)))
         IN /\ pc' = IF parts = <<>> THEN "clean" ELSE "proposal"
            /\ work' = IF parts = <<>> THEN NoWork ELSE [NoWork EXCEPT !.infos = InfosAt(c)]
            /\ merging' = [merging EXCEPT !.proposals = parts]
  BY DEF Merge
<1> DEFINE parts == Parts(InfosAt(c), Proposals(merging.policy, InfosAt(c)))
<1>2. /\ pc' = IF parts = <<>> THEN "clean" ELSE "proposal"
      /\ work' = IF parts = <<>> THEN NoWork ELSE [NoWork EXCEPT !.infos = InfosAt(c)]
      /\ merging' = [merging EXCEPT !.proposals = parts]
  BY <1>1
<1>3. IsIndex(InfosAt(c))
  BY NoList DEF ListInv, InfosAt
<1>4. merging.policy \in Policies
  BY DEF Merge, DiskInv, Phases
<1>5. SoundParts(parts, InfosAt(c)) /\ FewParts(parts)
  BY <1>3, <1>4, PartsSound
<1> HIDE DEF parts
<1>6. merging'.proposals = parts
  BY <1>2 DEF DiskInv, MemoryShape
<1>7. \/ parts = <<>> /\ work' = NoWork /\ pc' # "proposal"
      \/ parts # <<>> /\ work'.infos = InfosAt(c) /\ work'.docs = <<>>
  BY <1>2, NoList DEF NoWork
<1>8. UNCHANGED <<commits, dirs, building, pending>>
  BY DEF Merge, disk
<1>9. work'.docs = <<>>
  BY <1>7, NoList
<1>10. DocsShape'
  BY <1>8, <1>9, DocsStay
<1>11. \A d \in Ids : InfosAt(d)' = InfosAt(d)
  BY <1>8 DEF InfosAt
<1>12. /\ IsIndex(work'.infos)
       /\ SoundParts(merging'.proposals, work'.infos) /\ FewParts(merging'.proposals)
       /\ pc' = "proposal" => merging'.proposals # <<>>
  BY <1>3, <1>5, <1>6, <1>7, NoList
<1> QED
  BY <1>10, <1>11, <1>12 DEF ListInv

LEMMA MergeProposalKeepsLists ==
  ASSUME DiskInv, DocsShape, ListInv, MergeProposal
  PROVE  DocsShape' /\ ListInv'
<1> DEFINE parts == merging.proposals
           proposal == Head(parts)
           docs == MergedDocs(proposal)
           rest == WithoutBarrels(work.infos, proposal)
           list == NewBarrel(rest, Len(docs), 0)
<1>1. /\ work' = [work EXCEPT !.infos = list, !.docs = docs]
      /\ merging' = [merging EXCEPT !.proposals = Tail(@)]
      /\ dirs' = [dirs EXCEPT ![New + 1] = [NoDir EXCEPT !.state = "filling"]]
      /\ UNCHANGED <<commits, building, pending>>
      /\ pc = "proposal" /\ pc' = "data" /\ New < MaxCommit
  BY DEF MergeProposal
<1>2. SoundParts(parts, work.infos) /\ FewParts(parts) /\ parts # <<>> /\ IsSequence(parts)
  BY <1>1 DEF ListInv, SoundParts
<1>3. /\ work'.infos = list /\ work'.docs = docs
      /\ merging'.proposals = Tail(parts)
  BY <1>1 DEF DiskInv, ThreadShape, MemoryShape
<1> HIDE DEF parts
<1>4. /\ IsSequence(Tail(parts)) /\ Len(parts) \in Nat /\ 1 \in 1..Len(parts)
      /\ Len(Tail(parts)) = Len(parts) - 1
      /\ \A i \in 1..(Len(parts) - 1) : Tail(parts)[i] = parts[i + 1]
      /\ proposal = parts[1]
  BY <1>2, TailSequence, SequenceShape
<1> HIDE DEF proposal
<1>5. IsList(proposal) /\ Ordered(proposal.barrels)
  BY <1>2, <1>4 DEF SoundParts
<1>6. IsSequence(docs) /\ Len(docs) \in Nat
  <2>1. \A i \in 1..Len(proposal.barrels) : IsSequence(dirs[proposal.barrels[i].id].docs)
    BY <1>5 DEF Ordered, DocsShape
  <2>2. IsSequence(docs)
    BY <1>5, <2>1, MergedDocsAre DEF Ordered
  <2> QED
    BY <2>2, SequenceShape
<1> HIDE DEF docs
<1>7. /\ IsIndex(rest) /\ rest.commit = New
      /\ Range(rest.barrels) = Range(work.infos.barrels) \ Range(proposal.barrels)
  BY RestIsIndex DEF ListInv, New
<1> HIDE DEF rest
<1>8. /\ IsIndex(list) /\ list.commit = New + 1
      /\ Range(list.barrels) = Range(rest.barrels) \cup {Last(list.barrels)}
  <2> DEFINE n == Len(docs)
  <2>1. n \in Nat /\ 0 \in Nat /\ rest.commit < MaxCommit
    BY <1>1, <1>6, <1>7
  <2> HIDE DEF n
  <2>2. LET u == NewBarrel(rest, n, 0)
            new == Last(u.barrels)
        IN /\ IsIndex(u) /\ u.commit = rest.commit + 1 /\ rest.commit + 1 \in Ids
           /\ Len(u.barrels) = Len(rest.barrels) + 1
           /\ \A i \in 1..Len(rest.barrels) : u.barrels[i] = rest.barrels[i]
           /\ u.barrels[Len(rest.barrels) + 1] = new
           /\ new = [id |-> rest.commit + 1, base |-> NextBase(rest), count |-> n, deleted |-> 0]
           /\ NextBase(rest) \in Nat
           /\ Range(u.barrels) = Range(rest.barrels) \cup {new}
    <3>1. IsIndex(rest) /\ rest.commit < MaxCommit
      BY <1>7, <2>1
    <3> HIDE DEF list
    <3> QED
      BY ZenonT(60), <2>1, <3>1, NewBarrelExtends
  <2> QED
    BY <1>7, <2>2 DEF n
<1> HIDE DEF list
<1>9. New \in Int
  BY IdIsNumber, <1>1 DEF DiskInv, WorkIntact
<1>10. \A i \in 1..(Len(parts) - 1) : i + 1 \in 1..Len(parts) /\ i + 1 # 1
  BY <1>4
<1>11. ASSUME NEW i \in 1..Len(Tail(parts))
       PROVE  /\ IsList(Tail(parts)[i]) /\ Ordered(Tail(parts)[i].barrels) /\ Tail(parts)[i].barrels # <<>>
              /\ Range(Tail(parts)[i].barrels) \subseteq Range(list.barrels)
              /\ Tail(parts)[i].commit \in Ids /\ Tail(parts)[i].commit <= list.commit
              /\ \A b \in Range(Tail(parts)[i].barrels) : b.id <= Tail(parts)[i].commit
              /\ Len(Tail(parts)[i].barrels) \in 1..MaxAllowedBarrels
  <2> DEFINE part == parts[i + 1]
  <2>1. i + 1 \in 1..Len(parts) /\ i + 1 # 1 /\ Tail(parts)[i] = part
    BY <1>4, <1>10
  <2>2. /\ IsList(part) /\ Ordered(part.barrels) /\ part.barrels # <<>>
        /\ Range(part.barrels) \subseteq Range(work.infos.barrels)
        /\ part.commit \in Ids /\ part.commit <= New
        /\ \A b \in Range(part.barrels) : b.id <= part.commit
    BY <1>2, <2>1 DEF SoundParts, New
  <2>3. Range(part.barrels) \cap Range(proposal.barrels) = {}
    BY <1>2, <1>4, <2>1 DEF SoundParts
  <2>4. Len(part.barrels) \in 1..MaxAllowedBarrels
    BY <1>2, <2>1 DEF FewParts
  <2> HIDE DEF part
  <2>5. Range(part.barrels) \subseteq Range(list.barrels)
    BY <1>7, <1>8, <2>2, <2>3
  <2>6. part.commit <= list.commit
    BY <1>8, <1>9, <2>2, IdIsNumber
  <2> QED
    BY <2>1, <2>2, <2>4, <2>5, <2>6
<1>12. ASSUME NEW i \in 1..Len(Tail(parts)), NEW k \in 1..Len(Tail(parts)), i # k
       PROVE  Range(Tail(parts)[i].barrels) \cap Range(Tail(parts)[k].barrels) = {}
  <2>1. /\ i + 1 \in 1..Len(parts) /\ Tail(parts)[i] = parts[i + 1]
        /\ k + 1 \in 1..Len(parts) /\ Tail(parts)[k] = parts[k + 1]
    BY <1>4, <1>10
  <2>2. i + 1 # k + 1
    BY <1>12
  <2> QED
    BY <1>2, <2>1, <2>2 DEF SoundParts
<1>13. SoundParts(Tail(parts), list) /\ FewParts(Tail(parts))
  BY <1>4, <1>11, <1>12 DEF SoundParts, FewParts
<1>14. \A d \in Ids : InfosAt(d)' = InfosAt(d)
  BY <1>1 DEF InfosAt
<1>15. ListInv'
  BY <1>1, <1>3, <1>8, <1>13, <1>14 DEF ListInv
<1>16. \A d \in Ids : dirs'[d].docs = dirs[d].docs \/ dirs'[d].docs = <<>>
  BY <1>1 DEF DiskInv, DiskShape, NoDir
<1>17. \A d \in Ids : IsSequence(dirs'[d].docs)
  BY <1>16, EmptySequence DEF DocsShape
<1> QED
  BY <1>1, <1>3, <1>6, <1>15, <1>17 DEF DocsShape

LEMMA StepKeepsLists == DiskInv /\ DocsShape /\ ListInv /\ [WriterNext]_storeVars => DocsShape' /\ ListInv'
<1> SUFFICES ASSUME DiskInv, DocsShape, ListInv, [WriterNext]_storeVars PROVE DocsShape' /\ ListInv'
  OBVIOUS
<1>1. CASE UNCHANGED storeVars
  <2>1. UNCHANGED <<commits, dirs, building, pending, merging, work, pc>>
    BY <1>1 DEF storeVars, disk, memory, thread
  <2> QED
    BY <2>1, ListsStay, DocsStay
<1>2. CASE WriterNext
  <2>1. CASE \/ Open \/ Add \/ Seal \/ Close \/ AnyMerge
             \/ \E d \in Documents : DeleteOnDisk(d) \/ DeleteInMemory(d)
    BY <2>1, ClientKeepsLists
  <2>2. CASE CommitThread
    BY <2>2, TakeBatchKeepsLists, FilesKeepLists, WriteCommitKeepsLists, EndKeepsLists, MergeKeepsLists,
       MergeProposalKeepsLists DEF CommitThread
  <2>3. CASE Crash
    BY <2>3, EndKeepsLists
  <2> QED
    BY <1>2, <2>1, <2>2, <2>3, LastMergeIsAny DEF WriterNext, StoreNext
<1> QED
  BY <1>1, <1>2

LEMMA NotRunningShapes ==
  ASSUME NotRunning
  PROVE  /\ MemoryShape /\ ThreadShape /\ Phases
         /\ pc = "idle" /\ work.docs = <<>> /\ pending = <<>> /\ building = NoBuilding
         /\ work.infos = NoBarrels /\ merging.proposals = <<>>
BY EmptySequence DEF NotRunning, MemoryShape, ThreadShape, Phases, IsList,
     NoBarrels, NoWork, NotMerging, New, INVALID_COMMIT

LEMMA InitLists ==
  ASSUME NotRunning, \A c \in Ids : IsSequence(dirs[c].docs), \A c \in Ids : IsIndex(InfosAt(c))
  PROVE  DocsShape /\ ListInv
<1>1. /\ pc = "idle" /\ work.docs = <<>> /\ pending = <<>> /\ building = NoBuilding
      /\ work.infos = NoBarrels /\ merging.proposals = <<>>
  BY NotRunningShapes
<1>2. DocsShape
  BY <1>1, EmptySequence DEF DocsShape, NoBuilding
<1>3. ListInv
  BY <1>1, NoList DEF ListInv
<1> QED
  BY <1>2, <1>3

LEMMA StoreInitLists == StoreInit => DocsShape /\ ListInv
<1> SUFFICES ASSUME StoreInit PROVE DocsShape /\ ListInv
  OBVIOUS
<1>1. NotRunning
  BY DEF StoreInit
<1>2. \A c \in Ids : dirs[c].docs = <<>> /\ commits[c].barrels = <<>>
  BY DEF StoreInit, NoDir, NoFile
<1>3. \A c \in Ids : IsSequence(dirs[c].docs)
  BY <1>2, EmptySequence
<1>4. ASSUME NEW c \in Ids PROVE IsIndex(InfosAt(c))
  <2>1. InfosAt(c) = [commit |-> c, barrels |-> <<>>]
    BY <1>2, IdsAreNumbers DEF InfosAt
  <2>2. 1..Len(<<>>) = {} /\ IsSequence(<<>>) /\ Range(<<>>) = {}
    BY EmptySequence
  <2> QED
    BY <2>1, <2>2 DEF IsIndex, IsList, Ordered
<1> QED
  BY <1>1, <1>3, <1>4, InitLists

-----------------------------------------------------------------------------
(* Where each document is                                                  *)

\* the documents of a barrel on disk, or of the one that is being written
DocsIn(id) == IF pc \in Writes /\ id = New THEN work.docs ELSE dirs[id].docs

\* No document is in two barrels, or twice in one.
Apart(S) ==
    \A b, d \in S : \A p \in 1..b.count, q \in 1..d.count :
        DocsIn(b.id)[p] = DocsIn(d.id)[q] => b = d /\ p = q

ListsApart ==
    /\ \A c \in Ids : Apart(Range(commits[c].barrels))
    /\ pc \in Writes => Apart(Range(work.infos.barrels))

\* Every document was handed in.
DocsKnown ==
    /\ handedIn \in Nat
    /\ \A c \in Ids : Range(dirs[c].docs) \subseteq 1..handedIn
    /\ Range(work.docs) \subseteq 1..handedIn
    /\ \A i \in 1..Len(pending) : Range(pending[i].docs) \subseteq 1..handedIn

\* What is being built has no key yet.
BuildingInv ==
    /\ Range(building.docs) \subseteq 1..handedIn
    /\ \A i, k \in 1..Len(building.docs) : building.docs[i] = building.docs[k] => i = k
    /\ status \in {"closed", "aborted"} => building.docs = <<>>
    /\ DOMAIN keyIndex \subseteq 1..handedIn
    /\ \A d \in DOMAIN keyIndex : keyIndex[d] \in Nat
    /\ Range(building.docs) \cap DOMAIN keyIndex = {}

IsEntry(b) ==
    /\ b = [id |-> b.id, base |-> b.base, count |-> b.count, deleted |-> b.deleted]
    /\ b.id \in Ids /\ b.base \in Nat /\ b.count \in Nat /\ b.deleted \in Nat

IsFilter(f) ==
    /\ IsSequence(f)
    /\ \A i \in 1..Len(f) :
          /\ f[i] = [barrel |-> f[i].barrel, dirty |-> f[i].dirty]
          /\ f[i].dirty \in BOOLEAN
          /\ IsEntry(f[i].barrel)

\* What is left to be sealed has an id left.
RoomInv ==
    /\ IsFilter(filter)
    /\ status = "open" /\ (building.docs # <<>> \/ Dirty(filter) # {}) => Room

\* how many of the keeper's barrels the commit thread has taken, and the list of these
Committed == Len(keeper.barrels) - Len(pending)
CurrentList == IF pc \in Writes THEN work.infos ELSE InfosAt(Reached)

\* The keeper's list is that of the newest commit, the barrel being written included,
\* and the pending ones, numbered as they will be.
KeeperInv ==
    Writing =>
        /\ IsIndex(keeper)
        /\ Committed \in Nat /\ Len(CurrentList.barrels) = Committed
        /\ \A i \in 1..Committed : CurrentList.barrels[i] = keeper.barrels[i]
        /\ \A k \in 1..Len(pending) :
              /\ pending[k].barrel = keeper.barrels[Committed + k]
              /\ pending[k].barrel.id = Reached + k
              /\ pending[k].barrel.base =
                    IF Committed + k = 1 THEN 0
                    ELSE keeper.barrels[Committed + k - 1].base + keeper.barrels[Committed + k - 1].count
        /\ pc \in Writes \ {"write"} =>
              Range(InfosAt(New - 1).barrels) \subseteq Range(work.infos.barrels)

DocsInKeeper(j) ==
    IF j <= Committed THEN DocsIn(keeper.barrels[j].id) ELSE pending[j - Committed].docs

\* Each document's key has its place in that list.
KeysInv ==
    Writing =>
        \A j \in 1..Len(keeper.barrels) : \A p \in 1..keeper.barrels[j].count :
            /\ DocsInKeeper(j)[p] \in DOMAIN keyIndex
            /\ keyIndex[DocsInKeeper(j)[p]] = keeper.barrels[j].base + p - 1

PlacesInv == ListsApart /\ DocsKnown /\ BuildingInv /\ RoomInv /\ KeeperInv /\ KeysInv

SoundInv == DiskInv /\ DeletionsInv /\ DocsShape /\ ListInv

LEMMA KeyTableHas ==
  ASSUME NEW pairs, NEW d, NEW k, <<d, k>> \in pairs, \A p \in pairs : p[1] = d => p = <<d, k>>
  PROVE  d \in DOMAIN KeyTable(pairs) /\ KeyTable(pairs)[d] = k
<1>1. d \in {p[1] : p \in pairs}
  OBVIOUS
<1>2. (CHOOSE p \in pairs : p[1] = d) = <<d, k>>
  OBVIOUS
<1> QED
  BY <1>1, <1>2 DEF KeyTable

\* A commit's barrels are on disk.
LEMMA ListedBarrels ==
  DiskInv => \A c \in Ids : \A b \in Range(commits[c].barrels) :
                /\ c \in Listed /\ b.id \in Ids /\ b.id <= c
                /\ pc \in Writes => b.id < New
                /\ DocsIn(b.id) = dirs[b.id].docs
                /\ Intact(b)
<1> SUFFICES ASSUME DiskInv, NEW c \in Ids, NEW b \in Range(commits[c].barrels)
             PROVE  /\ c \in Listed /\ b.id \in Ids /\ b.id <= c
                    /\ pc \in Writes => b.id < New
                    /\ DocsIn(b.id) = dirs[b.id].docs
                    /\ Intact(b)
  OBVIOUS
<1>1. b.id \in 0..c /\ Intact(b) /\ c \in Nat /\ c <= MaxCommit /\ MaxCommit \in Nat
  BY IdsAreNumbers DEF DiskInv, CommitsIntact, Ids
<1>2. b.id \in Ids /\ b.id <= c /\ b.id \in Nat
  BY <1>1 DEF Ids
<1>3. commits[c].state = "whole" /\ c \in Listed
  BY EmptySequence DEF DiskInv, DiskShape, IsFile, Listed
<1>4. ASSUME pc \in Writes PROVE c < New
  <2>1. New \in Ids /\ New \in Nat
    BY <1>4, IdIsNumber DEF DiskInv, WorkIntact
  <2>2. CASE pc = "write"
    <3>1. IsLast(New) /\ commits[New].state = "torn"
      BY <1>4, <2>2 DEF DiskInv, WorkIntact
    <3>2. c <= New /\ c # New
      BY <1>3, <2>1, <3>1, IdsAreNumbers DEF IsLast
    <3> QED
      BY <1>1, <2>1, <3>2
  <2>3. CASE pc # "write"
    <3>1. IsLast(New - 1)
      BY <1>4, <2>3 DEF DiskInv, WorkIntact
    <3>2. c <= New - 1
      BY <1>3, <3>1 DEF IsLast
    <3> QED
      BY <1>1, <2>1, <3>2
  <2> QED
    BY <2>2, <2>3
<1>5. ASSUME pc \in Writes PROVE b.id < New
  <2>1. New \in Nat
    BY <1>5, IdIsNumber DEF DiskInv, WorkIntact
  <2> QED
    BY <1>1, <1>2, <1>4, <1>5, <2>1
<1>6. DocsIn(b.id) = dirs[b.id].docs
  <2>1. pc \in Writes => b.id # New
    <3>1. pc \in Writes => New \in Nat
      BY IdIsNumber DEF DiskInv, WorkIntact
    <3> QED
      BY <1>2, <1>5, <3>1
  <2> QED
    BY <2>1 DEF DocsIn
<1> QED
  BY <1>1, <1>2, <1>3, <1>5, <1>6

LEMMA ListedBarrelsNext ==
  DiskInv' => \A c \in Ids : \A b \in Range(commits'[c].barrels) :
                /\ c \in Listed' /\ b.id \in Ids /\ b.id <= c
                /\ pc' \in Writes => b.id < New'
                /\ DocsIn(b.id)' = dirs'[b.id].docs
                /\ Intact(b)'
<1>1. (DiskInv => \A c \in Ids : \A b \in Range(commits[c].barrels) :
                /\ c \in Listed /\ b.id \in Ids /\ b.id <= c
                /\ pc \in Writes => b.id < New
                /\ DocsIn(b.id) = dirs[b.id].docs
                /\ Intact(b))'
  BY ListedBarrels, PTL
<1> QED
  BY <1>1

LEMMA KeeperApart ==
  ASSUME KeeperInv, KeysInv, Writing,
         NEW i \in 1..Len(keeper.barrels), NEW k \in 1..Len(keeper.barrels),
         NEW p \in 1..keeper.barrels[i].count, NEW q \in 1..keeper.barrels[k].count,
         DocsInKeeper(i)[p] = DocsInKeeper(k)[q]
  PROVE  i = k /\ p = q
<1> DEFINE b == keeper.barrels[i]
           d == keeper.barrels[k]
<1>1. Ordered(keeper.barrels)
  BY DEF KeeperInv, IsIndex
<1>2. Len(keeper.barrels) \in Nat
  BY <1>1, SequenceShape DEF Ordered
<1>3. b.base \in Nat /\ b.count \in Nat /\ d.base \in Nat /\ d.count \in Nat
  BY <1>1 DEF Ordered
<1>4. b.base + p - 1 = d.base + q - 1
  BY DEF KeysInv
<1>5. i < k => b.base + b.count <= d.base
  BY <1>1 DEF Ordered
<1>6. k < i => d.base + d.count <= b.base
  BY <1>1 DEF Ordered
<1>7. p \in Int /\ 1 <= p /\ p <= b.count /\ q \in Int /\ 1 <= q /\ q <= d.count
  BY <1>3
<1> HIDE DEF b, d
<1>8. ~(i < k) /\ ~(k < i)
  BY SMTT(60), <1>3, <1>4, <1>5, <1>6, <1>7
<1>9. i = k
  BY <1>2, <1>8
<1>10. b = d
  BY <1>9 DEF b, d
<1> QED
  BY <1>3, <1>4, <1>7, <1>9, <1>10

\* The batch that is taken is what the keeper expects it to be.
LEMMA TakenBatch ==
  ASSUME SoundInv, PlacesInv, TakeBatch
  PROVE  /\ Writing /\ Writing' /\ pc = "idle" /\ pc' = "data" /\ pending # <<>>
         /\ pending' = Tail(pending) /\ Reached \in Ids \cup {INVALID_COMMIT} /\ IsLast(Reached)
         /\ Reached + 1 \in Ids
         /\ Committed \in Nat /\ Committed + 1 <= Len(keeper.barrels)
         /\ Len(InfosAt(Reached).barrels) = Committed
         /\ \A i \in 1..Committed : InfosAt(Reached).barrels[i] = keeper.barrels[i]
         /\ New' = Reached + 1
         /\ Len(work'.infos.barrels) = Committed + 1
         /\ \A i \in 1..(Committed + 1) : work'.infos.barrels[i] = keeper.barrels[i]
         /\ keeper.barrels[Committed + 1].id = Reached + 1
         /\ work'.docs = pending[1].docs /\ work'.dirty = pending[1].dirty
         /\ dirs' = [dirs EXCEPT ![Reached + 1] = [NoDir EXCEPT !.state = "filling"]]
         /\ UNCHANGED <<commits, status, building, keeper, filter, bits, keyIndex, merging, handedIn, asked>>
<1>1. PICK c \in Ids \cup {INVALID_COMMIT} :
         /\ IsLast(c) /\ Readable(c) /\ c < MaxCommit
         /\ work' = [infos |-> NewBarrel(InfosAt(c), Head(pending).barrel.count,
                                         Head(pending).barrel.deleted),
                     docs  |-> Head(pending).docs,
                     dirty |-> Head(pending).dirty,
                     last  |-> Head(pending).last]
         /\ dirs' = [dirs EXCEPT ![c + 1] = [NoDir EXCEPT !.state = "filling"]]
  BY DEF TakeBatch
<1>2. /\ pc = "idle" /\ pending # <<>> /\ pending' = Tail(pending) /\ pc' = "data"
      /\ UNCHANGED <<commits, status, building, keeper, filter, bits, keyIndex, merging, handedIn, asked>>
  BY DEF TakeBatch, history
<1>3. Writing /\ Writing'
  BY <1>2 DEF Writing, SoundInv, DiskInv, Phases
<1>4. c = Reached /\ c \in Int
  <2>1. IsLast(Reached)
    BY <1>2, <1>3 DEF SoundInv, DeletionsInv, KeeperAhead, Writes
  <2> QED
    BY <1>1, <2>1, OneLast, IdsAreNumbers
<1>5. /\ IsSequence(pending) /\ Len(pending) \in Nat /\ Head(pending) = pending[1]
      /\ 1 \in 1..Len(pending) /\ 1 \in DOMAIN pending
  BY <1>2, SequenceShape, TailSequence DEF SoundInv, DiskInv, MemoryShape
<1>6. Head(pending).barrel.count \in Nat /\ Head(pending).barrel.deleted \in Nat
  <2>1. IsSequence(pending[1].docs) /\ pending[1].barrel.deleted \in Nat
    BY <1>5 DEF SoundInv, DocsShape
  <2>2. pending[1].barrel.count = Len(pending[1].docs)
    BY <1>5 DEF SoundInv, DiskInv, MemoryShape
  <2> QED
    BY <1>5, <2>1, <2>2, SequenceShape
<1>7. IsIndex(InfosAt(c)) /\ InfosAt(c).commit = c
  BY NoList DEF SoundInv, ListInv, InfosAt, NoBarrels
<1> DEFINE m == Committed
           count == Head(pending).barrel.count
           gone == Head(pending).barrel.deleted
           s == InfosAt(c).barrels
           t == NewBarrel(InfosAt(c), count, gone).barrels
           new == [id |-> c + 1, base |-> NextBase(InfosAt(c)), count |-> count, deleted |-> gone]
<1>8. /\ work'.infos.barrels = t /\ work'.infos.commit = c + 1 /\ c + 1 \in Ids
      /\ Len(t) = Len(s) + 1 /\ \A i \in 1..Len(s) : t[i] = s[i]
      /\ t[Len(s) + 1] = new
  <2>1. LET list == NewBarrel(InfosAt(c), count, gone)
            last == Last(list.barrels)
        IN /\ IsIndex(list) /\ list.commit = InfosAt(c).commit + 1 /\ InfosAt(c).commit + 1 \in Ids
           /\ Len(list.barrels) = Len(InfosAt(c).barrels) + 1
           /\ \A i \in 1..Len(InfosAt(c).barrels) : list.barrels[i] = InfosAt(c).barrels[i]
           /\ list.barrels[Len(InfosAt(c).barrels) + 1] = last
           /\ last = [id |-> InfosAt(c).commit + 1, base |-> NextBase(InfosAt(c)), count |-> count, deleted |-> gone]
           /\ NextBase(InfosAt(c)) \in Nat
           /\ Range(list.barrels) = Range(InfosAt(c).barrels) \cup {last}
    <3>1. IsIndex(InfosAt(c)) /\ InfosAt(c).commit < MaxCommit /\ count \in Nat /\ gone \in Nat
      BY <1>1, <1>6, <1>7
    <3> HIDE DEF count, gone
    <3> QED
      BY ZenonT(60), <3>1, NewBarrelExtends
  <2>2. work'.infos = NewBarrel(InfosAt(c), count, gone)
    BY <1>1
  <2> HIDE DEF count, gone
  <2> QED
    BY <1>7, <2>1, <2>2
<1>9. /\ m \in Nat /\ Len(s) = m /\ \A i \in 1..m : s[i] = keeper.barrels[i]
  <2>1. CurrentList = InfosAt(c)
    BY <1>2, <1>4 DEF CurrentList, Writes
  <2> QED
    BY <1>3, <2>1 DEF PlacesInv, KeeperInv
<1>10. m + 1 \in 1..Len(keeper.barrels)
  <2>1. Ordered(keeper.barrels)
    BY <1>3 DEF PlacesInv, KeeperInv, IsIndex
  <2>2. Len(keeper.barrels) \in Nat /\ m = Len(keeper.barrels) - Len(pending)
    BY <2>1, SequenceShape DEF Ordered, Committed
  <2> HIDE DEF m
  <2> QED
    BY <1>5, <1>9, <2>2
<1>11. /\ keeper.barrels[m + 1] = pending[1].barrel
       /\ pending[1].barrel.id = c + 1
       /\ pending[1].barrel.base =
             IF m + 1 = 1 THEN 0 ELSE keeper.barrels[m + 1 - 1].base + keeper.barrels[m + 1 - 1].count
  BY <1>3, <1>4, <1>5 DEF PlacesInv, KeeperInv
<1>12. pending[1].barrel.base = NextBase(InfosAt(c))
  <2>1. IsSequence(s) /\ (s = <<>> <=> m = 0)
    BY <1>7, <1>9, SequenceShape DEF IsIndex, Ordered
  <2>2. CASE m = 0
    BY <1>11, <2>1, <2>2 DEF NextBase
  <2>3. CASE m # 0
    <3>1. m + 1 # 1 /\ m + 1 - 1 = m /\ m \in 1..m
      BY <1>9, <2>3
    <3>2. NextBase(InfosAt(c)) = s[m].base + s[m].count
      BY <1>9, <2>1, <2>3 DEF NextBase, Last
    <3> QED
      BY <1>9, <1>11, <3>1, <3>2
  <2> QED
    BY <2>2, <2>3
<1>13. new = keeper.barrels[m + 1]
  <2> DEFINE b == keeper.barrels[m + 1]
  <2>1. b = [id |-> b.id, base |-> b.base, count |-> b.count, deleted |-> b.deleted]
    BY <1>3, <1>10 DEF PlacesInv, KeeperInv, IsIndex, Ordered
  <2>2. /\ b.id = c + 1 /\ b.base = NextBase(InfosAt(c)) /\ b.count = Head(pending).barrel.count
        /\ b.deleted = Head(pending).barrel.deleted
    BY <1>5, <1>11, <1>12
  <2> HIDE DEF b
  <2> QED
    BY <2>1, <2>2 DEF b
<1> HIDE DEF t, s, new
<1>14. Len(work'.infos.barrels) = m + 1 /\ \A i \in 1..(m + 1) : work'.infos.barrels[i] = keeper.barrels[i]
  <2>1. \A i \in 1..(m + 1) : i \in 1..m \/ i = m + 1
    BY <1>9
  <2> QED
    BY <1>8, <1>9, <1>13, <2>1
<1>15. work'.docs = pending[1].docs /\ work'.dirty = pending[1].dirty
  BY <1>1, <1>5
<1>16. New' = c + 1
  BY <1>8 DEF New
<1> QED
  BY SMTT(60), <1>1, <1>2, <1>3, <1>4, <1>8, <1>9, <1>10, <1>11, <1>14, <1>15, <1>16 DEF s

LEMMA StepKeepsSound == SoundInv /\ [WriterNext]_storeVars => SoundInv'
BY StepKeepsDiskInv, StepKeepsDeletions, StepKeepsLists DEF SoundInv

\* What a step does to the commit files
LEMMA CommitsGoOn ==
  ASSUME DiskInv, [WriterNext]_storeVars, NEW c \in Ids
  PROVE  \/ commits'[c].barrels = commits[c].barrels
         \/ commits'[c].barrels = <<>>
         \/ WriteCommitFile /\ c = New /\ commits'[c].barrels = work.infos.barrels
<1>1. CASE CreateCommitFile \/ DropCommit
  BY <1>1 DEF CreateCommitFile, DropCommit, NoFile, DiskInv, DiskShape
<1>2. CASE WriteCommitFile
  BY <1>2 DEF WriteCommitFile, DiskInv, DiskShape
<1>3. CASE AnyMerge
  BY <1>3 DEF AnyMerge, MergeWith, disk
<1> QED
  BY <1>1, <1>2, <1>3, CommitFileSteps DEF WriterNext

\* The directories of listed barrels
LEMMA ListedStay ==
  DiskInv /\ [WriterNext]_storeVars =>
      \A c \in Ids : \A b \in Range(commits[c].barrels) : dirs'[b.id] = dirs[b.id]
<1> SUFFICES ASSUME DiskInv, [WriterNext]_storeVars, NEW c \in Ids, NEW b \in Range(commits[c].barrels)
             PROVE  dirs'[b.id] = dirs[b.id]
  OBVIOUS
<1>1. /\ c \in Listed /\ b.id \in Ids /\ b.id <= c
      /\ pc \in Writes => b.id < New
  BY ListedBarrels
<1>2. b.id \in Nat /\ c \in Nat
  BY <1>1, IdIsNumber
<1>3. CASE UNCHANGED dirs
  BY <1>3
<1>4. CASE WriteData \/ WriteDeletions \/ WriteRest
  <2>1. New \in Nat /\ pc \in Writes /\ \A d \in Ids : d # New => dirs'[d] = dirs[d]
    BY <1>4, FillingFills, IdIsNumber
  <2> QED
    BY <1>1, <1>2, <2>1
<1>5. CASE TakeBatch
  <2>1. PICK k \in Ids \cup {INVALID_COMMIT} :
           IsLast(k) /\ dirs' = [dirs EXCEPT ![k + 1] = [NoDir EXCEPT !.state = "filling"]]
    BY <1>5 DEF TakeBatch
  <2>2. c <= k /\ k \in Int
    BY <1>1, <2>1, IdIsNumber, IdsAreNumbers DEF IsLast
  <2>3. b.id # k + 1
    BY <1>1, <1>2, <2>2
  <2> QED
    BY <1>1, <2>1, <2>3 DEF DiskInv, DiskShape
<1>6. CASE MergeProposal
  <2>1. pc = "proposal" /\ dirs' = [dirs EXCEPT ![New + 1] = [NoDir EXCEPT !.state = "filling"]]
    BY <1>6 DEF MergeProposal
  <2>2. New \in Nat /\ IsLast(New)
    BY <2>1, IdIsNumber DEF DiskInv, WorkIntact
  <2>3. c <= New
    BY <1>1, <2>2, IdsAreNumbers DEF IsLast
  <2>4. b.id # New + 1
    BY <1>1, <1>2, <2>2, <2>3
  <2> QED
    BY <1>1, <2>1, <2>4 DEF DiskInv, DiskShape
<1>7. CASE RemoveDir
  <2>1. PICK x \in stale : dirs' = [dirs EXCEPT ![x] = NoDir]
    BY <1>7 DEF RemoveDir
  <2>2. pc = "dirs"
    BY <1>7 DEF RemoveDir
  <2>3. b.id \in Referenced(c)
    BY DEF Referenced
  <2>4. b.id # x
    BY <1>1, <2>1, <2>2, <2>3 DEF DiskInv, StaleUnused
  <2> QED
    BY <1>1, <2>1, <2>4 DEF DiskInv, DiskShape
<1>8. \/ UNCHANGED dirs \/ WriteData \/ WriteDeletions \/ WriteRest \/ TakeBatch \/ MergeProposal \/ RemoveDir
  <2>1. CASE CommitThread
    BY <2>1 DEF CommitThread, CreateCommitFile, WriteCommitFile, DropCommit, Reserve, Cleaned, Merge,
       MergeAborts, disk
  <2>2. CASE Open \/ Add \/ Seal \/ Close \/ AnyMerge \/ Crash
    BY <2>2 DEF Open, Add, Seal, Close, AnyMerge, MergeWith, Crash, disk
  <2>3. CASE \E d \in Documents : DeleteOnDisk(d) \/ DeleteInMemory(d)
    BY <2>3 DEF DeleteOnDisk, DeleteInMemory, disk
  <2> QED
    BY <2>1, <2>2, <2>3, LastMergeIsAny DEF WriterNext, StoreNext, storeVars, disk
<1> QED
  BY <1>3, <1>4, <1>5, <1>6, <1>7, <1>8

\* The commits on disk stay apart
LEMMA DiskApart ==
  ASSUME DiskInv, ListsApart, [WriterNext]_storeVars
  PROVE  \A c \in Ids : Apart(Range(commits[c].barrels))'
<1>1. DiskInv'
  BY StepKeepsDiskInv
<1> SUFFICES ASSUME NEW c \in Ids PROVE Apart(Range(commits[c].barrels))'
  OBVIOUS
<1>2. ASSUME NEW b \in Range(commits'[c].barrels) PROVE DocsIn(b.id)' = dirs'[b.id].docs
  BY <1>1, ListedBarrelsNext
<1>3. CASE commits'[c].barrels = commits[c].barrels
  <2>1. ASSUME NEW b \in Range(commits[c].barrels) PROVE DocsIn(b.id)' = DocsIn(b.id)
    <3>1. dirs'[b.id] = dirs[b.id] /\ DocsIn(b.id) = dirs[b.id].docs
      BY ListedStay, ListedBarrels
    <3> QED
      BY <1>2, <1>3, <3>1
  <2>2. Apart(Range(commits[c].barrels))
    BY DEF ListsApart
  <2> QED
    BY <1>3, <2>1, <2>2 DEF Apart
<1>4. CASE commits'[c].barrels = <<>>
  BY <1>4, EmptySequence DEF Apart
<1>5. CASE WriteCommitFile /\ c = New /\ commits'[c].barrels = work.infos.barrels
  <2>1. pc = "write" /\ pc \in Writes /\ dirs' = dirs
    BY <1>5 DEF WriteCommitFile, Writes
  <2>2. dirs[New].docs = work.docs
    BY <2>1 DEF DiskInv, WorkIntact
  <2>3. ASSUME NEW b \in Range(work.infos.barrels) PROVE DocsIn(b.id)' = DocsIn(b.id)
    <3>1. DocsIn(b.id)' = dirs[b.id].docs
      BY <1>2, <1>5, <2>1
    <3>2. DocsIn(b.id) = dirs[b.id].docs
      BY <2>2 DEF DocsIn
    <3> QED
      BY <3>1, <3>2
  <2>4. Apart(Range(work.infos.barrels))
    BY <2>1 DEF ListsApart
  <2> QED
    BY <1>5, <2>3, <2>4 DEF Apart
<1> QED
  BY <1>3, <1>4, <1>5, CommitsGoOn

-----------------------------------------------------------------------------
(* Sealing *)

LEMMA CopiedFilter ==
  ASSUME NEW f, IsFilter(f)
  PROVE  /\ IsFilter(Copied(f)) /\ Dirty(Copied(f)) = {} /\ Len(Copied(f)) = Len(f)
         /\ \A i \in 1..Len(f) : Copied(f)[i].barrel = f[i].barrel
<1> DEFINE n == Len(f)
           t == [i \in 1..n |-> [f[i] EXCEPT !.dirty = FALSE]]
<1>1. n \in Nat /\ DOMAIN f = 1..n
  BY SequenceShape DEF IsFilter
<1>2. t = Copied(f)
  BY <1>1 DEF Copied
<1>3. IsSequence(t) /\ Len(t) = n
  <2>1. t = [i \in 1..n |-> t[i]]
    OBVIOUS
  <2> HIDE DEF t, n
  <2> QED
    BY <1>1, <2>1, FunctionSequence
<1>4. ASSUME NEW i \in 1..n PROVE t[i] = [barrel |-> f[i].barrel, dirty |-> FALSE] /\ IsEntry(f[i].barrel)
  <2>1. f[i] = [barrel |-> f[i].barrel, dirty |-> f[i].dirty] /\ IsEntry(f[i].barrel)
    BY DEF IsFilter
  <2>2. t[i] = [f[i] EXCEPT !.dirty = FALSE]
    OBVIOUS
  <2> HIDE DEF t
  <2> QED
    BY <2>1, <2>2
<1>5. DOMAIN t = 1..n
  OBVIOUS
<1> HIDE DEF t, n
<1>6. ASSUME NEW i \in 1..n PROVE t[i].barrel = f[i].barrel /\ t[i].dirty = FALSE
  <2>1. t[i] = [barrel |-> f[i].barrel, dirty |-> FALSE]
    BY <1>4
  <2> QED
    BY <2>1
<1>7. IsFilter(t)
  BY <1>3, <1>4, <1>6 DEF IsFilter
<1>8. Dirty(t) = {}
  BY <1>5, <1>6 DEF Dirty
<1> QED
  BY <1>2, <1>3, <1>6, <1>7, <1>8 DEF n

LEMMA LongerFilter ==
  ASSUME NEW f, IsFilter(f), NEW b, IsEntry(b)
  PROVE  LET t == Append(f, [barrel |-> b, dirty |-> FALSE])
         IN /\ IsFilter(t) /\ Len(t) = Len(f) + 1 /\ t[Len(f) + 1].barrel = b
            /\ \A i \in 1..Len(f) : t[i] = f[i]
<1> DEFINE e == [barrel |-> b, dirty |-> FALSE]
           t == Append(f, e)
           n == Len(f)
<1>1. e.barrel = b /\ e.dirty = FALSE /\ e = [barrel |-> e.barrel, dirty |-> e.dirty]
  OBVIOUS
<1> HIDE DEF e
<1>2. /\ IsSequence(t) /\ Len(t) = n + 1 /\ n \in Nat
      /\ \A i \in 1..n : t[i] = f[i]
      /\ t[n + 1] = e
  BY AppendSequence, SequenceShape DEF IsFilter
<1> HIDE DEF t
<1>3. \A i \in 1..Len(t) : i \in 1..n \/ i = n + 1
  BY <1>2
<1>4. \A i \in 1..n : /\ f[i] = [barrel |-> f[i].barrel, dirty |-> f[i].dirty]
                      /\ f[i].dirty \in BOOLEAN /\ IsEntry(f[i].barrel)
  BY DEF IsFilter
<1> HIDE DEF n
<1>5. IsFilter(t)
  BY <1>1, <1>2, <1>3, <1>4 DEF IsFilter
<1> QED
  BY <1>1, <1>2, <1>5 DEF t, e, n

LEMMA DirtyAreIds == ASSUME NEW f, IsFilter(f) PROVE Dirty(f) \subseteq Ids
<1>1. DOMAIN f = 1..Len(f)
  BY SequenceShape DEF IsFilter
<1> QED
  BY <1>1 DEF IsFilter, IsEntry, Dirty

LEMMA Sealing ==
  ASSUME SoundInv, PlacesInv, status = "open", SealDocuments \/ SealDeletions
  PROVE  /\ Writing /\ keeper.commit + 1 \in Ids /\ IsIndex(keeper) /\ IsIndex(keeper')
         /\ Len(keeper.barrels) \in Nat /\ keeper.commit \in Int
         /\ keeper'.commit = keeper.commit + 1
         /\ Len(keeper'.barrels) = Len(keeper.barrels) + 1
         /\ \A i \in 1..Len(keeper.barrels) : keeper'.barrels[i] = keeper.barrels[i]
         /\ LET new == keeper'.barrels[Len(keeper.barrels) + 1]
            IN /\ new.id = keeper.commit + 1 /\ new.base = NextBase(keeper) /\ new.base \in Nat
               /\ new.count = Len(building.docs)
               /\ new.deleted = IF building.docs = <<>> THEN 0 ELSE Cardinality(building.deleted)
               /\ pending'[Len(pending) + 1].barrel = new
               /\ \A i \in 1..Len(filter') :
                     filter'[i].barrel = new \/ \E k \in 1..Len(filter) : filter'[i].barrel = filter[k].barrel
               /\ \/ keyIndex' = Inserted(keyIndex, KeyTable(KeysIn(building.docs, new.base))) /\ building.docs # <<>>
                  \/ keyIndex' = keyIndex /\ building.docs = <<>>
         /\ IsSequence(pending) /\ IsSequence(pending') /\ Len(pending') = Len(pending) + 1
         /\ \A i \in 1..Len(pending) : pending'[i] = pending[i]
         /\ pending'[Len(pending) + 1].docs = building.docs
         /\ pending'[Len(pending) + 1].dirty \subseteq Ids
         /\ IsFilter(filter') /\ Dirty(filter') = {}
<1> DEFINE count == Len(building.docs)
           gone == IF building.docs = <<>> THEN 0 ELSE Cardinality(building.deleted)
           list == NewBarrel(keeper, count, gone)
           m == Len(keeper.barrels)
           new == Last(list.barrels)
           entry == [barrel |-> new, dirty |-> FALSE]
<1>1. IsSequence(building.docs) /\ count \in Nat /\ (building.docs = <<>> <=> count = 0)
  BY SequenceShape DEF SoundInv, DocsShape
<1>2. gone \in Nat
  <2>1. IsFiniteSet(Range(building.docs))
    <3>1. building.docs \in Seq(Range(building.docs))
      BY <1>1 DEF IsSequence
    <3> QED
      BY <1>1, <3>1, RangeIsFinite
  <2> QED
    BY <2>1, FS_Subset, FS_CardinalityType DEF SoundInv, DocsShape
<1>3. Writing
  BY DEF Writing, SoundInv, DiskInv, Phases
<1>4. IsIndex(keeper)
  BY <1>3 DEF PlacesInv, KeeperInv
<1>5. keeper.commit < MaxCommit /\ keeper.commit \in Int
  <2>1. Room
    BY DEF PlacesInv, RoomInv, SealDocuments, SealDeletions
  <2>2. keeper.commit \in Int
    BY DEF SoundInv, DiskInv, MemoryShape
  <2> QED
    BY <2>1, <2>2, IdsAreNumbers DEF Room
<1>6. /\ keeper' = list
      /\ \/ SealDocuments /\ building.docs # <<>>
         \/ SealDeletions /\ building.docs = <<>>
  <2>1. CASE SealDocuments
    BY <2>1 DEF SealDocuments
  <2>2. CASE SealDeletions
    <3>1. building.docs = <<>> /\ keeper' = NewBarrel(keeper, 0, 0)
      BY <2>2 DEF SealDeletions
    <3> HIDE DEF list
    <3>2. keeper' = list
      BY <1>1, <3>1 DEF list
    <3> QED
      BY <2>2, <3>1, <3>2
  <2> QED
    BY <2>1, <2>2
<1> HIDE DEF count, gone
<1>7. LET u == NewBarrel(keeper, count, gone)
          last == Last(u.barrels)
      IN /\ IsIndex(u) /\ u.commit = keeper.commit + 1 /\ keeper.commit + 1 \in Ids
         /\ Len(u.barrels) = Len(keeper.barrels) + 1
         /\ \A i \in 1..Len(keeper.barrels) : u.barrels[i] = keeper.barrels[i]
         /\ u.barrels[Len(keeper.barrels) + 1] = last
         /\ last = [id |-> keeper.commit + 1, base |-> NextBase(keeper), count |-> count, deleted |-> gone]
         /\ NextBase(keeper) \in Nat
         /\ Range(u.barrels) = Range(keeper.barrels) \cup {last}
  BY ZenonT(60), <1>1, <1>2, <1>4, <1>5, NewBarrelExtends
<1>8. /\ IsIndex(list) /\ list.commit = keeper.commit + 1 /\ keeper.commit + 1 \in Ids
      /\ Len(list.barrels) = m + 1
      /\ \A i \in 1..m : list.barrels[i] = keeper.barrels[i]
      /\ list.barrels[m + 1] = new
      /\ new = [id |-> keeper.commit + 1, base |-> NextBase(keeper), count |-> count, deleted |-> gone]
      /\ NextBase(keeper) \in Nat
  BY <1>7
<1>9. IsEntry(new)
  <2> HIDE DEF new
  <2> QED
    BY <1>1, <1>2, <1>8 DEF IsEntry
<1>10. /\ IsFilter(filter') /\ Dirty(filter') = {}
       /\ \A i \in 1..Len(filter') :
             filter'[i].barrel = new \/ \E k \in 1..Len(filter) : filter'[i].barrel = filter[k].barrel
       /\ \E f : IsFilter(f) /\ pending' = Append(pending, Sealed(list, building.docs, f))
  <2>1. IsFilter(filter) /\ IsFilter(Copied(filter)) /\ Len(Copied(filter)) = Len(filter)
        /\ \A i \in 1..Len(filter) : Copied(filter)[i].barrel = filter[i].barrel
    BY CopiedFilter DEF PlacesInv, RoomInv
  <2>2. CASE SealDocuments /\ building.docs # <<>>
    <3>1. PICK old \in {filter, Copied(filter)} :
             /\ pending' = Append(pending, Sealed(list, building.docs, Append(old, entry)))
             /\ filter' = Copied(Append(old, entry))
      <4>1. list = NewBarrel(keeper, Len(building.docs), Cardinality(building.deleted))
        BY <2>2 DEF count, gone
      <4> HIDE DEF list
      <4> QED
        BY <2>2, <4>1 DEF SealDocuments
    <3>2. IsFilter(old) /\ Len(old) = Len(filter) /\ \A i \in 1..Len(filter) : old[i].barrel = filter[i].barrel
      BY <2>1
    <3> DEFINE t == Append(old, entry)
    <3>3. IsFilter(t) /\ Len(t) = Len(filter) + 1 /\ t[Len(filter) + 1].barrel = new
          /\ \A i \in 1..Len(filter) : t[i] = old[i]
      <4> HIDE DEF new
      <4> QED
        BY <1>9, <3>2, LongerFilter
    <3> HIDE DEF t
    <3>4. IsFilter(Copied(t)) /\ Dirty(Copied(t)) = {} /\ Len(Copied(t)) = Len(t)
          /\ \A i \in 1..Len(t) : Copied(t)[i].barrel = t[i].barrel
      BY <3>3, CopiedFilter
    <3>5. filter' = Copied(t)
      BY <3>1 DEF t
    <3>6. Len(filter) \in Nat
      BY <2>1, SequenceShape DEF IsFilter
    <3>7. \A i \in 1..Len(t) : i \in 1..Len(filter) \/ i = Len(filter) + 1
      BY <3>3, <3>6
    <3>8. \A i \in 1..Len(t) : t[i].barrel = new \/ \E k \in 1..Len(filter) : t[i].barrel = filter[k].barrel
      BY <3>2, <3>3, <3>7
    <3> HIDE DEF list, new
    <3> QED
      BY <3>1, <3>3, <3>4, <3>5, <3>8 DEF t
  <2>3. CASE SealDeletions /\ building.docs = <<>>
    <3>1. /\ pending' = Append(pending, Sealed(NewBarrel(keeper, 0, 0), <<>>, filter))
          /\ filter' = Copied(filter)
      BY <2>3 DEF SealDeletions
    <3>2. list = NewBarrel(keeper, 0, 0)
      BY <1>1, <2>3 DEF gone
    <3> HIDE DEF list
    <3>3. pending' = Append(pending, Sealed(list, building.docs, filter))
      BY <2>3, <3>1, <3>2
    <3>4. Dirty(filter') = {}
      BY <2>1, <3>1, CopiedFilter DEF PlacesInv, RoomInv
    <3> QED
      BY <2>1, <3>1, <3>3, <3>4
  <2> QED
    BY <1>6, <2>2, <2>3
<1>11. PICK f : IsFilter(f) /\ pending' = Append(pending, Sealed(list, building.docs, f))
  BY <1>10
<1>12. /\ IsSequence(pending) /\ IsSequence(pending') /\ Len(pending') = Len(pending) + 1
       /\ \A i \in 1..Len(pending) : pending'[i] = pending[i]
       /\ pending'[Len(pending) + 1].docs = building.docs
       /\ pending'[Len(pending) + 1].barrel = new
       /\ pending'[Len(pending) + 1].dirty \subseteq Ids
  <2> DEFINE p == Sealed(list, building.docs, f)
  <2>1. p.docs = building.docs /\ p.barrel = new /\ p.dirty = Dirty(f)
    BY DEF Sealed
  <2>3. Dirty(f) \subseteq Ids
    BY <1>11, DirtyAreIds
  <2>2. IsSequence(pending) /\ pending' = Append(pending, p)
    BY <1>11 DEF SoundInv, DiskInv, MemoryShape
  <2> HIDE DEF p, new
  <2> QED
    BY <2>1, <2>2, <2>3, AppendSequence
<1>13. \/ keyIndex' = Inserted(keyIndex, KeyTable(KeysIn(building.docs, new.base))) /\ building.docs # <<>>
       \/ keyIndex' = keyIndex /\ building.docs = <<>>
  <2>1. CASE SealDocuments /\ building.docs # <<>>
    <3>1. list = NewBarrel(keeper, Len(building.docs), Cardinality(building.deleted))
      BY <2>1 DEF count, gone
    <3> HIDE DEF list
    <3> QED
      BY <2>1, <3>1 DEF SealDocuments
  <2>2. CASE SealDeletions /\ building.docs = <<>>
    BY <2>2 DEF SealDeletions
  <2> QED
    BY <1>6, <2>1, <2>2
<1>14. /\ new.id = keeper.commit + 1 /\ new.base = NextBase(keeper) /\ new.count = count /\ new.deleted = gone
       /\ new.base \in Nat
  <2> HIDE DEF new
  <2> QED
    BY <1>8
<1>15. m \in Nat
  BY <1>4, SequenceShape DEF IsIndex, Ordered
<1>16. new = keeper'.barrels[m + 1]
  BY <1>6, <1>8
<1> HIDE DEF list, new, m
<1>17. /\ IsIndex(keeper') /\ keeper'.commit = keeper.commit + 1 /\ keeper.commit + 1 \in Ids
       /\ Len(keeper'.barrels) = m + 1
       /\ \A i \in 1..m : keeper'.barrels[i] = keeper.barrels[i]
  BY <1>6, <1>8
<1> QED
  BY <1>3, <1>4, <1>5, <1>10, <1>12, <1>13, <1>14, <1>15, <1>16, <1>17 DEF m, count, gone

\* The batch moves from the pending ones to the list that is written.
LEMMA TakenDocs ==
  ASSUME SoundInv, PlacesInv, TakeBatch
  PROVE  /\ Committed' = Committed + 1
         /\ \A j \in 1..Len(keeper.barrels) : DocsInKeeper(j)' = DocsInKeeper(j)
         /\ \A j \in 1..(Committed + 1) :
               j \in 1..Len(keeper.barrels) /\ DocsIn(keeper.barrels[j].id)' = DocsInKeeper(j)
<1> PICK m, n : m = Committed /\ n = Len(keeper.barrels)
  OBVIOUS
<1>1. /\ Writing /\ pc = "idle" /\ pc' = "data" /\ pending # <<>>
      /\ pending' = Tail(pending) /\ Reached \in Ids \cup {INVALID_COMMIT} /\ IsLast(Reached)
      /\ Reached + 1 \in Ids
      /\ m \in Nat /\ m + 1 <= n
      /\ Len(InfosAt(Reached).barrels) = m
      /\ \A i \in 1..m : InfosAt(Reached).barrels[i] = keeper.barrels[i]
      /\ New' = Reached + 1
      /\ keeper.barrels[m + 1].id = Reached + 1
      /\ work'.docs = pending[1].docs
      /\ dirs' = [dirs EXCEPT ![Reached + 1] = [NoDir EXCEPT !.state = "filling"]]
      /\ UNCHANGED <<commits, keeper>>
  BY TakenBatch
<1>2. IsSequence(pending) /\ Len(pending) \in Nat /\ Len(pending) # 0
  BY <1>1, SequenceShape DEF SoundInv, DiskInv, MemoryShape
<1>3. /\ Len(pending') = Len(pending) - 1
      /\ \A i \in 1..(Len(pending) - 1) : pending'[i] = pending[i + 1]
  BY <1>1, <1>2, TailSequence
<1>4. n \in Nat /\ n = m + Len(pending)
  <2>1. Ordered(keeper.barrels)
    BY <1>1 DEF PlacesInv, KeeperInv, IsIndex
  <2>2. n \in Nat
    BY <2>1, SequenceShape DEF Ordered
  <2>3. m = n - Len(pending)
    BY DEF Committed
  <2> QED
    BY <1>2, <2>2, <2>3
<1>5. Committed' = m + 1
  <2>1. Committed' = n - Len(pending')
    BY <1>1 DEF Committed
  <2> QED
    BY <1>1, <1>2, <1>3, <1>4, <2>1
<1>6. ASSUME NEW j \in 1..m PROVE DocsIn(keeper.barrels[j].id)' = DocsInKeeper(j)
  <2> DEFINE b == keeper.barrels[j]
  <2>1. Reached \in Ids
    <3>1. Reached # INVALID_COMMIT
      <4> SUFFICES ASSUME Reached = INVALID_COMMIT PROVE FALSE
        OBVIOUS
      <4>1. InfosAt(Reached).barrels = <<>>
        BY DEF InfosAt, NoBarrels
      <4>2. m = 0
        BY <1>1, <4>1, EmptySequence
      <4> QED
        BY <4>2
    <3> QED
      BY <1>1, <3>1
  <2>2. InfosAt(Reached).barrels = commits[Reached].barrels
    BY <2>1, IdsAreNumbers DEF InfosAt
  <2>3. b \in Range(commits[Reached].barrels)
    <3>1. IsSequence(commits[Reached].barrels)
      BY <2>1 DEF SoundInv, DiskInv, DiskShape, IsFile
    <3>2. b = commits[Reached].barrels[j] /\ j \in 1..Len(commits[Reached].barrels)
      BY <1>1, <2>2
    <3> HIDE DEF b
    <3> QED
      BY <3>1, <3>2, SequenceShape
  <2>4. b.id \in Ids /\ b.id <= Reached /\ DocsIn(b.id) = dirs[b.id].docs
    <3> HIDE DEF b
    <3> QED
      BY <2>1, <2>3, ListedBarrels DEF SoundInv
  <2>5. b.id # Reached + 1
    BY <2>1, <2>4, IdIsNumber
  <2>6. dirs'[b.id] = dirs[b.id]
    BY <1>1, <2>4, <2>5 DEF SoundInv, DiskInv, DiskShape
  <2>7. DocsIn(b.id)' = dirs[b.id].docs
    BY <1>1, <2>5, <2>6 DEF DocsIn
  <2>8. DocsInKeeper(j) = DocsIn(b.id)
    <3>1. j <= Committed
      BY <1>1
    <3> QED
      BY <3>1 DEF DocsInKeeper
  <2> QED
    BY <2>4, <2>7, <2>8
<1>7. DocsIn(keeper.barrels[m + 1].id)' = DocsInKeeper(m + 1)
  <2>1. DocsIn(keeper.barrels[m + 1].id)' = work'.docs
    BY <1>1 DEF DocsIn, Writes
  <2>2. ~(m + 1 <= Committed) /\ m + 1 - Committed = 1
    <3>1. m = Committed /\ Committed \in Nat
      BY <1>1
    <3> QED
      BY <3>1
  <2>3. DocsInKeeper(m + 1) = pending[1].docs
    BY <1>1, <2>2 DEF DocsInKeeper
  <2> QED
    BY <1>1, <2>1, <2>3
<1>8. ASSUME NEW j \in 1..(m + 1) PROVE j \in 1..n /\ DocsIn(keeper.barrels[j].id)' = DocsInKeeper(j)
  <2>1. (j \in 1..m \/ j = m + 1) /\ j \in 1..n
    <3> QED
      BY <1>1, <1>4
  <2> QED
    BY <1>6, <1>7, <2>1
<1>9. ASSUME NEW j \in 1..n PROVE DocsInKeeper(j)' = DocsInKeeper(j)
  <2>1. CASE j \in 1..(m + 1)
    <3>1. j <= Committed'
      <4> QED
        BY <1>1, <1>5, <2>1
    <3>2. DocsInKeeper(j)' = DocsIn(keeper.barrels[j].id)'
      BY <3>1 DEF DocsInKeeper
    <3> QED
      BY <1>8, <2>1, <3>2
  <2>2. CASE j \notin 1..(m + 1)
    <3>1. /\ ~(j <= m + 1) /\ ~(j <= m)
          /\ j - m - 1 \in 1..(Len(pending) - 1) /\ (j - m - 1) + 1 = j - m
          /\ j - (m + 1) = j - m - 1
      <4> PICK l : l = Len(pending)
        OBVIOUS
      <4>1. l \in Nat /\ m \in Nat /\ n = m + l /\ j \in Int /\ 1 <= j /\ j <= n
        BY <1>1, <1>2, <1>4
      <4>2. j > m + 1
        BY <2>2, <4>1
      <4>3. j - m - 1 \in 1..(l - 1)
        BY <4>1, <4>2
      <4> QED
        BY <4>1, <4>2, <4>3
    <3>2. DocsInKeeper(j)' = pending'[j - (m + 1)].docs
      BY <1>5, <3>1 DEF DocsInKeeper
    <3>3. DocsInKeeper(j) = pending[j - m].docs
      BY <3>1 DEF DocsInKeeper
    <3>4. pending'[j - m - 1] = pending[(j - m - 1) + 1]
      BY <1>3, <3>1
    <3> QED
      BY <3>1, <3>2, <3>3, <3>4
  <2> QED
    BY <2>1, <2>2
<1> QED
  BY <1>5, <1>8, <1>9

\* The list that is written stays apart: it is continued, ...
LEMMA WorkStaysApart ==
  ASSUME SoundInv, ListsApart, pc' \in Writes => pc \in Writes /\ UNCHANGED <<work>>,
         \A d \in Ids : pc' \in Writes /\ d # New => dirs'[d] = dirs[d]
  PROVE  pc' \in Writes => Apart(Range(work.infos.barrels))'
<1> SUFFICES ASSUME pc' \in Writes PROVE Apart(Range(work.infos.barrels))'
  OBVIOUS
<1>1. pc \in Writes /\ work' = work /\ New' = New
  BY DEF New
<1>2. ASSUME NEW b \in Range(work.infos.barrels) PROVE DocsIn(b.id)' = DocsIn(b.id)
  <2>1. CASE b.id = New
    BY <1>1, <2>1 DEF DocsIn
  <2>2. CASE b.id # New
    <3>1. b.id \in Ids
      <4>1. b.id \in 0..(New - 1) /\ New \in Nat /\ New <= MaxCommit
        BY <1>1, <2>2, IdIsNumber, IdsAreNumbers DEF SoundInv, DiskInv, WorkIntact, Ids
      <4> QED
        BY <4>1, IdsAreNumbers DEF Ids
    <3>2. dirs'[b.id] = dirs[b.id]
      BY <2>2, <3>1
    <3> QED
      BY <1>1, <2>2, <3>2 DEF DocsIn
  <2> QED
    BY <2>1, <2>2
<1>3. Apart(Range(work.infos.barrels))
  BY <1>1 DEF ListsApart
<1> QED
  BY <1>1, <1>2, <1>3 DEF Apart

\* ... or begun with a batch ...
LEMMA TakeBatchKeepsApart ==
  ASSUME SoundInv, PlacesInv, TakeBatch
  PROVE  Apart(Range(work.infos.barrels))'
<1> PICK m, s : m = Committed /\ s = work'.infos.barrels
  OBVIOUS
<1>1. /\ Writing /\ m \in Nat /\ Len(s) = m + 1
      /\ \A i \in 1..(m + 1) : s[i] = keeper.barrels[i]
  BY TakenBatch
<1>2. \A j \in 1..(m + 1) :
         j \in 1..Len(keeper.barrels) /\ DocsIn(keeper.barrels[j].id)' = DocsInKeeper(j)
  BY TakenDocs
<1>3. IsSequence(s)
  <2>1. ListInv'
    BY TakeBatchKeepsLists DEF SoundInv
  <2> QED
    BY <2>1 DEF ListInv, IsIndex, IsList
<1>4. ASSUME NEW b \in Range(s) PROVE \E i \in 1..(m + 1) : b = keeper.barrels[i]
  <2>1. PICK i \in 1..Len(s) : b = s[i]
    BY <1>3, SequenceShape
  <2> QED
    BY <1>1, <2>1
<1>5. ASSUME NEW b \in Range(s), NEW d \in Range(s), NEW p \in 1..b.count, NEW q \in 1..d.count,
             DocsIn(b.id)'[p] = DocsIn(d.id)'[q]
      PROVE  b = d /\ p = q
  <2>1. PICK i \in 1..(m + 1) : b = keeper.barrels[i]
    BY <1>4
  <2>2. PICK k \in 1..(m + 1) : d = keeper.barrels[k]
    BY <1>4
  <2>3. i \in 1..Len(keeper.barrels) /\ k \in 1..Len(keeper.barrels)
    BY <1>2
  <2>4. DocsInKeeper(i)[p] = DocsInKeeper(k)[q]
    <3>1. DocsIn(b.id)' = DocsInKeeper(i) /\ DocsIn(d.id)' = DocsInKeeper(k)
      BY <1>2, <2>1, <2>2, TakenBatch DEF DocsIn
    <3> QED
      BY <1>5, <3>1
  <2>5. i = k /\ p = q
    BY <1>1, <2>1, <2>2, <2>3, <2>4, KeeperApart DEF PlacesInv
  <2> QED
    BY <2>1, <2>2, <2>5
<1> QED
  BY <1>5 DEF Apart

\* w has some of the elements of s, each place once
IsPiece(w, s, to) ==
    /\ \A k \in 1..Len(w) : to[k] \in 1..Len(s) /\ w[k] = s[to[k]]
    /\ \A k, l \in 1..Len(w) : k # l => to[k] # to[l]

\* docs has some documents of the barrels, each place once
IsMade(docs, barrels, which, home) ==
    /\ \A k \in 1..Len(docs) :
          /\ which[k] \in 1..Len(barrels)
          /\ home[k] \in 1..Len(dirs[barrels[which[k]].id].docs)
          /\ docs[k] = dirs[barrels[which[k]].id].docs[home[k]]
    /\ \A k, l \in 1..Len(docs) : k # l /\ which[k] = which[l] => home[k] # home[l]

LEMMA PieceFrom ==
  ASSUME NEW b, IsSequence(dirs[b].docs), NEW gone
  PROVE  \E to : IsPiece(Without(b, gone), dirs[b].docs, to)
<1> PICK w, s : w = Without(b, gone) /\ s = dirs[b].docs
  OBVIOUS
<1>1. IsSequence(w) /\ Len(w) \in Nat /\ Len(s) \in Nat
  BY WithoutIsSequence, SequenceShape
<1>2. \E to \in [1..Len(Without(b, gone)) -> {i \in 1..Len(dirs[b].docs) : i - 1 \notin gone}] :
               /\ \A k \in 1..Len(Without(b, gone)) : Without(b, gone)[k] = dirs[b].docs[to[k]]
               /\ \A k, l \in 1..Len(Without(b, gone)) : k < l => to[k] < to[l]
  BY WithoutIsSequence
<1>3. PICK to :
               /\ to \in [1..Len(Without(b, gone)) -> {i \in 1..Len(dirs[b].docs) : i - 1 \notin gone}]
               /\ \A k \in 1..Len(Without(b, gone)) : Without(b, gone)[k] = dirs[b].docs[to[k]]
               /\ \A k, l \in 1..Len(Without(b, gone)) : k < l => to[k] < to[l]
  BY <1>2
<1>4. ASSUME NEW k \in 1..Len(w) PROVE to[k] \in 1..Len(s) /\ w[k] = s[to[k]]
  BY <1>3
<1>5. ASSUME NEW k \in 1..Len(w), NEW l \in 1..Len(w), k # l PROVE to[k] # to[l]
  <2>1. k < l \/ l < k
    BY <1>1, <1>5
  <2>2. (k < l => to[k] < to[l]) /\ (l < k => to[l] < to[k])
    BY <1>3
  <2>3. to[k] \in Nat /\ to[l] \in Nat
    BY <1>1, <1>4
  <2> QED
    BY <2>1, <2>2, <2>3
<1>6. IsPiece(w, s, to)
  BY <1>4, <1>5 DEF IsPiece
<1> QED
  BY <1>6

LEMMA MergedFrom ==
  ASSUME NEW proposal, IsSequence(proposal.barrels),
         \A i \in 1..Len(proposal.barrels) : IsSequence(dirs[proposal.barrels[i].id].docs)
  PROVE  \E which, home : IsMade(MergedDocs(proposal), proposal.barrels, which, home)
<1>1. LET u == MergedDocs(proposal)
          m == Len(proposal.barrels)
      IN \E from \in [1..Len(u) -> (1..m) \X Nat] :
            /\ \A k \in 1..Len(u) :
                  /\ from[k][2] \in 1..Len(PieceOf(proposal, proposal.barrels[from[k][1]]))
                  /\ u[k] = PieceOf(proposal, proposal.barrels[from[k][1]])[from[k][2]]
            /\ \A k, l \in 1..Len(u) : k # l => from[k] # from[l]
  BY MergedDocsAre
<1> PICK docs, n : docs = MergedDocs(proposal) /\ n = Len(proposal.barrels)
  OBVIOUS
<1>2. PICK from :
         /\ from \in [1..Len(docs) -> (1..n) \X Nat]
         /\ \A k \in 1..Len(docs) :
                /\ from[k][2] \in 1..Len(PieceOf(proposal, proposal.barrels[from[k][1]]))
                /\ docs[k] = PieceOf(proposal, proposal.barrels[from[k][1]])[from[k][2]]
         /\ \A k, l \in 1..Len(docs) : k # l => from[k] # from[l]
  BY SMTT(60), <1>1
<1>3. ASSUME NEW k \in 1..Len(docs) PROVE from[k] = <<from[k][1], from[k][2]>> /\ from[k][1] \in 1..n
  <2>1. from[k] \in (1..n) \X Nat
    BY <1>2
  <2> QED
    BY <2>1
<1> DEFINE Is(i, f) == IsPiece(PieceOf(proposal, proposal.barrels[i]), dirs[proposal.barrels[i].id].docs, f)
<1>4. ASSUME NEW i \in 1..n PROVE \E f : Is(i, f)
  BY PieceFrom DEF PieceOf
<1> DEFINE to == [i \in 1..n |-> CHOOSE f : Is(i, f)]
<1>5. ASSUME NEW i \in 1..n PROVE Is(i, to[i])
  <2>1. to[i] = CHOOSE f : Is(i, f)
    OBVIOUS
  <2> HIDE DEF Is, to
  <2> QED
    BY <1>4, <2>1
<1> DEFINE which == [k \in 1..Len(docs) |-> from[k][1]]
           home == [k \in 1..Len(docs) |-> to[from[k][1]][from[k][2]]]
<1>6. \A k \in 1..Len(docs) : which[k] = from[k][1] /\ home[k] = to[from[k][1]][from[k][2]]
  OBVIOUS
<1> HIDE DEF to, which, home
<1>7. ASSUME NEW k \in 1..Len(docs)
      PROVE  /\ which[k] \in 1..n
             /\ home[k] \in 1..Len(dirs[proposal.barrels[which[k]].id].docs)
             /\ docs[k] = dirs[proposal.barrels[which[k]].id].docs[home[k]]
  <2>1. \E i, r, f : i = from[k][1] /\ r = from[k][2] /\ f = to[i]
    OBVIOUS
  <2>2. PICK i, r, f : i = from[k][1] /\ r = from[k][2] /\ f = to[i]
    BY <2>1
  <2>3. i \in 1..n /\ Is(i, f) /\ which[k] = i /\ home[k] = f[r]
        /\ r \in 1..Len(PieceOf(proposal, proposal.barrels[i]))
        /\ docs[k] = PieceOf(proposal, proposal.barrels[i])[r]
    <3>1. i \in 1..n
      BY <1>3, <2>2
    <3> HIDE DEF Is
    <3>2. Is(i, f)
      BY <1>5, <2>2, <3>1
    <3> QED
      BY <1>2, <1>6, <2>2, <3>1, <3>2
  <2>4. /\ f[r] \in 1..Len(dirs[proposal.barrels[i].id].docs)
        /\ PieceOf(proposal, proposal.barrels[i])[r] = dirs[proposal.barrels[i].id].docs[f[r]]
    BY <2>3 DEF IsPiece
  <2> HIDE DEF Is
  <2> QED
    BY <2>3, <2>4
<1>8. ASSUME NEW k \in 1..Len(docs), NEW l \in 1..Len(docs), k # l, which[k] = which[l]
      PROVE  home[k] # home[l]
  <2>1. \E i, r, t, f : i = from[k][1] /\ r = from[k][2] /\ t = from[l][2] /\ f = to[i]
    OBVIOUS
  <2>2. PICK i, r, t, f : i = from[k][1] /\ r = from[k][2] /\ t = from[l][2] /\ f = to[i]
    BY <2>1
  <2>3. i = from[l][1] /\ from[k] = <<i, r>> /\ from[l] = <<i, t>> /\ i \in 1..n
    BY <1>3, <1>6, <1>8, <2>2
  <2>4. r # t
    BY ZenonT(60), <1>2, <1>8, <2>3
  <2>5. Is(i, f)
    <3> HIDE DEF Is
    <3> QED
      BY <1>5, <2>2, <2>3
  <2>6. /\ r \in 1..Len(PieceOf(proposal, proposal.barrels[i]))
        /\ t \in 1..Len(PieceOf(proposal, proposal.barrels[i]))
    BY <1>2, <2>2, <2>3
  <2>7. f[r] # f[t]
    BY <2>4, <2>5, <2>6 DEF IsPiece
  <2> HIDE DEF Is
  <2>8. home[k] = f[r] /\ home[l] = f[t]
    BY <1>6, <2>2, <2>3
  <2> QED
    BY <2>7, <2>8
<1>9. IsMade(docs, proposal.barrels, which, home)
  <2> HIDE DEF Is
  <2> QED
    BY <1>7, <1>8 DEF IsMade
<1> QED
  BY <1>9


\* the turn of the merge: a part of the list gives way to a new barrel
IsMerge(part, new, which, home) ==
    /\ Ordered(part.barrels) /\ Range(part.barrels) \subseteq Range(work.infos.barrels)
    /\ part.commit \in Ids /\ part.commit <= New
    /\ \A b \in Range(part.barrels) : b.id <= part.commit
    /\ Range(work.infos.barrels)' = (Range(work.infos.barrels) \ Range(part.barrels)) \cup {new}
    /\ new.id = New + 1 /\ new.count = Len(work.docs') /\ new.deleted = 0
    /\ work.docs' = MergedDocs(part)
    /\ IsMade(MergedDocs(part), part.barrels, which, home)
    /\ Range(work.docs') = UNION {Range(PieceOf(part, part.barrels[i])) : i \in 1..Len(part.barrels)}

LEMMA MergedProposal ==
  ASSUME SoundInv, MergeProposal
  PROVE  /\ pc = "proposal" /\ pc' = "data" /\ New \in Ids /\ New + 1 \in Ids /\ New' = New + 1
         /\ IsLast(New) /\ commits[New] = [state |-> "whole", barrels |-> work.infos.barrels]
         /\ dirs' = [dirs EXCEPT ![New + 1] = [NoDir EXCEPT !.state = "filling"]]
         /\ UNCHANGED <<commits, status, building, keeper, filter, bits, keyIndex, pending, handedIn, asked>>
         /\ IsSequence(work.docs')
         /\ \E part, new, which, home : part = Head(merging.proposals) /\ IsMerge(part, new, which, home)
<1>0. \E part : part = Head(merging.proposals)
  OBVIOUS
<1>00. PICK part : part = Head(merging.proposals)
  BY <1>0
<1> DEFINE docs == MergedDocs(part)
           rest == WithoutBarrels(work.infos, part)
           list == NewBarrel(rest, Len(docs), 0)
           new == Last(list.barrels)
<1>1. /\ work' = [work EXCEPT !.infos = list, !.docs = docs]
      /\ dirs' = [dirs EXCEPT ![New + 1] = [NoDir EXCEPT !.state = "filling"]]
      /\ UNCHANGED <<commits, status, building, keeper, filter, bits, keyIndex, pending, handedIn, asked>>
      /\ pc = "proposal" /\ pc' = "data" /\ New < MaxCommit
  BY <1>00 DEF MergeProposal, history
<1>2. /\ SoundParts(merging.proposals, work.infos) /\ merging.proposals # <<>>
      /\ IsSequence(merging.proposals)
  BY <1>1 DEF SoundInv, ListInv, SoundParts
<1>3. 1 \in 1..Len(merging.proposals) /\ part = merging.proposals[1]
  BY <1>00, <1>2, TailSequence, SequenceShape
<1>4. /\ Ordered(part.barrels) /\ Range(part.barrels) \subseteq Range(work.infos.barrels)
      /\ part.commit \in Ids /\ part.commit <= New
      /\ \A b \in Range(part.barrels) : b.id <= part.commit
  BY <1>2, <1>3 DEF SoundParts, New
<1>5. New \in Ids /\ New \in Nat /\ IsLast(New) /\ commits[New] = [state |-> "whole", barrels |-> work.infos.barrels]
  BY <1>1, IdIsNumber DEF SoundInv, DiskInv, WorkIntact
<1>6. work'.infos = list /\ work'.docs = docs
  BY <1>1 DEF SoundInv, DiskInv, ThreadShape
<1>7. IsSequence(part.barrels)
  BY <1>4 DEF Ordered
<1>8. \A i \in 1..Len(part.barrels) : IsSequence(dirs[part.barrels[i].id].docs)
  BY <1>4 DEF Ordered, SoundInv, DocsShape
<1>9. /\ IsSequence(MergedDocs(part))
      /\ Range(MergedDocs(part)) = UNION {Range(PieceOf(part, part.barrels[i])) : i \in 1..Len(part.barrels)}
  BY <1>7, <1>8, MergedDocsAre
<1>10. PICK which, home : IsMade(MergedDocs(part), part.barrels, which, home)
  BY <1>7, <1>8, MergedFrom
<1> HIDE DEF docs
<1>11. IsSequence(docs) /\ Len(docs) \in Nat
  BY <1>9, SequenceShape DEF docs
<1>12. /\ IsIndex(rest) /\ rest.commit = New
       /\ Range(rest.barrels) = Range(work.infos.barrels) \ Range(part.barrels)
  BY RestIsIndex DEF SoundInv, ListInv, New
<1> HIDE DEF rest
<1>13. /\ list.commit = New + 1 /\ New + 1 \in Ids
       /\ new.id = New + 1 /\ new.count = Len(docs) /\ new.deleted = 0
       /\ Range(list.barrels) = (Range(work.infos.barrels) \ Range(part.barrels)) \cup {new}
  <2>0. \E n : n = Len(docs)
    OBVIOUS
  <2>1. PICK n : n = Len(docs)
    BY <2>0
  <2>2. n \in Nat /\ 0 \in Nat /\ IsIndex(rest) /\ rest.commit < MaxCommit
    BY <1>1, <1>11, <1>12, <2>1
  <2>3. LET u == NewBarrel(rest, n, 0)
            last == Last(u.barrels)
        IN /\ IsIndex(u) /\ u.commit = rest.commit + 1 /\ rest.commit + 1 \in Ids
           /\ Len(u.barrels) = Len(rest.barrels) + 1
           /\ \A i \in 1..Len(rest.barrels) : u.barrels[i] = rest.barrels[i]
           /\ u.barrels[Len(rest.barrels) + 1] = last
           /\ last = [id |-> rest.commit + 1, base |-> NextBase(rest), count |-> n, deleted |-> 0]
           /\ NextBase(rest) \in Nat
           /\ Range(u.barrels) = Range(rest.barrels) \cup {last}
    <3> HIDE DEF list, new
    <3> QED
      BY ZenonT(60), <2>2, NewBarrelExtends
  <2>4. /\ list.commit = rest.commit + 1 /\ rest.commit + 1 \in Ids
        /\ new = [id |-> rest.commit + 1, base |-> NextBase(rest), count |-> n, deleted |-> 0]
        /\ Range(list.barrels) = Range(rest.barrels) \cup {new}
    BY <2>1, <2>3
  <2> HIDE DEF list, new
  <2> QED
    BY <1>12, <2>1, <2>4
<1> HIDE DEF list, new
<1>14. New' = New + 1
  BY <1>6, <1>13 DEF New
<1>15. IsMerge(part, new, which, home)
  <2>1. /\ Range(work.infos.barrels)' = (Range(work.infos.barrels) \ Range(part.barrels)) \cup {new}
        /\ new.count = Len(work.docs') /\ work.docs' = MergedDocs(part)
    BY <1>6, <1>13 DEF docs
  <2>2. Range(work.docs') = UNION {Range(PieceOf(part, part.barrels[i])) : i \in 1..Len(part.barrels)}
    BY <1>9, <2>1
  <2> QED
    BY <1>4, <1>10, <1>13, <2>1, <2>2 DEF IsMerge
<1>16. \E a, b, c, d : a = Head(merging.proposals) /\ IsMerge(a, b, c, d)
  <2> WITNESS part, new, which, home
  <2> QED
    BY <1>00, <1>15
<1>17. IsSequence(work.docs')
  BY <1>6, <1>11
<1> QED
  BY <1>1, <1>5, <1>13, <1>14, <1>16, <1>17

\* ... or by a merge.
LEMMA MergeProposalKeepsApart ==
  ASSUME SoundInv, ListsApart, MergeProposal
  PROVE  Apart(Range(work.infos.barrels))'
<1>1. /\ pc = "proposal" /\ pc' = "data" /\ New \in Ids /\ New + 1 \in Ids /\ New' = New + 1
      /\ commits[New] = [state |-> "whole", barrels |-> work.infos.barrels]
      /\ dirs' = [dirs EXCEPT ![New + 1] = [NoDir EXCEPT !.state = "filling"]]
      /\ IsSequence(work.docs')
      /\ \E part, new, which, home : part = Head(merging.proposals) /\ IsMerge(part, new, which, home)
  BY MergedProposal
<1>2. PICK part, new, which, home : IsMerge(part, new, which, home)
  BY <1>1
<1>3. PICK docs, S : docs = work.docs' /\ S = Range(work.infos.barrels)
  OBVIOUS
<1>4. S = Range(commits[New].barrels) /\ Apart(S)
  BY <1>1, <1>3 DEF ListsApart
<1>5. ASSUME NEW b \in S
      PROVE  /\ b.id \in Ids /\ b.id # New + 1 /\ DocsIn(b.id) = dirs[b.id].docs
             /\ DocsIn(b.id)' = dirs[b.id].docs /\ Len(dirs[b.id].docs) = b.count
  <2>1. b.id \in Ids /\ b.id <= New /\ DocsIn(b.id) = dirs[b.id].docs /\ Intact(b)
    BY <1>1, <1>4, ListedBarrels DEF SoundInv
  <2>2. b.id # New + 1
    BY <1>1, <2>1, IdIsNumber
  <2>3. dirs'[b.id] = dirs[b.id]
    BY <1>1, <2>1, <2>2 DEF SoundInv, DiskInv, DiskShape
  <2>4. DocsIn(b.id)' = dirs'[b.id].docs
    BY <1>1, <2>2 DEF DocsIn
  <2> QED
    BY <2>1, <2>2, <2>3, <2>4 DEF Intact
<1>6. DocsIn(new.id)' = docs /\ new.count = Len(docs)
  BY <1>1, <1>2, <1>3 DEF IsMerge, DocsIn, Writes
<1> DEFINE P == Range(part.barrels)
           d(k) == part.barrels[which[k]]
<1>7. Range(work.infos.barrels)' = (S \ P) \cup {new} /\ P \subseteq S
  BY <1>2, <1>3 DEF IsMerge
<1>8. ASSUME NEW k \in 1..Len(docs)
      PROVE  /\ which[k] \in 1..Len(part.barrels) /\ d(k) \in P
             /\ home[k] \in 1..d(k).count /\ docs[k] = DocsIn(d(k).id)[home[k]]
  <2>1. /\ which[k] \in 1..Len(part.barrels) /\ home[k] \in 1..Len(dirs[d(k).id].docs)
        /\ docs[k] = dirs[d(k).id].docs[home[k]]
    BY <1>2, <1>3 DEF IsMerge, IsMade
  <2>2. d(k) \in P
    BY SMTT(60), <1>2, <2>1, SequenceShape DEF IsMerge, Ordered
  <2>3. Len(dirs[d(k).id].docs) = d(k).count /\ DocsIn(d(k).id) = dirs[d(k).id].docs
    BY <1>5, <1>7, <2>2
  <2> QED
    BY <2>1, <2>2, <2>3
<1>9. ASSUME NEW b \in S \ P, NEW p \in 1..b.count, NEW k \in 1..Len(docs) PROVE DocsIn(b.id)[p] # docs[k]
  <2>1. d(k) # b /\ d(k) \in S
    BY <1>7, <1>8
  <2> HIDE DEF d, P
  <2> QED
    BY <1>4, <1>8, <2>1 DEF Apart
<1>10. ASSUME NEW k \in 1..Len(docs), NEW l \in 1..Len(docs), docs[k] = docs[l] PROVE k = l
  <2>1. d(k) = d(l) /\ home[k] = home[l]
    <3>1. d(k) \in S /\ d(l) \in S
      BY <1>7, <1>8
    <3> HIDE DEF d, P
    <3> QED
      BY <1>4, <1>8, <1>10, <3>1 DEF Apart
  <2>2. which[k] = which[l]
    <3>1. which[k] \in 1..Len(part.barrels) /\ which[l] \in 1..Len(part.barrels) /\ Ordered(part.barrels)
      BY <1>2, <1>8 DEF IsMerge
    <3>2. part.barrels[which[k]].id = part.barrels[which[l]].id
      BY <2>1
    <3> HIDE DEF d, P
    <3> QED
      BY <3>1, <3>2, OrderedIsInjective
  <2> QED
    BY <1>2, <1>3, <2>1, <2>2 DEF IsMerge, IsMade
<1>11. ASSUME NEW b \in (S \ P) \cup {new}, NEW e \in (S \ P) \cup {new},
              NEW p \in 1..b.count, NEW q \in 1..e.count, DocsIn(b.id)'[p] = DocsIn(e.id)'[q]
       PROVE  b = e /\ p = q
  <2> HIDE DEF d, P
  <2>1. CASE b \in S \ P /\ e \in S \ P
    <3>1. DocsIn(b.id)[p] = DocsIn(e.id)[q]
      BY <1>5, <1>11, <2>1
    <3> QED
      BY <1>4, <2>1, <3>1 DEF Apart
  <2>2. CASE b \in S \ P /\ e = new
    <3>1. DocsIn(b.id)[p] = docs[q] /\ q \in 1..Len(docs)
      BY <1>5, <1>6, <1>11, <2>2
    <3> QED
      BY <1>9, <2>2, <3>1
  <2>3. CASE b = new /\ e \in S \ P
    <3>1. DocsIn(e.id)[q] = docs[p] /\ p \in 1..Len(docs)
      BY <1>5, <1>6, <1>11, <2>3
    <3> QED
      BY <1>9, <2>3, <3>1
  <2>4. CASE b = new /\ e = new
    <3>1. docs[p] = docs[q] /\ q \in 1..Len(docs) /\ p \in 1..Len(docs)
      BY <1>6, <1>11, <2>4
    <3> QED
      BY <1>10, <2>4, <3>1
  <2> QED
    BY <2>1, <2>2, <2>3, <2>4
<1> HIDE DEF P
<1> QED
  BY <1>7, <1>11 DEF Apart

\* Where the thread writes it goes on with the same work, unless it begins.
LEMMA WorkGoesOn ==
  ASSUME DiskInv, [WriterNext]_storeVars
  PROVE  \/ TakeBatch \/ MergeProposal
         \/ /\ pc' \in Writes => pc \in Writes /\ UNCHANGED work
            /\ \A d \in Ids : pc' \in Writes /\ d # New => dirs'[d] = dirs[d]
<1>1. CASE Open \/ Add \/ Seal \/ Close \/ (\E d \in Documents : DeleteOnDisk(d) \/ DeleteInMemory(d))
           \/ UNCHANGED storeVars
  BY <1>1 DEF Open, Add, Seal, Close, DeleteOnDisk, DeleteInMemory, storeVars, disk, thread
<1>2. CASE WriteData \/ WriteDeletions \/ WriteRest
  <2>1. pc \in Writes /\ UNCHANGED work
    BY <1>2 DEF WriteData, WriteDeletions, WriteRest, Writes
  <2>2. \A d \in Ids : d # New => dirs'[d] = dirs[d]
    BY <1>2 DEF WriteData, WriteDeletions, WriteRest, DiskInv, DiskShape
  <2> QED
    BY <2>1, <2>2
<1>3. CASE CreateCommitFile
  BY <1>3 DEF CreateCommitFile, Writes
<1>4. CASE WriteCommitFile \/ Cleaned \/ Merge \/ MergeAborts \/ Crash \/ AnyMerge
  <2>1. pc' \notin Writes
    BY <1>4 DEF WriteCommitFile, Cleaned, Merge, MergeAborts, Crash, AnyMerge, MergeWith, Writes
  <2> QED
    BY <2>1
<1>5. CASE DropCommit \/ Reserve \/ RemoveDir
  <2>1. pc' \notin Writes
    BY <1>5 DEF DropCommit, Reserve, RemoveDir, Writes
  <2> QED
    BY <2>1
<1>6. CASE CommitThread
  BY <1>2, <1>3, <1>4, <1>5, <1>6 DEF CommitThread
<1> QED
  BY <1>1, <1>4, <1>6, LastMergeIsAny DEF WriterNext, StoreNext

LEMMA StepKeepsApart == SoundInv /\ PlacesInv /\ [WriterNext]_storeVars => ListsApart'
<1> SUFFICES ASSUME SoundInv, PlacesInv, [WriterNext]_storeVars PROVE ListsApart'
  OBVIOUS
<1>1. DiskInv /\ ListsApart
  BY DEF SoundInv, PlacesInv
<1>2. \A c \in Ids : Apart(Range(commits[c].barrels))'
  BY <1>1, DiskApart
<1>3. pc' \in Writes => Apart(Range(work.infos.barrels))'
  <2>1. CASE TakeBatch \/ MergeProposal
    BY <1>1, <2>1, TakeBatchKeepsApart, MergeProposalKeepsApart
  <2>2. CASE /\ pc' \in Writes => pc \in Writes /\ UNCHANGED work
             /\ \A d \in Ids : pc' \in Writes /\ d # New => dirs'[d] = dirs[d]
    <3>1. pc' \in Writes => pc \in Writes /\ UNCHANGED <<work>>
      BY <2>2
    <3>2. \A d \in Ids : pc' \in Writes /\ d # New => dirs'[d] = dirs[d]
      BY <2>2
    <3> QED
      BY <1>1, <3>1, <3>2, WorkStaysApart
  <2> QED
    BY <1>1, <2>1, <2>2, WorkGoesOn
<1> QED
  BY <1>2, <1>3 DEF ListsApart

-----------------------------------------------------------------------------
(* Documents are those handed in *)

\* What a step does to a directory's documents
\* who changes the directories
LEMMA DirSteps ==
  ASSUME [WriterNext]_storeVars
  PROVE  UNCHANGED dirs \/ WriteData \/ WriteRest \/ WriteDeletions \/ TakeBatch \/ MergeProposal \/ RemoveDir
<1>1. CASE CommitThread
  BY <1>1 DEF CommitThread, CreateCommitFile, WriteCommitFile,
     DropCommit, Reserve, Cleaned, Merge, MergeAborts, disk
<1>2. CASE Open \/ Add \/ Seal \/ Close \/ AnyMerge \/ Crash
  BY <1>2 DEF Open, Add, Seal, Close, AnyMerge, MergeWith, Crash, disk
<1>3. CASE \E d \in Documents : DeleteOnDisk(d) \/ DeleteInMemory(d)
  BY <1>3 DEF DeleteOnDisk, DeleteInMemory, disk
<1> QED
  BY <1>1, <1>2, <1>3, LastMergeIsAny DEF WriterNext, StoreNext, storeVars, disk

LEMMA DocsGoOn ==
  ASSUME DiskInv, [WriterNext]_storeVars, NEW c \in Ids
  PROVE  dirs'[c].docs \in {dirs[c].docs, work.docs, <<>>}
<1>0. dirs = [d \in Ids |-> dirs[d]] /\ NoDir.docs = <<>>
  BY DEF DiskInv, DiskShape, NoDir
<1>1. CASE UNCHANGED dirs
  BY <1>1
<1>2. CASE WriteData \/ WriteDeletions \/ WriteRest
  <2>1. IsDir(dirs[c])
    BY DEF DiskInv, DiskShape
  <2>2. dirs[c] = [state |-> dirs[c].state, docs |-> dirs[c].docs, deletions |-> dirs[c].deletions]
    BY <2>1 DEF IsDir
  <2>3. \/ dirs' = [dirs EXCEPT ![New].docs = work.docs]
        \/ dirs' = [dirs EXCEPT ![New].deletions = [b \in work.dirty |-> bits[b]]]
        \/ dirs' = dirs
        \/ dirs' = [dirs EXCEPT ![New].state = "whole"]
    BY <1>2 DEF WriteData, WriteDeletions, WriteRest
  <2>4. \/ dirs'[c] = [dirs[c] EXCEPT !.docs = work.docs]
        \/ dirs'[c] = [dirs[c] EXCEPT !.deletions = [b \in work.dirty |-> bits[b]]]
        \/ dirs'[c] = dirs[c]
        \/ dirs'[c] = [dirs[c] EXCEPT !.state = "whole"]
    BY <1>0, <2>3
  <2>5. \/ dirs'[c] = [state |-> dirs[c].state, docs |-> work.docs, deletions |-> dirs[c].deletions]
        \/ dirs'[c] = [state |-> dirs[c].state, docs |-> dirs[c].docs, deletions |-> [b \in work.dirty |-> bits[b]]]
        \/ dirs'[c] = dirs[c]
        \/ dirs'[c] = [state |-> "whole", docs |-> dirs[c].docs, deletions |-> dirs[c].deletions]
    BY <2>2, <2>4
  <2> QED
    BY <2>5
<1>3. CASE TakeBatch
  <2>1. PICK k \in Ids \cup {INVALID_COMMIT} : dirs' = [dirs EXCEPT ![k + 1] = [NoDir EXCEPT !.state = "filling"]]
    BY <1>3 DEF TakeBatch
  <2> QED
    BY <1>0, <2>1 DEF NoDir
<1>4. CASE MergeProposal
  BY <1>0, <1>4 DEF MergeProposal, NoDir
<1>5. CASE RemoveDir
  <2>1. PICK k \in stale : dirs' = [dirs EXCEPT ![k] = NoDir]
    BY <1>5 DEF RemoveDir
  <2> QED
    BY <1>0, <2>1
<1> QED
  BY <1>1, <1>2, <1>3, <1>4, <1>5, DirSteps

LEMMA HandedInGrows ==
  ASSUME [WriterNext]_storeVars
  PROVE  UNCHANGED handedIn \/ Add
<1>1. CASE CommitThread
  BY <1>1 DEF CommitThread, TakeBatch, WriteData, WriteDeletions, WriteRest, CreateCommitFile, WriteCommitFile,
     DropCommit, Reserve, RemoveDir, Cleaned, Merge, MergeAborts, MergeProposal, history
<1>2. CASE Open \/ Seal \/ Close \/ AnyMerge \/ Crash \/ UNCHANGED storeVars
  BY <1>2 DEF Open, Seal, Close, AnyMerge, MergeWith, Crash, history, storeVars
<1>3. CASE \E d \in Documents : DeleteOnDisk(d) \/ DeleteInMemory(d)
  BY <1>3 DEF DeleteOnDisk, DeleteInMemory
<1> QED
  BY <1>1, <1>2, <1>3, LastMergeIsAny DEF WriterNext, StoreNext

\* What a step does to the documents in work, and to the pending ones
LEMMA WorkDocs ==
  ASSUME SoundInv, PlacesInv, [WriterNext]_storeVars
  PROVE  Range(work.docs)' \subseteq 1..handedIn
<1>0. /\ Range(<<>>) = {} /\ NoWork.docs = <<>>
      /\ \A i : [NoWork EXCEPT !.infos = i].docs = <<>>
  BY EmptySequence DEF NoWork
<1>1. Range(work.docs) \subseteq 1..handedIn
  BY DEF PlacesInv, DocsKnown
<1>2. CASE TakeBatch
  <2>1. work'.docs = pending[1].docs /\ pending # <<>>
    BY <1>2, TakenBatch
  <2>2. 1 \in 1..Len(pending)
    BY <2>1, SequenceShape, TailSequence DEF SoundInv, DiskInv, MemoryShape
  <2> QED
    BY <2>1, <2>2 DEF PlacesInv, DocsKnown
<1>3. CASE MergeProposal
  <2>1. PICK part, new, which, home : IsMerge(part, new, which, home)
    BY <1>3, MergedProposal
  <2>2. /\ IsMade(work.docs', part.barrels, which, home) /\ Ordered(part.barrels)
    BY <2>1 DEF IsMerge
  <2>3. IsSequence(work.docs')
    BY <1>3, MergedProposal
  <2>4. ASSUME NEW k \in 1..Len(work.docs') PROVE work.docs'[k] \in 1..handedIn
    <3>1. PICK id : id = part.barrels[which[k]].id
      OBVIOUS
    <3>2. id \in Ids /\ home[k] \in 1..Len(dirs[id].docs) /\ work.docs'[k] = dirs[id].docs[home[k]]
      BY <2>2, <2>4, <3>1 DEF IsMade, Ordered
    <3>3. IsSequence(dirs[id].docs) /\ Range(dirs[id].docs) \subseteq 1..handedIn
      BY <3>2 DEF SoundInv, DocsShape, PlacesInv, DocsKnown
    <3> QED
      BY <3>2, <3>3, SequenceShape
  <2> QED
    BY <2>3, <2>4, SequenceShape
<1>4. CASE UNCHANGED work
  BY <1>1, <1>4
<1>5. CASE WriteCommitFile \/ Merge \/ Crash
  <2>1. work'.docs = <<>>
    BY <1>0, <1>5 DEF WriteCommitFile, Merge, Crash
  <2> QED
    BY <1>0, <2>1
<1>6. UNCHANGED work \/ TakeBatch \/ MergeProposal \/ WriteCommitFile \/ Merge \/ Crash
  <2>1. CASE CommitThread
    BY <2>1 DEF CommitThread, WriteData, WriteDeletions, WriteRest, CreateCommitFile,
       DropCommit, Reserve, RemoveDir, Cleaned, MergeAborts
  <2>2. CASE Open \/ Add \/ Seal \/ Close \/ AnyMerge
    BY <2>2 DEF Open, Add, Seal, Close, AnyMerge, MergeWith, thread
  <2>3. CASE \E d \in Documents : DeleteOnDisk(d) \/ DeleteInMemory(d)
    BY <2>3 DEF DeleteOnDisk, DeleteInMemory, thread
  <2> QED
    BY <2>1, <2>2, <2>3, LastMergeIsAny DEF WriterNext, StoreNext, storeVars, thread
<1> QED
  BY <1>2, <1>3, <1>4, <1>5, <1>6

\* The steps of the thread leave the memory alone, or end the process.
LEMMA ThreadSteps ==
  ASSUME [WriterNext]_storeVars
  PROVE  \/ Open \/ Add \/ Seal \/ Close
         \/ \E d \in Documents : DeleteOnDisk(d) \/ DeleteInMemory(d)
         \/ /\ Forgotten /\ status' \in {"closed", "aborted"} /\ UNCHANGED <<commits, dirs, handedIn, asked>>
            /\ pc' = "idle"
         \/ /\ UNCHANGED <<status, building, keeper, filter, bits, keyIndex, handedIn, asked>>
            /\ TakeBatch \/ UNCHANGED pending
<1>1. CASE TakeBatch \/ WriteData \/ WriteDeletions \/ WriteRest \/ CreateCommitFile \/ WriteCommitFile
  BY <1>1 DEF TakeBatch, WriteData, WriteDeletions, WriteRest, CreateCommitFile, WriteCommitFile,
     memory, history
<1>2. CASE DropCommit \/ Reserve \/ RemoveDir \/ Merge \/ MergeProposal \/ AnyMerge \/ UNCHANGED storeVars
  BY <1>2 DEF DropCommit, Reserve, RemoveDir, Merge, MergeProposal, AnyMerge, MergeWith,
     storeVars, memory, history
<1>3. CASE Cleaned
  BY <1>3 DEF Cleaned, memory, history, disk
<1>4. CASE MergeAborts \/ Crash
  BY <1>4 DEF MergeAborts, Crash, memory, history, disk
<1>5. CASE CommitThread
  BY <1>1, <1>2, <1>3, <1>4, <1>5 DEF CommitThread
<1> QED
  BY <1>2, <1>4, <1>5, LastMergeIsAny DEF WriterNext, StoreNext

LEMMA StepKeepsKnown == SoundInv /\ PlacesInv /\ [WriterNext]_storeVars => DocsKnown'
<1> SUFFICES ASSUME SoundInv, PlacesInv, [WriterNext]_storeVars PROVE DocsKnown'
  OBVIOUS
<1>1. DiskInv /\ DocsKnown
  BY DEF SoundInv, PlacesInv
<1>2. handedIn' \in Nat /\ 1..handedIn \subseteq 1..handedIn'
  <2>1. handedIn' = handedIn \/ handedIn' = handedIn + 1
    BY HandedInGrows DEF Add
  <2> QED
    BY <1>1, <2>1 DEF DocsKnown
<1>3. \A c \in Ids : Range(dirs[c].docs)' \subseteq 1..handedIn
  <2> SUFFICES ASSUME NEW c \in Ids PROVE Range(dirs'[c].docs) \subseteq 1..handedIn
    OBVIOUS
  <2>1. dirs'[c].docs \in {dirs[c].docs, work.docs, <<>>}
    BY <1>1, DocsGoOn
  <2> QED
    BY <1>1, <2>1, EmptySequence DEF DocsKnown
<1>4. Range(work.docs)' \subseteq 1..handedIn
  BY WorkDocs
<1>5. \A i \in 1..Len(pending') : Range(pending'[i].docs) \subseteq 1..handedIn
  <2>1. CASE UNCHANGED pending
    BY <1>1, <2>1 DEF DocsKnown
  <2>2. CASE pending' = <<>>
    BY <2>2, EmptySequence
  <2>3. CASE TakeBatch
    <3>1. pending # <<>> /\ pending' = Tail(pending)
      BY <2>3, TakenBatch
    <3>2. /\ Len(pending') = Len(pending) - 1 /\ Len(pending) \in Nat
          /\ \A i \in 1..(Len(pending) - 1) : pending'[i] = pending[i + 1]
      BY <3>1, TailSequence, SequenceShape DEF SoundInv, DiskInv, MemoryShape
    <3>3. \A i \in 1..(Len(pending) - 1) : i + 1 \in 1..Len(pending)
      BY <3>2
    <3> QED
      BY <1>1, <3>2, <3>3 DEF DocsKnown
  <2>4. CASE status = "open" /\ (SealDocuments \/ SealDeletions)
    <3>1. /\ IsSequence(pending) /\ Len(pending') = Len(pending) + 1
          /\ \A i \in 1..Len(pending) : pending'[i] = pending[i]
          /\ pending'[Len(pending) + 1].docs = building.docs
      BY <2>4, Sealing
    <3>2. \A i \in 1..Len(pending') : i \in 1..Len(pending) \/ i = Len(pending) + 1
      BY <3>1, SequenceShape
    <3>3. Range(building.docs) \subseteq 1..handedIn
      BY DEF PlacesInv, BuildingInv
    <3> QED
      BY <1>1, <3>1, <3>2, <3>3 DEF DocsKnown
  <2>5. CASE Open \/ Add \/ Seal \/ Close \/ \E d \in Documents : DeleteOnDisk(d) \/ DeleteInMemory(d)
    BY <2>1, <2>4, <2>5 DEF Open, Add, Seal, Close, DeleteOnDisk, DeleteInMemory
  <2> QED
    BY <2>1, <2>2, <2>3, <2>5, ThreadSteps DEF Forgotten
<1> QED
  BY <1>2, <1>3, <1>4, <1>5 DEF DocsKnown

-----------------------------------------------------------------------------
(* What is being built *)

LEMMA KeysOf ==
  ASSUME NEW docs, IsSequence(docs), NEW base \in Nat, NEW p \in KeysIn(docs, base)
  PROVE  /\ p[1] \in Range(docs) /\ p[2] \in Nat
         /\ \E i \in 1..Len(docs) : p = <<docs[i], base + i - 1>>
<1>1. Len(docs) \in Nat /\ DOMAIN docs = 1..Len(docs) /\ \A i \in 1..Len(docs) : docs[i] \in Range(docs)
  BY SequenceShape
<1>2. PICK i \in 1..Len(docs) : p = <<docs[i], base + i - 1>>
  BY <1>1 DEF KeysIn
<1>3. base + i - 1 \in Nat
  BY <1>1
<1> QED
  BY <1>1, <1>2, <1>3

LEMMA KeyTableIn ==
  ASSUME NEW pairs, NEW D, \A p \in pairs : p[1] \in D /\ p[2] \in Nat
  PROVE  /\ DOMAIN KeyTable(pairs) \subseteq D
         /\ \A d \in DOMAIN KeyTable(pairs) : KeyTable(pairs)[d] \in Nat
<1>1. DOMAIN KeyTable(pairs) = {p[1] : p \in pairs}
  BY DEF KeyTable
<1>2. DOMAIN KeyTable(pairs) \subseteq D
  BY <1>1
<1>3. ASSUME NEW d \in {p[1] : p \in pairs} PROVE (CHOOSE p \in pairs : p[1] = d)[2] \in Nat
  <2>1. \E p \in pairs : p[1] = d
    OBVIOUS
  <2>2. (CHOOSE p \in pairs : p[1] = d) \in pairs
    BY <2>1
  <2> QED
    BY <2>2
<1>4. \A d \in DOMAIN KeyTable(pairs) : KeyTable(pairs)[d] = (CHOOSE p \in pairs : p[1] = d)[2]
  BY DEF KeyTable
<1> QED
  BY <1>1, <1>2, <1>3, <1>4

\* the keys that open loads
LEMMA OpenedKeys ==
  ASSUME SoundInv, DocsKnown, NEW c \in Ids \cup {INVALID_COMMIT}
  PROVE  LET pairs == UNION {KeysIn(dirs[b.id].docs, b.base) : b \in Range(InfosAt(c).barrels)}
         IN /\ DOMAIN KeyTable(pairs) \subseteq 1..handedIn
            /\ \A d \in DOMAIN KeyTable(pairs) : KeyTable(pairs)[d] \in Nat
<1> DEFINE pairs == UNION {KeysIn(dirs[b.id].docs, b.base) : b \in Range(InfosAt(c).barrels)}
<1>1. Ordered(InfosAt(c).barrels)
  BY NoList DEF SoundInv, ListInv, InfosAt, IsIndex, NoBarrels
<1>2. ASSUME NEW p \in pairs PROVE p[1] \in 1..handedIn /\ p[2] \in Nat
  <2>1. PICK b \in Range(InfosAt(c).barrels) : p \in KeysIn(dirs[b.id].docs, b.base)
    OBVIOUS
  <2>2. b.id \in Ids /\ b.base \in Nat
    <3>1. PICK i \in 1..Len(InfosAt(c).barrels) : b = InfosAt(c).barrels[i]
      BY <1>1, SequenceShape DEF Ordered
    <3> QED
      BY <1>1, <3>1 DEF Ordered
  <2>3. p[1] \in Range(dirs[b.id].docs) /\ p[2] \in Nat
    BY <2>1, <2>2, KeysOf DEF SoundInv, DocsShape
  <2> QED
    BY <2>2, <2>3 DEF DocsKnown
<1> HIDE DEF pairs
<1>3. /\ DOMAIN KeyTable(pairs) \subseteq 1..handedIn
      /\ \A d \in DOMAIN KeyTable(pairs) : KeyTable(pairs)[d] \in Nat
  BY <1>2, KeyTableIn
<1> QED
  BY <1>3 DEF pairs

\* the keys that sealing adds
LEMMA SealedKeys ==
  ASSUME SoundInv, PlacesInv, status = "open", SealDocuments \/ SealDeletions
  PROVE  /\ DOMAIN keyIndex' \subseteq 1..handedIn
         /\ \A d \in DOMAIN keyIndex' : keyIndex'[d] \in Nat
         /\ \A d \in DOMAIN keyIndex : d \in DOMAIN keyIndex' /\ keyIndex'[d] = keyIndex[d]
         /\ \A p \in 1..Len(building.docs) :
               /\ building.docs[p] \in DOMAIN keyIndex'
               /\ keyIndex'[building.docs[p]] = NextBase(keeper) + p - 1
<1>1. /\ NextBase(keeper) \in Nat
      /\ \/ keyIndex' = Inserted(keyIndex, KeyTable(KeysIn(building.docs, NextBase(keeper)))) /\ building.docs # <<>>
         \/ keyIndex' = keyIndex /\ building.docs = <<>>
  <2>1. LET new == keeper'.barrels[Len(keeper.barrels) + 1]
        IN /\ new.base = NextBase(keeper) /\ new.base \in Nat
           /\ \/ keyIndex' = Inserted(keyIndex, KeyTable(KeysIn(building.docs, new.base))) /\ building.docs # <<>>
              \/ keyIndex' = keyIndex /\ building.docs = <<>>
    BY Sealing
  <2> QED
    BY <2>1
<1>2. BuildingInv /\ IsSequence(building.docs)
  BY DEF PlacesInv, SoundInv, DocsShape
<1>3. Len(building.docs) \in Nat /\ \A i \in 1..Len(building.docs) : building.docs[i] \in Range(building.docs)
  BY <1>2, SequenceShape
<1> PICK base, table, pairs :
      base = NextBase(keeper) /\ pairs = KeysIn(building.docs, NextBase(keeper)) /\ table = KeyTable(pairs)
  OBVIOUS
<1>4. ASSUME NEW p \in pairs
      PROVE  /\ p[1] \in Range(building.docs) /\ p[2] \in Nat
             /\ \E i \in 1..Len(building.docs) : p = <<building.docs[i], base + i - 1>>
  BY <1>1, <1>2, KeysOf
<1>5. DOMAIN table \subseteq Range(building.docs) /\ \A d \in DOMAIN table : table[d] \in Nat
  BY <1>4, KeyTableIn
<1>6. ASSUME NEW p \in 1..Len(building.docs)
      PROVE  building.docs[p] \in DOMAIN table /\ table[building.docs[p]] = base + p - 1
  <2>1. <<building.docs[p], base + p - 1>> \in pairs
    BY <1>2, SequenceShape DEF KeysIn
  <2>2. ASSUME NEW q \in pairs, q[1] = building.docs[p] PROVE q = <<building.docs[p], base + p - 1>>
    <3>1. PICK i \in 1..Len(building.docs) : q = <<building.docs[i], base + i - 1>>
      BY <1>4
    <3>2. building.docs[i] = building.docs[p]
      BY <2>2, <3>1
    <3>3. i = p
      BY <1>2, <3>2 DEF BuildingInv
    <3> QED
      BY <3>1, <3>3
  <2> QED
    BY <2>1, <2>2, KeyTableHas
<1>7. CASE building.docs = <<>>
  <2>1. keyIndex' = keyIndex /\ 1..Len(building.docs) = {}
    BY <1>1, <1>7, EmptySequence
  <2> QED
    BY <1>2, <2>1 DEF BuildingInv
<1>8. CASE building.docs # <<>>
  <2>1. keyIndex' = Inserted(keyIndex, table)
    BY <1>1, <1>8
  <2>2. /\ DOMAIN keyIndex' = DOMAIN keyIndex \cup DOMAIN table
        /\ \A d \in DOMAIN keyIndex : keyIndex'[d] = keyIndex[d]
        /\ \A d \in DOMAIN table \ DOMAIN keyIndex : keyIndex'[d] = table[d]
    <3>1. keyIndex' = [d \in DOMAIN keyIndex \cup DOMAIN table |->
                         IF d \in DOMAIN keyIndex THEN keyIndex[d] ELSE table[d]]
      BY <2>1 DEF Inserted
    <3> QED
      BY <3>1
  <2>3. DOMAIN table \cap DOMAIN keyIndex = {}
    BY <1>2, <1>5 DEF BuildingInv
  <2>4. DOMAIN keyIndex' \subseteq 1..handedIn
    BY <1>2, <1>5, <2>2 DEF BuildingInv
  <2>5. \A d \in DOMAIN keyIndex' : keyIndex'[d] \in Nat
    BY <1>2, <1>5, <2>2, <2>3 DEF BuildingInv
  <2>6. ASSUME NEW p \in 1..Len(building.docs)
        PROVE  building.docs[p] \in DOMAIN keyIndex' /\ keyIndex'[building.docs[p]] = base + p - 1
    BY <1>6, <2>2, <2>3
  <2> QED
    BY <2>2, <2>4, <2>5, <2>6
<1> QED
  BY <1>7, <1>8

LEMMA StepKeepsBuilding == SoundInv /\ PlacesInv /\ [WriterNext]_storeVars => BuildingInv'
<1> SUFFICES ASSUME SoundInv, PlacesInv, [WriterNext]_storeVars PROVE BuildingInv'
  OBVIOUS
<1>1. BuildingInv /\ DocsKnown /\ DocsShape
  BY DEF SoundInv, PlacesInv
<1>2. /\ NoBuilding.docs = <<>> /\ Range(<<>>) = {} /\ 1..Len(<<>>) = {}
      /\ DOMAIN <<>> = {}
  BY EmptySequence DEF NoBuilding
<1>3. CASE Open
  <2>1. PICK c \in Ids \cup {INVALID_COMMIT} :
           keyIndex' = KeyTable(UNION {KeysIn(dirs[b.id].docs, b.base) : b \in Range(InfosAt(c).barrels)})
    BY <1>3 DEF Open
  <2>2. status \in {"closed", "aborted"} /\ UNCHANGED <<building, handedIn>>
    BY <1>3 DEF Open, history
  <2>3. LET pairs == UNION {KeysIn(dirs[b.id].docs, b.base) : b \in Range(InfosAt(c).barrels)}
        IN /\ DOMAIN KeyTable(pairs) \subseteq 1..handedIn
           /\ \A d \in DOMAIN KeyTable(pairs) : KeyTable(pairs)[d] \in Nat
    BY <1>1, OpenedKeys DEF SoundInv
  <2>4. building'.docs = <<>>
    BY <1>1, <2>2 DEF BuildingInv
  <2>5. DOMAIN keyIndex' \subseteq 1..handedIn' /\ \A d \in DOMAIN keyIndex' : keyIndex'[d] \in Nat
    BY <2>1, <2>2, <2>3
  <2> QED
    BY <1>2, <2>4, <2>5 DEF BuildingInv
<1>4. CASE Add
  <2>1. /\ handedIn' = handedIn + 1 /\ handedIn \in Nat
        /\ building'.docs = Append(building.docs, handedIn + 1)
        /\ status' = "open" /\ keyIndex' = keyIndex
    BY <1>1, <1>4 DEF Add, DocsShape, DocsKnown
  <2> PICK s, e : s = building.docs /\ e = handedIn + 1
    OBVIOUS
  <2>2. IsSequence(s) /\ Len(s) \in Nat /\ \A i \in 1..Len(s) : s[i] \in Range(s)
    BY <1>1, SequenceShape DEF DocsShape
  <2>3. /\ Range(building.docs)' = Range(s) \cup {e} /\ Len(building'.docs) = Len(s) + 1
        /\ \A i \in 1..Len(s) : building'.docs[i] = s[i]
        /\ building'.docs[Len(s) + 1] = e
    BY <2>1, <2>2, AppendSequence
  <2>4. Range(s) \subseteq 1..handedIn /\ e \notin 1..handedIn /\ e \in 1..handedIn' /\ 1..handedIn \subseteq 1..handedIn'
    BY <1>1, <2>1 DEF BuildingInv
  <2>5. Range(building.docs)' \subseteq 1..handedIn' /\ Range(building.docs)' \cap DOMAIN keyIndex' = {}
    BY <1>1, <2>1, <2>3, <2>4 DEF BuildingInv
  <2>6. DOMAIN keyIndex' \subseteq 1..handedIn' /\ \A d \in DOMAIN keyIndex' : keyIndex'[d] \in Nat
    BY <1>1, <2>1, <2>4 DEF BuildingInv
  <2>7. ASSUME NEW i \in 1..Len(building'.docs), NEW k \in 1..Len(building'.docs), building'.docs[i] = building'.docs[k]
        PROVE  i = k
    <3>1. (i \in 1..Len(s) \/ i = Len(s) + 1) /\ (k \in 1..Len(s) \/ k = Len(s) + 1)
      BY <2>2, <2>3
    <3>2. \A j \in 1..Len(s) : s[j] # e
      BY <2>2, <2>4
    <3>3. \A j, l \in 1..Len(s) : s[j] = s[l] => j = l
      BY <1>1 DEF BuildingInv
    <3> QED
      BY <2>3, <2>7, <3>1, <3>2, <3>3
  <2> QED
    BY <2>1, <2>5, <2>6, <2>7 DEF BuildingInv
<1>5. CASE \E d \in Documents : DeleteOnDisk(d) \/ DeleteInMemory(d)
  <2>1. building'.docs = building.docs /\ status' = "open" /\ UNCHANGED <<keyIndex, handedIn>>
    BY <1>1, <1>5 DEF DeleteOnDisk, DeleteInMemory, DocsShape
  <2> QED
    BY <1>1, <2>1 DEF BuildingInv
<1>6. ASSUME status = "open", SealDocuments \/ SealDeletions, building' = NoBuilding, UNCHANGED handedIn
      PROVE  BuildingInv'
  <2>1. DOMAIN keyIndex' \subseteq 1..handedIn /\ \A d \in DOMAIN keyIndex' : keyIndex'[d] \in Nat
    BY <1>6, SealedKeys
  <2> QED
    BY <1>2, <1>6, <2>1 DEF BuildingInv
<1>7. CASE Seal
  BY <1>6, <1>7 DEF Seal, history
<1>8. CASE Close
  <2>1. status = "open" /\ building' = NoBuilding /\ UNCHANGED handedIn
    BY <1>8 DEF Close, history
  <2>2. CASE SealDocuments \/ SealDeletions
    BY <1>6, <2>1, <2>2
  <2>3. CASE UNCHANGED keyIndex
    BY <1>1, <1>2, <2>1, <2>3 DEF BuildingInv
  <2> QED
    BY <1>8, <2>2, <2>3 DEF Close
<1>9. CASE Forgotten /\ UNCHANGED handedIn
  BY <1>2, <1>9 DEF Forgotten, BuildingInv
<1>10. CASE UNCHANGED <<status, building, keeper, filter, bits, keyIndex, handedIn, asked>>
  BY <1>1, <1>10 DEF BuildingInv
<1> QED
  BY <1>3, <1>4, <1>5, <1>7, <1>8, <1>9, <1>10, ThreadSteps

LEMMA OpenedFilter ==
  ASSUME NEW infos, Ordered(infos.barrels)
  PROVE  IsFilter(OpenFilter(infos)) /\ Dirty(OpenFilter(infos)) = {}
<1> DEFINE s == infos.barrels
           f == OpenFilter(infos)
<1>1. Len(s) \in Nat /\ DOMAIN s = 1..Len(s)
  BY SequenceShape DEF Ordered
<1>2. f = [i \in 1..Len(s) |-> [barrel |-> s[i], dirty |-> FALSE]]
  BY <1>1 DEF OpenFilter
<1>3. IsSequence(f) /\ Len(f) = Len(s) /\ DOMAIN f = 1..Len(s)
  <2>1. f = [i \in 1..Len(s) |-> f[i]]
    BY <1>2
  <2> HIDE DEF f, s
  <2> QED
    BY <1>1, <2>1, FunctionSequence
<1>4. ASSUME NEW i \in 1..Len(s)
      PROVE  f[i] = [barrel |-> s[i], dirty |-> FALSE] /\ f[i].barrel = s[i] /\ f[i].dirty = FALSE /\ IsEntry(s[i])
  <2>1. f[i] = [barrel |-> s[i], dirty |-> FALSE]
    BY <1>2
  <2>2. IsEntry(s[i])
    BY DEF Ordered, IsEntry
  <2> HIDE DEF f, s
  <2> QED
    BY <2>1, <2>2
<1> HIDE DEF f, s
<1>5. IsFilter(f)
  BY <1>3, <1>4 DEF IsFilter
<1>6. Dirty(f) = {}
  BY <1>3, <1>4 DEF Dirty
<1> QED
  BY <1>5, <1>6 DEF f

LEMMA MarkedFilter ==
  ASSUME NEW f, IsFilter(f), NEW i \in DOMAIN f
  PROVE  IsFilter([f EXCEPT ![i].dirty = TRUE])
<1> DEFINE t == [f EXCEPT ![i].dirty = TRUE]
<1>1. Len(f) \in Nat /\ DOMAIN f = 1..Len(f) /\ f = [k \in 1..Len(f) |-> f[k]]
  <2>1. Len(f) \in Nat /\ DOMAIN f = 1..Len(f) /\ f \in Seq(Range(f))
    BY SequenceShape DEF IsFilter, IsSequence
  <2> QED
    BY <2>1
<1>2. t = [k \in 1..Len(f) |-> IF k = i THEN [f[i] EXCEPT !.dirty = TRUE] ELSE f[k]]
  BY <1>1
<1>3. IsSequence(t) /\ Len(t) = Len(f)
  <2>1. t = [k \in 1..Len(f) |-> t[k]]
    BY <1>2
  <2> HIDE DEF t
  <2> QED
    BY <1>1, <2>1, FunctionSequence
<1>4. ASSUME NEW k \in 1..Len(f) PROVE t[k] = f[k] \/ t[k] = [barrel |-> f[k].barrel, dirty |-> TRUE]
  <2>1. f[k] = [barrel |-> f[k].barrel, dirty |-> f[k].dirty]
    BY DEF IsFilter
  <2>2. t[k] = f[k] \/ t[k] = [f[k] EXCEPT !.dirty = TRUE]
    BY <1>2
  <2> HIDE DEF t
  <2> QED
    BY <2>1, <2>2
<1>5. ASSUME NEW k \in 1..Len(f)
      PROVE /\ t[k] = [barrel |-> t[k].barrel, dirty |-> t[k].dirty]
            /\ t[k].dirty \in BOOLEAN /\ IsEntry(t[k].barrel)
  <2>1. /\ f[k] = [barrel |-> f[k].barrel, dirty |-> f[k].dirty]
        /\ f[k].dirty \in BOOLEAN /\ IsEntry(f[k].barrel)
    BY DEF IsFilter
  <2> HIDE DEF t
  <2>2. CASE t[k] = f[k]
    BY <2>1, <2>2
  <2>3. CASE t[k] = [barrel |-> f[k].barrel, dirty |-> TRUE]
    <3>1. t[k].barrel = f[k].barrel /\ t[k].dirty = TRUE
      BY <2>3
    <3> QED
      BY <2>1, <2>3, <3>1
  <2> QED
    BY <1>4, <2>2, <2>3
<1> HIDE DEF t
<1>6. IsFilter(t)
  BY <1>3, <1>5 DEF IsFilter
<1> QED
  BY <1>6 DEF t

LEMMA StepKeepsRoom == SoundInv /\ PlacesInv /\ [WriterNext]_storeVars => RoomInv'
<1> SUFFICES ASSUME SoundInv, PlacesInv, [WriterNext]_storeVars PROVE RoomInv'
  OBVIOUS
<1>1. BuildingInv /\ RoomInv /\ DocsShape /\ IsFilter(filter)
  BY DEF SoundInv, PlacesInv, RoomInv
<1>2. NoBuilding.docs = <<>>
  BY DEF NoBuilding
<1>3. CASE Open
  <2>1. PICK c \in Ids \cup {INVALID_COMMIT} : filter' = OpenFilter(InfosAt(c))
    BY <1>3 DEF Open
  <2>2. building'.docs = <<>>
    BY <1>1, <1>3 DEF BuildingInv, Open
  <2>3. Ordered(InfosAt(c).barrels)
    BY NoList DEF SoundInv, ListInv, InfosAt, IsIndex, NoBarrels
  <2>4. IsFilter(filter') /\ Dirty(filter') = {}
    BY <2>1, <2>3, OpenedFilter
  <2> QED
    BY <2>2, <2>4 DEF RoomInv
<1>4. CASE Add
  <2>1. Room' /\ filter' = filter
    BY <1>4 DEF Add, Room
  <2> QED
    BY <1>1, <2>1 DEF RoomInv
<1>5. ASSUME NEW d \in Documents, DeleteOnDisk(d) PROVE RoomInv'
  <2>1. Room'
    BY <1>5 DEF DeleteOnDisk, Room
  <2>2. PICK i \in DOMAIN filter : filter' = [filter EXCEPT ![i].dirty = TRUE]
    BY <1>5 DEF DeleteOnDisk
  <2>3. IsFilter([filter EXCEPT ![i].dirty = TRUE])
    BY <1>1, MarkedFilter
  <2>4. IsFilter(filter')
    BY <2>2, <2>3
  <2> QED
    BY <2>1, <2>4 DEF RoomInv
<1>6. ASSUME NEW d \in Documents, DeleteInMemory(d) PROVE RoomInv'
  <2>1. building'.docs = building.docs /\ UNCHANGED <<filter, keeper, status>>
    BY <1>1, <1>6 DEF DeleteInMemory, DocsShape
  <2> QED
    BY <1>1, <2>1 DEF RoomInv, Room
<1>7. ASSUME status = "open", SealDocuments \/ SealDeletions, building' = NoBuilding PROVE RoomInv'
  <2>1. IsFilter(filter') /\ Dirty(filter') = {}
    BY <1>7, Sealing
  <2> QED
    BY <1>2, <1>7, <2>1 DEF RoomInv
<1>8. CASE Seal
  BY <1>7, <1>8 DEF Seal
<1>9. CASE Close
  <2>1. status = "open" /\ building' = NoBuilding /\ status' # "open"
    BY <1>9 DEF Close
  <2>2. CASE SealDocuments \/ SealDeletions
    BY <1>7, <2>1, <2>2
  <2>3. CASE UNCHANGED filter
    BY <1>1, <2>1, <2>3 DEF RoomInv
  <2> QED
    BY <1>9, <2>2, <2>3 DEF Close
<1>10. CASE Forgotten /\ status' \in {"closed", "aborted"}
  <2>1. filter' = <<>> /\ status' # "open"
    BY <1>10 DEF Forgotten
  <2>2. IsFilter(filter')
    BY <2>1, EmptySequence DEF IsFilter
  <2> QED
    BY <2>1, <2>2 DEF RoomInv
<1>11. CASE UNCHANGED <<status, building, keeper, filter, bits, keyIndex, handedIn, asked>>
  BY <1>1, <1>11 DEF RoomInv, Room
<1> QED
  BY <1>3, <1>4, <1>5, <1>6, <1>8, <1>9, <1>10, <1>11, ThreadSteps

-----------------------------------------------------------------------------
(* The keeper's list and the keys *)

\* The list of the newest commit, or of the one being written
LEMMA CurrentIs ==
  ASSUME SoundInv, Writing
  PROVE  /\ Ordered(CurrentList.barrels)
         /\ pc \notin Writes => Reached \in Ids \cup {INVALID_COMMIT} /\ IsLast(Reached)
         /\ pc \in Writes => New = Reached /\ New \in Ids
<1>1. CASE pc \in Writes
  BY <1>1 DEF SoundInv, DiskInv, WorkIntact, DeletionsInv, KeeperAhead, ListInv, IsIndex, CurrentList
<1>2. CASE pc \notin Writes
  <2>1. IsLast(Reached)
    BY <1>2 DEF SoundInv, DeletionsInv, KeeperAhead
  <2>2. Reached \in Ids \cup {INVALID_COMMIT}
    BY <2>1 DEF IsLast, Listed
  <2>3. Ordered(InfosAt(Reached).barrels)
    BY <2>2, NoList DEF SoundInv, ListInv, InfosAt, IsIndex, NoBarrels
  <2> QED
    BY <1>2, <2>1, <2>2, <2>3 DEF CurrentList
<1> QED
  BY <1>1, <1>2

\* Steps that take nothing from the pending ones
LEMMA PlacesStay ==
  ASSUME SoundInv, KeeperInv, KeysInv, Writing, UNCHANGED <<keeper, pending, keyIndex>>,
         CurrentList.barrels' = CurrentList.barrels,
         \A b \in Range(CurrentList.barrels) : DocsIn(b.id)' = DocsIn(b.id),
         pc' \in Writes \ {"write"} => Range(InfosAt(New - 1).barrels)' \subseteq Range(work.infos.barrels)'
  PROVE  KeeperInv' /\ KeysInv'
<1>1. Committed' = Committed /\ Reached' = Reached /\ Committed \in Nat
  BY DEF Committed, Reached, KeeperInv
<1>2. KeeperInv'
  BY <1>1 DEF KeeperInv
<1>3. IsSequence(CurrentList.barrels)
  BY CurrentIs DEF Ordered
<1>4. ASSUME NEW j \in 1..Len(keeper.barrels) PROVE DocsInKeeper(j)' = DocsInKeeper(j)
  <2>1. CASE j <= Committed
    <3>1. j \in 1..Committed /\ Len(CurrentList.barrels) = Committed
      BY <1>1, <2>1 DEF KeeperInv
    <3>2. CurrentList.barrels[j] = keeper.barrels[j]
      BY <3>1 DEF KeeperInv
    <3>3. keeper.barrels[j] \in Range(CurrentList.barrels)
      BY <1>3, <3>1, <3>2, SequenceShape
    <3>4. DocsIn(keeper.barrels[j].id)' = DocsIn(keeper.barrels[j].id)
      <4>1. PICK b : b = keeper.barrels[j]
        OBVIOUS
      <4>2. DocsIn(b.id)' = DocsIn(b.id)
        BY <3>3, <4>1
      <4>3. keeper.barrels' = keeper.barrels
        OBVIOUS
      <4> QED
        BY <4>1, <4>2, <4>3 DEF DocsIn
    <3> QED
      BY <1>1, <2>1, <3>4 DEF DocsInKeeper
  <2>2. CASE ~(j <= Committed)
    BY <1>1, <2>2 DEF DocsInKeeper
  <2> QED
    BY <2>1, <2>2
<1>5. KeysInv'
  BY <1>4 DEF KeysInv
<1> QED
  BY <1>2, <1>5

\* Steps in which the lists and the disk are what they were
LEMMA QuietKeepsPlaces ==
  ASSUME SoundInv, KeeperInv, KeysInv, Writing,
         UNCHANGED <<keeper, pending, keyIndex, commits, dirs, work>>,
         pc' \in Writes <=> pc \in Writes, pc' = "write" <=> pc = "write"
  PROVE  KeeperInv' /\ KeysInv'
<1>1. pc' \in Writes <=> pc \in Writes
  OBVIOUS
<1>2. CurrentList.barrels' = CurrentList.barrels
  BY <1>1 DEF CurrentList, InfosAt, Reached
<1>3. \A b : DocsIn(b.id)' = DocsIn(b.id)
  BY <1>1 DEF DocsIn, New
<1>4. pc' \in Writes \ {"write"} => Range(InfosAt(New - 1).barrels)' \subseteq Range(work.infos.barrels)'
  <2>1. pc' \in Writes \ {"write"} => Range(InfosAt(New - 1).barrels) \subseteq Range(work.infos.barrels)
    BY DEF KeeperInv
  <2> QED
    BY <2>1 DEF InfosAt, New
<1> QED
  BY <1>2, <1>3, <1>4, PlacesStay

LEMMA WritingKeepsPlaces ==
  ASSUME SoundInv, KeeperInv, KeysInv, Writing,
         WriteData \/ WriteDeletions \/ WriteRest \/ CreateCommitFile
  PROVE  KeeperInv' /\ KeysInv'
<1>1. /\ pc \in Writes \ {"write"} /\ pc' \in Writes /\ UNCHANGED <<keeper, pending, keyIndex, work>>
      /\ pc' # "write" => UNCHANGED commits
  BY DEF WriteData, WriteDeletions, WriteRest, CreateCommitFile, Writes, memory
<1>2. \A d \in Ids : d # New => dirs'[d] = dirs[d]
  BY DEF WriteData, WriteDeletions, WriteRest, CreateCommitFile, SoundInv, DiskInv, DiskShape
<1>3. CurrentList.barrels' = CurrentList.barrels /\ CurrentList.barrels = work.infos.barrels /\ New' = New
  BY <1>1 DEF CurrentList, New
<1>4. ASSUME NEW b \in Range(work.infos.barrels) PROVE DocsIn(b.id)' = DocsIn(b.id)
  <2>1. CASE b.id = New
    BY <1>1, <1>3, <2>1 DEF DocsIn
  <2>2. CASE b.id # New
    <3>1. b.id \in Ids
      <4>1. b.id \in 0..(New - 1) /\ New \in Nat /\ New <= MaxCommit
        BY <1>1, <2>2, IdsAreNumbers DEF SoundInv, DiskInv, WorkIntact, Ids
      <4> QED
        BY <4>1, IdsAreNumbers DEF Ids
    <3>2. dirs'[b.id] = dirs[b.id]
      BY <1>2, <2>2, <3>1
    <3> QED
      BY <1>1, <1>3, <2>2, <3>2 DEF DocsIn
  <2> QED
    BY <2>1, <2>2
<1>5. pc' \in Writes \ {"write"} => Range(InfosAt(New - 1).barrels)' \subseteq Range(work.infos.barrels)'
  <2>1. Range(InfosAt(New - 1).barrels) \subseteq Range(work.infos.barrels)
    BY <1>1 DEF KeeperInv
  <2>2. pc' # "write" => UNCHANGED commits /\ New' = New /\ work' = work
    BY <1>1, <1>3
  <2> QED
    BY <2>1, <2>2 DEF InfosAt
<1> QED
  BY <1>1, <1>3, <1>4, <1>5, PlacesStay

\* The commit file has what was in work.
LEMMA CommitFileKeepsPlaces ==
  ASSUME SoundInv, KeeperInv, KeysInv, Writing, WriteCommitFile, pc' \notin Writes
  PROVE  KeeperInv' /\ KeysInv'
<1>1. /\ pc = "write" /\ pc \in Writes /\ UNCHANGED <<keeper, pending, keyIndex, dirs>>
      /\ commits' = [commits EXCEPT ![New] = [state |-> "whole", barrels |-> work.infos.barrels]]
  BY DEF WriteCommitFile, memory, Writes
<1>2. New = Reached /\ New \in Ids /\ Reached' = Reached
  BY <1>1, CurrentIs DEF Reached
<1>3. commits'[New].barrels = work.infos.barrels
  BY <1>1, <1>2 DEF SoundInv, DiskInv, DiskShape
<1>4. CurrentList.barrels = work.infos.barrels
  BY <1>1 DEF CurrentList
<1>5. CurrentList.barrels' = work.infos.barrels
  <2>1. Reached # INVALID_COMMIT
    BY <1>2, IdsAreNumbers
  <2>2. CurrentList' = InfosAt(Reached)'
    BY DEF CurrentList
  <2> QED
    BY <1>2, <1>3, <2>1, <2>2 DEF InfosAt
<1>6. ASSUME NEW b \in Range(work.infos.barrels) PROVE DocsIn(b.id)' = DocsIn(b.id)
  <2>1. dirs[New].docs = work.docs
    BY <1>1 DEF SoundInv, DiskInv, WorkIntact
  <2> QED
    BY <1>1, <2>1 DEF DocsIn
<1> QED
  BY <1>1, <1>4, <1>5, <1>6, PlacesStay

\* The cleaner leaves the newest commit alone.
LEMMA CleanerKeepsPlaces ==
  ASSUME SoundInv, KeeperInv, KeysInv, Writing, DropCommit \/ RemoveDir
  PROVE  KeeperInv' /\ KeysInv'
<1>1. pc \notin Writes /\ pc' \notin Writes /\ UNCHANGED <<keeper, pending, keyIndex>>
  BY DEF DropCommit, RemoveDir, Writes, memory
<1>2. Reached \in Ids \cup {INVALID_COMMIT} /\ IsLast(Reached) /\ Reached' = Reached
  BY <1>1, CurrentIs DEF Reached
<1>3. CurrentList = InfosAt(Reached) /\ CurrentList' = InfosAt(Reached)'
  BY <1>1 DEF CurrentList
<1>4. InfosAt(Reached).barrels' = InfosAt(Reached).barrels
  <2>1. CASE RemoveDir
    BY <1>2, <2>1 DEF RemoveDir, InfosAt
  <2>2. CASE DropCommit
    <3>1. ASSUME Reached \in Ids PROVE commits'[Reached] = commits[Reached]
      <4>1. PICK c \in Listed : commits' = [commits EXCEPT ![c] = NoFile]
        BY <2>2 DEF DropCommit
      <4>2. IsLast(Reached)'
        <5>1. PICK r : r = Reached
          OBVIOUS
        <5>2. IsLast(r)'
          BY <1>2, <2>2, <5>1, DropKeepsLast DEF SoundInv
        <5> QED
          BY <1>2, <5>1, <5>2 DEF IsLast
      <4>3. commits'[Reached].state # "absent"
        BY <1>2, <3>1, <4>2, IdsAreNumbers DEF IsLast, Listed
      <4>4. commits'[c].state = "absent"
        BY <4>1 DEF Listed, SoundInv, DiskInv, DiskShape, NoFile
      <4> QED
        BY <3>1, <4>1, <4>3, <4>4 DEF SoundInv, DiskInv, DiskShape
    <3> QED
      BY <1>2, <3>1 DEF InfosAt
  <2> QED
    BY <2>1, <2>2
<1>5. ASSUME NEW b \in Range(InfosAt(Reached).barrels) PROVE DocsIn(b.id)' = DocsIn(b.id)
  <2>1. Reached \in Ids /\ b \in Range(commits[Reached].barrels)
    BY <1>2, EmptySequence DEF InfosAt, NoBarrels
  <2>2. dirs'[b.id] = dirs[b.id]
    <3>1. [WriterNext]_storeVars
      BY DEF WriterNext, StoreNext, CommitThread
    <3> QED
      BY <2>1, <3>1, ListedStay DEF SoundInv
  <2> QED
    BY <1>1, <2>2 DEF DocsIn
<1> QED
  BY <1>1, <1>3, <1>4, <1>5, PlacesStay

\* Opening reads the keys from the commit whose list it takes.
LEMMA OpenKeepsPlaces ==
  ASSUME SoundInv, ListsApart, Open, Writing'
  PROVE  KeeperInv' /\ KeysInv'
<1> DEFINE Pairs(c) == UNION {KeysIn(dirs[b.id].docs, b.base) : b \in Range(InfosAt(c).barrels)}
<1>1. PICK c \in Ids \cup {INVALID_COMMIT} : keeper' = InfosAt(c) /\ keyIndex' = KeyTable(Pairs(c))
  BY DEF Open
<1>2. /\ status \in {"closed", "aborted"} /\ UNCHANGED <<commits, dirs, pending, pc, work>>
      /\ pc = "idle" /\ pending = <<>>
  BY DEF Open, disk, thread, SoundInv, DiskInv, Phases
<1>3. IsIndex(InfosAt(c)) /\ Ordered(InfosAt(c).barrels) /\ InfosAt(c).commit = c /\ c \in Int
  BY NoList, IdsAreNumbers DEF SoundInv, ListInv, InfosAt, IsIndex, NoBarrels
<1> PICK s : s = InfosAt(c).barrels
  OBVIOUS
<1>4. IsSequence(s) /\ Len(s) \in Nat /\ Range(s) = {s[i] : i \in 1..Len(s)}
  BY <1>3, SequenceShape DEF Ordered
<1>5. pc' \notin Writes /\ Len(pending') = 0 /\ 1..Len(pending') = {}
  BY <1>2, EmptySequence DEF Writes
<1>6. Committed' = Len(s) /\ Reached' = c /\ keeper'.barrels = s
  BY <1>1, <1>3, <1>4, <1>5 DEF Committed, Reached
<1>7. CurrentList.barrels' = s
  <2>1. CurrentList' = InfosAt(Reached)'
    BY <1>5 DEF CurrentList
  <2> QED
    BY <1>2, <1>6, <2>1 DEF InfosAt
<1>8. IsIndex(keeper)'
  BY <1>1, <1>3 DEF IsIndex, IsList
<1>9. KeeperInv'
  BY <1>4, <1>5, <1>6, <1>7, <1>8 DEF KeeperInv
<1>10. ASSUME NEW j \in 1..Len(s), NEW p \in 1..s[j].count
       PROVE  /\ dirs[s[j].id].docs[p] \in DOMAIN KeyTable(Pairs(c))
              /\ KeyTable(Pairs(c))[dirs[s[j].id].docs[p]] = s[j].base + p - 1
  <2> PICK b, d, k : b = s[j] /\ d = dirs[s[j].id].docs[p] /\ k = s[j].base + p - 1
    OBVIOUS
  <2>1. b \in Range(s) /\ c # INVALID_COMMIT
    BY <1>4, EmptySequence DEF InfosAt, NoBarrels
  <2>2. c \in Ids /\ Range(s) = Range(commits[c].barrels)
    BY <2>1 DEF InfosAt
  <2>3. ASSUME NEW e \in Range(s)
        PROVE  /\ DocsIn(e.id) = dirs[e.id].docs /\ Len(dirs[e.id].docs) = e.count /\ e.base \in Nat
               /\ IsSequence(dirs[e.id].docs)
    <3>1. e.id \in Ids /\ DocsIn(e.id) = dirs[e.id].docs /\ Intact(e)
      BY <2>2, ListedBarrels DEF SoundInv
    <3>2. PICK i \in 1..Len(s) : e = s[i]
      BY <1>4
    <3>3. e.base \in Nat
      BY <1>3, <3>2 DEF Ordered
    <3> QED
      BY <3>1, <3>3 DEF Intact, SoundInv, DocsShape
  <2>4. <<d, k>> \in KeysIn(dirs[b.id].docs, b.base)
    BY <2>1, <2>3, SequenceShape DEF KeysIn
  <2>5. <<d, k>> \in Pairs(c)
    BY <2>1, <2>4
  <2>6. ASSUME NEW q \in Pairs(c), q[1] = d PROVE q = <<d, k>>
    <3>1. PICK e \in Range(s) : q \in KeysIn(dirs[e.id].docs, e.base)
      OBVIOUS
    <3>2. PICK i \in 1..Len(dirs[e.id].docs) : q = <<dirs[e.id].docs[i], e.base + i - 1>>
      BY <2>3, <3>1, KeysOf
    <3>3. i \in 1..e.count /\ DocsIn(e.id)[i] = DocsIn(b.id)[p]
      BY <2>1, <2>3, <2>6, <3>2
    <3>4. e = b /\ i = p
      BY <2>1, <2>2, <3>3 DEF ListsApart, Apart
    <3> QED
      BY <3>2, <3>4
  <2> HIDE DEF Pairs
  <2>7. d \in DOMAIN KeyTable(Pairs(c)) /\ KeyTable(Pairs(c))[d] = k
    BY SMTT(60), <2>5, <2>6, KeyTableHas
  <2> QED
    BY <2>7
<1>11. ASSUME NEW j \in 1..Len(s) PROVE DocsInKeeper(j)' = dirs[s[j].id].docs
  <2>1. j <= Committed'
    BY <1>4, <1>6
  <2>2. DocsInKeeper(j)' = DocsIn(keeper.barrels[j].id)'
    BY <2>1 DEF DocsInKeeper
  <2> QED
    BY <1>2, <1>5, <1>6, <2>2 DEF DocsIn
<1>12. KeysInv'
  <2> HIDE DEF Pairs
  <2> QED
    BY SMTT(60), <1>1, <1>6, <1>10, <1>11 DEF KeysInv
<1> QED
  BY <1>9, <1>12

\* Sealing numbers the documents as the commit thread will.
LEMMA SealKeepsPlaces ==
  ASSUME SoundInv, PlacesInv, status = "open", SealDocuments \/ SealDeletions,
         UNCHANGED <<commits, dirs, pc, work>>
  PROVE  KeeperInv' /\ KeysInv'
<1>1. PICK n, l, m, r : n = Len(keeper.barrels) /\ l = Len(pending) /\ m = Committed /\ r = Reached
  OBVIOUS
<1>2. PICK new : new = keeper'.barrels[n + 1]
  OBVIOUS
<1>3. /\ Writing /\ keeper.commit + 1 \in Ids /\ IsIndex(keeper) /\ IsIndex(keeper')
      /\ n \in Nat /\ keeper.commit \in Int
      /\ keeper'.commit = keeper.commit + 1
      /\ Len(keeper'.barrels) = n + 1
      /\ \A i \in 1..n : keeper'.barrels[i] = keeper.barrels[i]
      /\ new.id = keeper.commit + 1 /\ new.base = NextBase(keeper) /\ new.base \in Nat
      /\ new.count = Len(building.docs)
      /\ pending'[l + 1].barrel = new
      /\ IsSequence(pending) /\ IsSequence(pending') /\ Len(pending') = l + 1
      /\ \A i \in 1..l : pending'[i] = pending[i]
      /\ pending'[l + 1].docs = building.docs
  BY <1>1, <1>2, Sealing
<1>4. l \in Nat /\ m \in Nat /\ m = n - l /\ r = keeper.commit - l
  BY <1>3, <1>1, SequenceShape DEF Committed, Reached, PlacesInv, KeeperInv
<1>5. n \in Nat /\ l \in Nat /\ m \in Nat /\ m = n - l /\ keeper.commit \in Int /\ r = keeper.commit - l
  BY <1>3, <1>4
<1>6. Len(keeper'.barrels) = n + 1 /\ Len(pending') = l + 1 /\ keeper'.commit = keeper.commit + 1
  BY <1>3
<1>7. Committed' = m /\ Reached' = r
  <2>1. Committed' = Len(keeper'.barrels) - Len(pending') /\ Reached' = keeper'.commit - Len(pending')
    BY DEF Committed, Reached
  <2>2. Committed' = (n + 1) - (l + 1) /\ Reached' = (keeper.commit + 1) - (l + 1)
    BY <1>6, <2>1
  <2> QED
    BY <1>5, <2>2
<1>8. CurrentList' = CurrentList
  BY <1>7, <1>1 DEF CurrentList, InfosAt
<1>9. /\ Len(CurrentList.barrels) = m
      /\ \A i \in 1..m : CurrentList.barrels[i] = keeper.barrels[i]
      /\ \A k \in 1..l :
            /\ pending[k].barrel = keeper.barrels[m + k]
            /\ pending[k].barrel.id = r + k
            /\ pending[k].barrel.base =
                  IF m + k = 1 THEN 0 ELSE keeper.barrels[m + k - 1].base + keeper.barrels[m + k - 1].count
      /\ pc \in Writes \ {"write"} => Range(InfosAt(New - 1).barrels) \subseteq Range(work.infos.barrels)
  BY <1>3, <1>1 DEF PlacesInv, KeeperInv
<1>10. \A i \in 1..m : CurrentList.barrels'[i] = keeper'.barrels[i]
  <2>1. \A i \in 1..m : i \in 1..n
    BY <1>5
  <2> QED
    BY <1>3, <1>8, <1>9, <2>1
<1>11. ASSUME NEW k \in 1..Len(pending')
      PROVE /\ pending'[k].barrel = keeper'.barrels[m + k]
            /\ pending'[k].barrel.id = r + k
            /\ pending'[k].barrel.base =
                  IF m + k = 1 THEN 0 ELSE keeper'.barrels[m + k - 1].base + keeper'.barrels[m + k - 1].count
  <2>1. CASE k \in 1..l
    <3>1. m + k \in 1..n /\ (m + k # 1 => m + k - 1 \in 1..n)
      BY <1>5, <2>1
    <3>2. /\ pending'[k] = pending[k] /\ keeper'.barrels[m + k] = keeper.barrels[m + k]
          /\ m + k # 1 => keeper'.barrels[m + k - 1] = keeper.barrels[m + k - 1]
      BY <1>3, <2>1, <3>1
    <3>3. /\ pending[k].barrel = keeper.barrels[m + k]
          /\ pending[k].barrel.id = r + k
          /\ pending[k].barrel.base =
                IF m + k = 1 THEN 0 ELSE keeper.barrels[m + k - 1].base + keeper.barrels[m + k - 1].count
      BY <1>9, <2>1
    <3> QED
      BY <3>2, <3>3
  <2>2. CASE k = l + 1
    <3>1. m + k = n + 1 /\ m + k - 1 = n /\ r + k = keeper.commit + 1
      BY <1>5, <2>2
    <3>2. IsSequence(keeper.barrels)
      BY <1>3 DEF IsIndex, Ordered
    <3>3. new.base = IF m + k = 1 THEN 0 ELSE keeper'.barrels[m + k - 1].base + keeper'.barrels[m + k - 1].count
      <4>1. CASE n = 0
        <5>0. n + 1 = 1
          BY <4>1
        <5>1. keeper.barrels = <<>> /\ m + k = 1
          BY <1>1, <3>1, <3>2, <4>1, <5>0, SequenceShape
        <5>2. NextBase(keeper) = 0
          BY <5>1 DEF NextBase
        <5> QED
          BY <1>3, <5>1, <5>2
      <4>2. CASE n # 0
        <5>1. keeper.barrels # <<>> /\ n \in 1..n /\ m + k # 1
          BY SMTT(60), <1>5, <1>1, <3>1, <3>2, <4>2, SequenceShape
        <5>2. new.base = keeper.barrels[n].base + keeper.barrels[n].count
          BY <1>3, <1>1, <5>1 DEF NextBase, Last
        <5> QED
          BY <1>3, <3>1, <5>1, <5>2
      <4> QED
        BY <4>1, <4>2
    <3>4. pending'[k].barrel = new /\ keeper'.barrels[m + k] = new /\ new.id = r + k
      BY <1>3, <1>2, <2>2, <3>1
    <3> QED
      BY <3>3, <3>4
  <2>3. k \in 1..l \/ k = l + 1
    <3>1. k \in 1..(l + 1)
      BY <1>3
    <3> QED
      BY <1>5, <3>1
  <2> QED
    BY <2>1, <2>2, <2>3
<1>12. pc' \in Writes \ {"write"} => Range(InfosAt(New - 1).barrels)' \subseteq Range(work.infos.barrels)'
  BY <1>9 DEF InfosAt, New
<1>13. KeeperInv'
  BY <1>5, <1>3, <1>7, <1>8, <1>9, <1>10, <1>11, <1>12 DEF KeeperInv
<1>14. ASSUME NEW j \in 1..n PROVE DocsInKeeper(j)' = DocsInKeeper(j)
  <2>1. CASE j <= m
    <3>1. DocsInKeeper(j)' = DocsIn(keeper.barrels[j].id)'
      BY <1>7, <2>1 DEF DocsInKeeper
    <3>2. DocsInKeeper(j) = DocsIn(keeper.barrels[j].id)
      BY <1>1, <2>1 DEF DocsInKeeper
    <3>3. keeper'.barrels[j] = keeper.barrels[j]
      BY <1>3
    <3> QED
      BY <3>1, <3>2, <3>3 DEF DocsIn, New
  <2>2. CASE ~(j <= m)
    <3>1. j - m \in 1..l
      BY <1>5, <2>2
    <3>2. DocsInKeeper(j) = pending[j - m].docs
      BY <1>1, <2>2 DEF DocsInKeeper
    <3>3. DocsInKeeper(j)' = pending'[j - m].docs
      BY <1>7, <2>2 DEF DocsInKeeper
    <3> QED
      BY <1>3, <3>1, <3>2, <3>3
  <2> QED
    BY <2>1, <2>2
<1>15. DocsInKeeper(n + 1)' = building.docs
  <2>1. ~(n + 1 <= m) /\ n + 1 - m = l + 1
    BY <1>5
  <2>2. PICK j : j = n + 1
    OBVIOUS
  <2>3. pending'[l + 1].docs = building.docs
    BY <1>3
  <2>4. ~(j <= m) /\ j - m = l + 1
    BY <1>5, <2>1, <2>2
  <2>5. DocsInKeeper(j)' = pending'[j - m].docs
    BY <1>7, <2>4 DEF DocsInKeeper
  <2> QED
    BY <2>2, <2>3, <2>4, <2>5
<1>16. ASSUME NEW j \in 1..(n + 1), NEW p \in 1..keeper'.barrels[j].count
       PROVE  /\ DocsInKeeper(j)'[p] \in DOMAIN keyIndex'
              /\ keyIndex'[DocsInKeeper(j)'[p]] = keeper'.barrels[j].base + p - 1
  <2>1. CASE j \in 1..n
    <3>1. /\ DocsInKeeper(j)[p] \in DOMAIN keyIndex
          /\ keyIndex[DocsInKeeper(j)[p]] = keeper.barrels[j].base + p - 1
      BY <1>3, <1>16, <1>1, <2>1 DEF PlacesInv, KeysInv
    <3>2. \A d \in DOMAIN keyIndex : d \in DOMAIN keyIndex' /\ keyIndex'[d] = keyIndex[d]
      BY SealedKeys
    <3> QED
      BY <1>3, <1>14, <2>1, <3>1, <3>2
  <2>2. CASE j = n + 1
    <3>0. keeper'.barrels[j] = new /\ new.count = Len(building.docs) /\ new.base = NextBase(keeper)
      BY <1>3, <1>2, <2>2
    <3>1. p \in 1..Len(building.docs)
      BY <3>0
    <3>2. /\ building.docs[p] \in DOMAIN keyIndex'
          /\ keyIndex'[building.docs[p]] = NextBase(keeper) + p - 1
      BY <3>1, SealedKeys
    <3> QED
      BY <1>15, <2>2, <3>0, <3>2
  <2>3. j \in 1..n \/ j = n + 1
    BY <1>5
  <2> QED
    BY <2>1, <2>2, <2>3
<1>17. KeysInv'
  BY <1>3, <1>16 DEF KeysInv
<1> QED
  BY <1>13, <1>17

\* The batch the commit thread takes has the number the keeper gave it.
LEMMA TakeBatchKeepsPlaces ==
  ASSUME SoundInv, PlacesInv, TakeBatch
  PROVE  KeeperInv' /\ KeysInv'
<1>1. PICK l, m, r : l = Len(pending) /\ m = Committed /\ r = Reached
  OBVIOUS
<1>2. /\ Writing /\ pc' = "data" /\ pending # <<>>
      /\ pending' = Tail(pending) /\ r \in Ids \cup {INVALID_COMMIT}
      /\ m \in Nat /\ Len(InfosAt(r).barrels) = m
      /\ \A i \in 1..m : InfosAt(r).barrels[i] = keeper.barrels[i]
      /\ New' = r + 1
      /\ Len(work'.infos.barrels) = m + 1
      /\ \A i \in 1..(m + 1) : work'.infos.barrels[i] = keeper.barrels[i]
      /\ UNCHANGED <<commits, keeper, keyIndex>>
  BY <1>1, TakenBatch
<1>3. /\ Committed' = m + 1
      /\ \A j \in 1..Len(keeper.barrels) : DocsInKeeper(j)' = DocsInKeeper(j)
  BY <1>1, TakenDocs
<1>4. /\ l \in Nat /\ Len(pending') = l - 1
      /\ \A i \in 1..(l - 1) : pending'[i] = pending[i + 1]
  BY <1>1, <1>2, TailSequence, SequenceShape DEF SoundInv, DiskInv, MemoryShape
<1>5. r \in Int
  BY <1>2, IdsAreNumbers
<1>6. Reached' = r + 1
  <2>1. r = keeper.commit - l /\ keeper.commit \in Int
    BY <1>1 DEF Reached, SoundInv, DiskInv, MemoryShape
  <2>2. Reached' = keeper.commit - (l - 1)
    BY <1>2, <1>4 DEF Reached
  <2> QED
    BY <1>4, <2>1, <2>2
<1>7. CurrentList' = work'.infos
  BY <1>2 DEF CurrentList, Writes
<1>8. \A k \in 1..l :
         /\ pending[k].barrel = keeper.barrels[m + k]
         /\ pending[k].barrel.id = r + k
         /\ pending[k].barrel.base =
               IF m + k = 1 THEN 0 ELSE keeper.barrels[m + k - 1].base + keeper.barrels[m + k - 1].count
  BY <1>1, <1>2 DEF PlacesInv, KeeperInv
<1>9. ASSUME NEW k \in 1..(l - 1)
      PROVE  /\ pending'[k].barrel = keeper.barrels[m + 1 + k]
             /\ pending'[k].barrel.id = r + 1 + k
             /\ pending'[k].barrel.base =
                   IF m + 1 + k = 1 THEN 0
                   ELSE keeper.barrels[m + 1 + k - 1].base + keeper.barrels[m + 1 + k - 1].count
  <2>1. /\ k + 1 \in 1..l /\ m + (k + 1) = m + 1 + k /\ r + (k + 1) = r + 1 + k
        /\ m + (k + 1) - 1 = m + 1 + k - 1
    BY <1>2, <1>4, <1>5
  <2>2. pending'[k] = pending[k + 1]
    BY <1>4
  <2>3. /\ pending[k + 1].barrel = keeper.barrels[m + (k + 1)]
        /\ pending[k + 1].barrel.id = r + (k + 1)
        /\ pending[k + 1].barrel.base =
              IF m + (k + 1) = 1 THEN 0
              ELSE keeper.barrels[m + (k + 1) - 1].base + keeper.barrels[m + (k + 1) - 1].count
    BY <1>8, <2>1
  <2> QED
    BY <2>1, <2>2, <2>3
<1>10. Range(InfosAt(New - 1).barrels)' \subseteq Range(work.infos.barrels)'
  <2>1. New' - 1 = r
    BY <1>2, <1>5
  <2>2. InfosAt(New - 1)' = InfosAt(r)
    BY <1>2, <2>1 DEF InfosAt
  <2>3. Ordered(InfosAt(r).barrels)
    BY <1>2, NoList DEF SoundInv, ListInv, InfosAt, IsIndex, NoBarrels
  <2>4. Ordered(work'.infos.barrels)
    <3>1. ListInv'
      <4>1. [WriterNext]_storeVars
        BY DEF WriterNext, StoreNext, CommitThread
      <4> QED
        BY <4>1, StepKeepsLists DEF SoundInv
    <3> QED
      BY <3>1 DEF ListInv, IsIndex
  <2>5. ASSUME NEW b \in Range(InfosAt(r).barrels) PROVE b \in Range(work'.infos.barrels)
    <3>1. PICK i \in 1..m : b = InfosAt(r).barrels[i]
      BY <1>2, <2>3, SequenceShape DEF Ordered
    <3>2. i \in 1..(m + 1)
      BY <1>2
    <3>3. b = work'.infos.barrels[i]
      BY <1>2, <3>1, <3>2
    <3> QED
      BY <1>2, <2>4, <3>2, <3>3, SequenceShape DEF Ordered
  <2> QED
    BY <2>2, <2>5
<1>11. KeeperInv'
  <2>1. IsIndex(keeper)'
    <3>1. IsIndex(keeper)
      BY <1>2 DEF PlacesInv, KeeperInv
    <3> QED
      BY <1>2, <3>1
  <2>2. Committed' \in Nat /\ Len(CurrentList.barrels)' = Committed'
    BY <1>2, <1>3, <1>7
  <2>3. \A i \in 1..Committed' : CurrentList'.barrels[i] = keeper'.barrels[i]
    BY <1>2, <1>3, <1>7
  <2>4. \A k \in 1..Len(pending') :
              /\ pending'[k].barrel = keeper'.barrels[Committed' + k]
              /\ pending'[k].barrel.id = Reached' + k
              /\ pending'[k].barrel.base =
                    IF Committed' + k = 1 THEN 0
                    ELSE keeper'.barrels[Committed' + k - 1].base + keeper'.barrels[Committed' + k - 1].count
    BY <1>2, <1>3, <1>4, <1>6, <1>9
  <2> QED
    BY <1>10, <2>1, <2>2, <2>3, <2>4 DEF KeeperInv
<1>12. KeysInv'
  <2>1. KeysInv /\ Writing
    BY <1>2 DEF PlacesInv
  <2> QED
    BY <1>2, <1>3, <2>1 DEF KeysInv
<1> QED
  BY <1>11, <1>12

\* Merging, and the end of the process
LEMMA NoLongerWriting ==
  ASSUME DiskInv, Merge \/ MergeAborts \/ MergeProposal \/ AnyMerge \/ Crash
  PROVE  ~Writing'
<1>1. CASE MergeAborts \/ Crash
  BY <1>1 DEF MergeAborts, Crash, Writing
<1>2. CASE AnyMerge
  <2>1. PICK policy \in Policies : merging' = [NotMerging EXCEPT !.policy = policy]
    BY <1>2 DEF AnyMerge, MergeWith
  <2> QED
    BY <2>1 DEF Writing, NotMerging, Policies
<1>3. CASE Merge \/ MergeProposal
  <2>1. pc \in {"merge", "proposal"} /\ \E p : merging' = [merging EXCEPT !.proposals = p]
    BY <1>3 DEF Merge, MergeProposal
  <2>2. merging # NotMerging /\ merging.policy \in Policies
    BY <2>1 DEF DiskInv, Phases
  <2>3. merging'.policy = merging.policy
    BY <2>1 DEF DiskInv, MemoryShape
  <2>4. merging'.policy # NotMerging.policy
    BY <2>2, <2>3 DEF NotMerging, Policies
  <2> QED
    BY <2>4 DEF Writing
<1> QED
  BY <1>1, <1>2, <1>3

LEMMA StepKeepsKeeper == SoundInv /\ PlacesInv /\ [WriterNext]_storeVars => KeeperInv' /\ KeysInv'
<1> SUFFICES ASSUME SoundInv, PlacesInv, [WriterNext]_storeVars, Writing' PROVE KeeperInv' /\ KeysInv'
  BY DEF KeeperInv, KeysInv
<1>1. DiskInv /\ KeeperInv /\ KeysInv /\ ListsApart
  BY DEF SoundInv, PlacesInv
<1>2. CASE Open
  BY <1>1, <1>2, OpenKeepsPlaces
<1>3. ASSUME status \in {"open", "closing"}, UNCHANGED merging PROVE Writing
  BY <1>3 DEF Writing
<1>4. CASE Add \/ \E d \in Documents : DeleteOnDisk(d) \/ DeleteInMemory(d)
  <2>1. status = "open" /\ UNCHANGED <<merging, keeper, pending, keyIndex, commits, dirs, work, pc>>
    BY <1>4 DEF Add, DeleteOnDisk, DeleteInMemory, disk, thread
  <2>2. Writing
    BY <1>3, <2>1
  <2>3. UNCHANGED <<keeper, pending, keyIndex, commits, dirs, work>>
    BY <2>1
  <2>4. pc' = pc
    BY <2>1
  <2>5. (pc' \in Writes <=> pc \in Writes) /\ (pc' = "write" <=> pc = "write")
    BY <2>4
  <2> QED
    BY <1>1, <2>2, <2>3, <2>5, QuietKeepsPlaces
<1>5. CASE Seal
  <2>1. status = "open" /\ (SealDocuments \/ SealDeletions) /\ UNCHANGED <<commits, dirs, pc, work>>
    BY <1>5 DEF Seal, disk, thread
  <2> QED
    BY <2>1, SealKeepsPlaces
<1>6. CASE Close
  <2>1. status = "open" /\ UNCHANGED <<merging, commits, dirs, pc, work>>
    BY <1>6 DEF Close, disk, thread
  <2>2. CASE SealDocuments \/ SealDeletions
    BY <2>1, <2>2, SealKeepsPlaces
  <2>3. CASE UNCHANGED <<keeper, filter, bits, keyIndex, pending>>
    <3>1. Writing
      BY <1>3, <2>1
    <3>2. UNCHANGED <<keeper, pending, keyIndex, commits, dirs, work>>
      BY <2>1, <2>3
    <3>3. pc' = pc
      BY <2>1, <2>3
    <3>4. (pc' \in Writes <=> pc \in Writes) /\ (pc' = "write" <=> pc = "write")
      BY <3>3
    <3> QED
      BY <1>1, <3>1, <3>2, <3>4, QuietKeepsPlaces
  <2> QED
    BY <1>6, <2>2, <2>3 DEF Close
<1>7. CASE TakeBatch
  BY <1>7, TakeBatchKeepsPlaces
<1>8. CASE WriteData \/ WriteDeletions \/ WriteRest \/ CreateCommitFile
  <2>1. UNCHANGED <<status, merging>>
    BY <1>8 DEF WriteData, WriteDeletions, WriteRest, CreateCommitFile, memory
  <2>2. Writing
    BY <2>1 DEF Writing
  <2> QED
    BY <1>1, <1>8, <2>2, WritingKeepsPlaces
<1>9. CASE WriteCommitFile
  <2>1. UNCHANGED <<status, merging>>
    BY <1>9 DEF WriteCommitFile, memory
  <2>2. Writing
    BY <2>1 DEF Writing
  <2>3. pc' \notin Writes
    BY <1>9 DEF WriteCommitFile, Writes
  <2> QED
    BY <1>1, <1>9, <2>2, <2>3, CommitFileKeepsPlaces
<1>10. CASE DropCommit \/ RemoveDir
  <2>1. UNCHANGED <<status, merging>>
    BY <1>10 DEF DropCommit, RemoveDir, memory
  <2>2. Writing
    BY <2>1 DEF Writing
  <2> QED
    BY <1>1, <1>10, <2>2, CleanerKeepsPlaces
<1>11. CASE Reserve
  <2>1. /\ UNCHANGED <<status, merging, keeper, pending, keyIndex, commits, dirs, work>>
        /\ (pc' \in Writes <=> pc \in Writes) /\ (pc' = "write" <=> pc = "write")
    BY <1>11 DEF Reserve, memory, disk, Writes
  <2>2. Writing
    BY <2>1 DEF Writing
  <2> QED
    BY <1>1, <2>1, <2>2, QuietKeepsPlaces
<1>12. CASE Cleaned
  <2>1. /\ UNCHANGED <<status, merging, keeper, pending, keyIndex, commits, dirs, work>>
        /\ (pc' \in Writes <=> pc \in Writes) /\ (pc' = "write" <=> pc = "write")
    BY <1>12 DEF Cleaned, memory, disk, Writes, Writing
  <2>2. Writing
    BY <2>1 DEF Writing
  <2> QED
    BY <1>1, <2>1, <2>2, QuietKeepsPlaces
<1>13. CASE UNCHANGED storeVars
  <2>1. UNCHANGED <<status, merging, keeper, pending, keyIndex, commits, dirs, work, pc>>
    BY <1>13 DEF storeVars, memory, disk, thread
  <2>2. Writing
    BY <2>1 DEF Writing
  <2>3. UNCHANGED <<keeper, pending, keyIndex, commits, dirs, work>>
    BY <2>1
  <2>4. pc' = pc
    BY <2>1
  <2>5. (pc' \in Writes <=> pc \in Writes) /\ (pc' = "write" <=> pc = "write")
    BY <2>4
  <2> QED
    BY <1>1, <2>2, <2>3, <2>5, QuietKeepsPlaces
<1>14. CASE Merge \/ MergeAborts \/ MergeProposal \/ AnyMerge \/ Crash
  BY <1>1, <1>14, NoLongerWriting
<1> QED
  BY <1>2, <1>4, <1>5, <1>6, <1>7, <1>8, <1>9, <1>10, <1>11, <1>12, <1>13, <1>14, LastMergeIsAny
  DEF WriterNext, StoreNext, CommitThread

LEMMA StepKeepsPlaces == SoundInv /\ PlacesInv /\ [WriterNext]_storeVars => PlacesInv'
BY StepKeepsApart, StepKeepsKnown, StepKeepsBuilding, StepKeepsRoom, StepKeepsKeeper DEF PlacesInv

\* the keys of the newest commit are among those of the keeper's list
LEMMA KeysAreRight == SoundInv /\ PlacesInv => KeysPointAtDocuments
<1> SUFFICES ASSUME SoundInv, PlacesInv, NEW c \in Ids, IsLast(c), commits[c].state = "whole", Writing,
                    NEW b \in Range(commits[c].barrels), NEW i \in 1..b.count
             PROVE  dirs[b.id].docs[i] \in DOMAIN keyIndex /\ keyIndex[dirs[b.id].docs[i]] = b.base + i - 1
  BY DEF KeysPointAtDocuments
<1>1. KeeperInv /\ KeysInv /\ DiskInv
  BY DEF SoundInv, PlacesInv
<1>2. DocsIn(b.id) = dirs[b.id].docs
  BY <1>1, ListedBarrels
<1>3. b \in Range(CurrentList.barrels)
  <2>1. CASE pc \notin Writes
    <3>1. c = Reached
      BY <2>1, OneLast, CurrentIs
    <3> QED
      BY <2>1, <3>1, IdsAreNumbers DEF CurrentList, InfosAt
  <2>2. CASE pc = "write"
    <3>1. IsLast(New) /\ commits[New].state = "torn"
      BY <1>1, <2>2 DEF DiskInv, WorkIntact, Writes
    <3> QED
      BY <3>1, OneLast
  <2>3. CASE pc \in Writes \ {"write"}
    <3>1. IsLast(New - 1)
      BY <1>1, <2>3 DEF DiskInv, WorkIntact
    <3>2. c = New - 1 /\ c # INVALID_COMMIT
      BY <3>1, OneLast, IdsAreNumbers
    <3>3. b \in Range(InfosAt(New - 1).barrels)
      BY <3>2 DEF InfosAt
    <3> QED
      BY <1>1, <2>3, <3>3 DEF KeeperInv, CurrentList
  <2> QED
    BY <2>1, <2>2, <2>3
<1>4. Ordered(CurrentList.barrels)
  BY CurrentIs
<1>5. PICK j \in 1..Committed : b = CurrentList.barrels[j]
  BY <1>1, <1>3, <1>4, SequenceShape DEF Ordered, KeeperInv
<1>6. b = keeper.barrels[j] /\ j <= Committed /\ j \in 1..Len(keeper.barrels)
  <2>1. Committed \in Nat /\ Committed = Len(keeper.barrels) - Len(pending) /\ Len(pending) \in Nat
    BY <1>1, SequenceShape DEF KeeperInv, Committed, DiskInv, MemoryShape
  <2>2. Len(keeper.barrels) \in Nat
    BY <1>1, SequenceShape DEF KeeperInv, IsIndex, Ordered
  <2>3. b = keeper.barrels[j]
    BY <1>1, <1>5 DEF KeeperInv
  <2> QED
    BY <2>1, <2>2, <2>3
<1>7. DocsInKeeper(j) = dirs[b.id].docs
  BY <1>2, <1>6 DEF DocsInKeeper
<1> QED
  BY <1>1, <1>6, <1>7 DEF KeysInv

LEMMA InitPlaces == StoreInit => SoundInv /\ PlacesInv
<1> SUFFICES ASSUME StoreInit PROVE SoundInv /\ PlacesInv
  OBVIOUS
<1>1. NotRunning /\ ~Writing
  BY DEF StoreInit, NotRunning, Writing
<1>2. /\ pc = "idle" /\ work.docs = <<>> /\ pending = <<>> /\ building = NoBuilding
      /\ keyIndex = <<>> /\ filter = <<>> /\ status = "closed" /\ handedIn = 0
  BY <1>1, NotRunningShapes DEF NotRunning, StoreInit
<1>3. \A c \in Ids : dirs[c].docs = <<>> /\ commits[c].barrels = <<>>
  BY DEF StoreInit, NoDir, NoFile
<1>4. \A d, b \in Ids : ~HasFile(d, b)
  BY DEF StoreInit, HasFile, NoDir
<1>5. SoundInv
  BY <1>1, <1>4, InitDiskInv, StoreInitLists DEF SoundInv, DeletionsInv, FilesGrow, KeeperAhead, BitsKnown
<1>6. ListsApart
  BY <1>2, <1>3, EmptySequence DEF ListsApart, Apart, Writes
<1>7. DocsKnown
  BY <1>2, <1>3, EmptySequence DEF DocsKnown
<1>8. BuildingInv
  <2>1. building.docs = <<>> /\ DOMAIN keyIndex = {} /\ Range(<<>>) = {} /\ 1..Len(<<>>) = {}
    BY <1>2, EmptySequence DEF NoBuilding
  <2> QED
    BY <2>1 DEF BuildingInv
<1>9. RoomInv
  BY <1>2, EmptySequence DEF RoomInv, IsFilter
<1> QED
  BY <1>1, <1>5, <1>6, <1>7, <1>8, <1>9 DEF PlacesInv, KeeperInv, KeysInv

LEMMA StorePlaces == StoreSpec => [](SoundInv /\ PlacesInv)
<1>1. SoundInv /\ PlacesInv /\ [StoreNext]_storeVars => SoundInv' /\ PlacesInv'
  BY StepKeepsSound, StepKeepsPlaces DEF WriterNext
<1> QED
  BY <1>1, InitPlaces, PTL DEF StoreSpec

\* The document id under which the primary key index of the writing process knows a
\* document is its id in the newest commit that can be read, although the keeper and the
\* commit thread number documents independently (IndexBarrelKeeper::updateBarrelInfo,
\* BarrelsInfo::newBarrel in IndexBarrelWriter::commit).
THEOREM KeysAreTheDocuments == StoreSpec => []KeysPointAtDocuments
BY StorePlaces, KeysAreRight, PTL

-----------------------------------------------------------------------------
(* Type correctness                                                        *)

Fits(S) == \A b \in S : b.count <= MaxDocs /\ b.deleted <= MaxDocs

MemoryFits ==
    /\ IsIndex(keeper) /\ Fits(Range(keeper.barrels))
    /\ \A i \in 1..Len(filter) : Fits({filter[i].barrel})

\* No list of barrels counts more documents than there are.
BoundInv ==
    /\ \A c \in Ids : Fits(Range(commits[c].barrels))
    /\ Fits(Range(work.infos.barrels))
    /\ MemoryFits

\* What is written of a filter are bits of documents, barrel by barrel.
FileInv ==
    /\ \A k \in 1..Len(pending) : pending[k].dirty \subseteq Ids
    /\ work.dirty \subseteq Ids
    /\ \A c \in Ids : DOMAIN dirs[c].deletions \subseteq Ids
    /\ \A c \in Ids : \A b \in DOMAIN dirs[c].deletions : dirs[c].deletions[b] \subseteq 0..MaxDocs
    /\ \A c \in Ids : bits[c] \subseteq 0..MaxDocs

HistoryInv ==
    /\ handedIn \in 0..MaxDocs /\ asked \subseteq Documents /\ crashes \in 0..MaxCrashes
    /\ fresh \in BOOLEAN
    /\ merging.policy \in Policies \cup {"none"}

LEMMA FewDocs ==
  ASSUME NEW s, IsSequence(s), NEW n \in Nat, Range(s) \subseteq 1..n,
         \A i, k \in 1..Len(s) : s[i] = s[k] => i = k
  PROVE  Len(s) <= n
<1> PICK l : l = Len(s)
  OBVIOUS
<1>1. l \in Nat /\ DOMAIN s = 1..l /\ \A i \in 1..l : s[i] \in 1..n
  BY SequenceShape
<1> SUFFICES ASSUME n < l PROVE FALSE
  BY <1>1
<1>2. /\ IsFiniteSet(1..l) /\ Cardinality(1..l) = l
      /\ IsFiniteSet(1..n) /\ Cardinality(1..n) = n
  <2>1. /\ IsFiniteSet(1..l) /\ Cardinality(1..l) = IF 1 > l THEN 0 ELSE l - 1 + 1
        /\ IsFiniteSet(1..n) /\ Cardinality(1..n) = IF 1 > n THEN 0 ELSE n - 1 + 1
    BY <1>1, FS_Interval
  <2>2. (IF 1 > l THEN 0 ELSE l - 1 + 1) = l /\ (IF 1 > n THEN 0 ELSE n - 1 + 1) = n
    BY <1>1
  <2> QED
    BY <2>1, <2>2
<1> DEFINE f == [i \in 1..l |-> s[i]]
<1>3. f \in [1..l -> 1..n]
  BY <1>1
<1>4. \E x, y \in 1..l : x # y /\ f[x] = f[y]
  <2> HIDE DEF f
  <2> QED
    BY SMTT(60), <1>2, <1>3, FS_PigeonHole
<1> QED
  BY <1>4

LEMMA StepKeepsHistory == HistoryInv /\ DiskInv /\ BuildingInv /\ DocsShape /\ [WriterNext]_storeVars => HistoryInv'
<1> SUFFICES ASSUME HistoryInv, DiskInv, BuildingInv, DocsShape, [WriterNext]_storeVars PROVE HistoryInv'
  OBVIOUS
<1> USE DEF HistoryInv
<1>0. MaxDocs \in Nat /\ MaxCrashes \in Nat /\ NotMerging.policy = "none"
  BY BoundAssumption DEF NotMerging
<1>1. CASE Open \/ Seal \/ Close \/ UNCHANGED storeVars
  BY <1>1 DEF Open, Seal, Close, storeVars, history, memory
<1>2. CASE Add
  BY <1>0, <1>2 DEF Add
<1>3. CASE \E d \in Documents : DeleteOnDisk(d) \/ DeleteInMemory(d)
  BY <1>3 DEF DeleteOnDisk, DeleteInMemory
<1>4. CASE AnyMerge
  <2>1. PICK policy \in Policies : merging' = [NotMerging EXCEPT !.policy = policy]
    BY <1>4 DEF AnyMerge, MergeWith
  <2>2. merging'.policy = policy
    BY <2>1 DEF NotMerging
  <2> QED
    BY <1>4, <2>2 DEF AnyMerge, MergeWith, history
<1>5. CASE Merge \/ MergeProposal
  <2>1. \E p : merging' = [merging EXCEPT !.proposals = p]
    BY <1>5 DEF Merge, MergeProposal
  <2>2. merging'.policy = merging.policy
    BY <2>1 DEF DiskInv, MemoryShape
  <2> QED
    BY <1>5, <2>2 DEF Merge, MergeProposal, history
<1>6. CASE MergeAborts
  BY <1>0, <1>6 DEF MergeAborts, Forgotten, history
<1>7. CASE Crash
  <2>1. crashes' = crashes + 1 /\ crashes < MaxCrashes /\ UNCHANGED <<handedIn, asked>>
    BY <1>7 DEF Crash
  <2>2. fresh' = FALSE /\ merging' = NotMerging
    BY <1>7 DEF Crash, Forgotten
  <2>3. crashes' \in 0..MaxCrashes
    BY <1>0, <2>1
  <2> QED
    BY <1>0, <2>1, <2>2, <2>3
<1>8. CASE TakeBatch \/ WriteData \/ WriteDeletions \/ WriteRest \/ CreateCommitFile \/ WriteCommitFile
           \/ DropCommit \/ Reserve \/ RemoveDir
  BY <1>8 DEF TakeBatch, WriteData, WriteDeletions, WriteRest, CreateCommitFile, WriteCommitFile,
     DropCommit, Reserve, RemoveDir, memory, history
<1>9. CASE Cleaned
  BY <1>0, <1>9 DEF Cleaned, Forgotten, memory, history
<1> QED
  BY <1>1, <1>2, <1>3, <1>4, <1>5, <1>6, <1>7, <1>8, <1>9, LastMergeIsAny DEF WriterNext, StoreNext, CommitThread

\* the barrel that is sealed
LEMMA SealFits ==
  ASSUME SoundInv, PlacesInv, BoundInv, HistoryInv, status = "open", SealDocuments \/ SealDeletions
  PROVE  /\ IsIndex(keeper') /\ Fits(Range(keeper'.barrels))
         /\ \A i \in 1..Len(filter') : Fits({filter'[i].barrel})
<1>1. PICK n, new : n = Len(keeper.barrels) /\ new = keeper'.barrels[n + 1]
  OBVIOUS
<1>2. /\ IsIndex(keeper) /\ IsIndex(keeper') /\ n \in Nat
      /\ Len(keeper'.barrels) = n + 1
      /\ \A i \in 1..n : keeper'.barrels[i] = keeper.barrels[i]
      /\ new.count = Len(building.docs)
      /\ new.deleted = IF building.docs = <<>> THEN 0 ELSE Cardinality(building.deleted)
      /\ \A i \in 1..Len(filter') :
            filter'[i].barrel = new \/ \E k \in 1..Len(filter) : filter'[i].barrel = filter[k].barrel
  BY <1>1, Sealing
<1>3. MaxDocs \in Nat /\ handedIn \in Nat /\ handedIn <= MaxDocs /\ 1..handedIn \subseteq 1..MaxDocs
  BY BoundAssumption DEF HistoryInv
<1>4. Len(building.docs) <= handedIn /\ Len(building.docs) \in Nat
  BY <1>3, FewDocs, SequenceShape DEF PlacesInv, BuildingInv, SoundInv, DocsShape
<1>5. Cardinality(building.deleted) <= MaxDocs
  <2>1. building.deleted \subseteq 1..MaxDocs
    BY <1>3 DEF PlacesInv, BuildingInv, SoundInv, DocsShape
  <2>2. IsFiniteSet(1..MaxDocs) /\ Cardinality(1..MaxDocs) = MaxDocs
    BY <1>3, FS_Interval
  <2> QED
    BY <2>1, <2>2, FS_Subset
<1>6. new.count <= MaxDocs /\ new.deleted <= MaxDocs
  BY <1>2, <1>3, <1>4, <1>5
<1>7. ASSUME NEW b \in Range(keeper'.barrels) PROVE b \in Range(keeper.barrels) \/ b = new
  <2>1. IsSequence(keeper.barrels) /\ IsSequence(keeper'.barrels)
    BY <1>2 DEF IsIndex, Ordered
  <2>2. PICK i \in 1..(n + 1) : b = keeper'.barrels[i]
    BY <1>2, <2>1, SequenceShape
  <2>3. i \in 1..n \/ i = n + 1
    BY <1>2
  <2>4. i \in 1..n => keeper.barrels[i] \in Range(keeper.barrels)
    BY <1>1, <2>1, SequenceShape
  <2> QED
    BY <1>1, <1>2, <2>2, <2>3, <2>4
<1> QED
  BY <1>2, <1>6, <1>7 DEF BoundInv, MemoryFits, Fits

\* who changes what is being written
LEMMA WorkSteps ==
  ASSUME [WriterNext]_storeVars
  PROVE  UNCHANGED work \/ TakeBatch \/ MergeProposal \/ WriteCommitFile \/ Merge \/ Crash
<1>1. CASE CommitThread
  BY <1>1 DEF CommitThread, WriteData, WriteDeletions, WriteRest, CreateCommitFile,
     DropCommit, Reserve, RemoveDir, Cleaned, MergeAborts
<1>2. CASE Open \/ Add \/ Seal \/ Close \/ AnyMerge
  BY <1>2 DEF Open, Add, Seal, Close, AnyMerge, MergeWith, thread
<1>3. CASE \E d \in Documents : DeleteOnDisk(d) \/ DeleteInMemory(d)
  BY <1>3 DEF DeleteOnDisk, DeleteInMemory, thread
<1> QED
  BY <1>1, <1>2, <1>3, LastMergeIsAny DEF WriterNext, StoreNext, storeVars, thread

LEMMA StepKeepsBounds == SoundInv /\ PlacesInv /\ BoundInv /\ HistoryInv /\ [WriterNext]_storeVars => BoundInv'
<1> SUFFICES ASSUME SoundInv, PlacesInv, BoundInv, HistoryInv, [WriterNext]_storeVars PROVE BoundInv'
  OBVIOUS
<1>1. Fits({}) /\ Range(<<>>) = {} /\ IsIndex(NoBarrels) /\ NoBarrels.barrels = <<>> /\ NoWork.infos = NoBarrels
  BY EmptySequence, NoList DEF Fits, NoBarrels
<1>2. \A c \in Ids : Fits(Range(commits[c].barrels))'
  <2> SUFFICES ASSUME NEW c \in Ids PROVE Fits(Range(commits'[c].barrels))
    BY DEF Fits
  <2>1. \/ commits'[c].barrels = commits[c].barrels
        \/ commits'[c].barrels = <<>>
        \/ commits'[c].barrels = work.infos.barrels
    BY CommitsGoOn DEF SoundInv
  <2> QED
    BY <1>1, <2>1 DEF BoundInv
<1>3. ASSUME NEW c \in Ids \cup {INVALID_COMMIT} PROVE IsIndex(InfosAt(c)) /\ Fits(Range(InfosAt(c).barrels))
  <2>1. IsIndex(InfosAt(c))
    BY NoList DEF SoundInv, ListInv, InfosAt
  <2> QED
    BY <1>1, <2>1 DEF BoundInv, InfosAt
<1>4. Fits(Range(work.infos.barrels))'
  <2>1. CASE UNCHANGED work
    BY <2>1 DEF BoundInv, Fits
  <2>2. CASE TakeBatch
    <3>1. PICK m, s : m = Committed /\ s = work'.infos.barrels
      OBVIOUS
    <3>2. /\ m \in Nat /\ m + 1 <= Len(keeper.barrels) /\ Len(s) = m + 1
          /\ \A i \in 1..(m + 1) : s[i] = keeper.barrels[i]
      BY <2>2, <3>1, TakenBatch
    <3>3. IsSequence(s)
      <4>1. ListInv'
        BY StepKeepsLists DEF SoundInv
      <4> QED
        BY <3>1, <4>1 DEF ListInv, IsIndex, Ordered
    <3>4. IsSequence(keeper.barrels) /\ Fits(Range(keeper.barrels))
      BY DEF BoundInv, MemoryFits, IsIndex, Ordered
    <3>5. ASSUME NEW b \in Range(s) PROVE b \in Range(keeper.barrels)
      <4>1. PICK i \in 1..(m + 1) : b = s[i]
        BY <3>2, <3>3, SequenceShape
      <4>2. i \in 1..Len(keeper.barrels)
        BY <3>2, <3>4, SequenceShape
      <4> QED
        BY <3>2, <3>4, <4>1, <4>2, SequenceShape
    <3> QED
      BY <3>1, <3>4, <3>5 DEF Fits
  <2>3. CASE MergeProposal
    <3>1. PICK part, new, which, home : IsMerge(part, new, which, home)
      BY <2>3, MergedProposal
    <3>2. /\ Range(work.infos.barrels)' = (Range(work.infos.barrels) \ Range(part.barrels)) \cup {new}
          /\ new.id = New + 1 /\ new.count = Len(work.docs') /\ new.deleted = 0
      BY <3>1 DEF IsMerge
    <3>3. pc' = "data" /\ New' = New + 1 /\ IsSequence(work.docs')
      BY <2>3, MergedProposal
    <3>4. DocsIn(new.id)' = work.docs'
      BY <3>2, <3>3 DEF DocsIn, Writes
    <3>5. Apart(Range(work.infos.barrels))'
      BY <3>3, StepKeepsApart DEF ListsApart, Writes
    <3>6. \A i, k \in 1..Len(work.docs') : work.docs'[i] = work.docs'[k] => i = k
      BY <3>2, <3>4, <3>5 DEF Apart
    <3>7. MaxDocs \in Nat /\ handedIn \in Nat /\ handedIn <= MaxDocs
      BY BoundAssumption DEF HistoryInv
    <3>8. Range(work.docs') \subseteq 1..handedIn
      BY WorkDocs
    <3>9. Len(work.docs') <= handedIn /\ Len(work.docs') \in Nat
      BY <3>3, <3>6, <3>7, <3>8, FewDocs, SequenceShape
    <3> QED
      BY <3>2, <3>7, <3>9 DEF BoundInv, Fits
  <2>4. CASE WriteCommitFile
    <3>1. work' = NoWork \/ work' = [NoWork EXCEPT !.infos = work.infos]
      BY <2>4 DEF WriteCommitFile
    <3>2. work'.infos.barrels = <<>> \/ work'.infos.barrels = work.infos.barrels
      BY <1>1, <3>1 DEF NoWork
    <3> QED
      BY <1>1, <3>2 DEF BoundInv, Fits
  <2>5. CASE Merge
    <3>1. PICK c \in Ids \cup {INVALID_COMMIT} : work' = NoWork \/ work' = [NoWork EXCEPT !.infos = InfosAt(c)]
      BY <2>5 DEF Merge
    <3>2. work'.infos.barrels = <<>> \/ work'.infos.barrels = InfosAt(c).barrels
      BY <1>1, <3>1 DEF NoWork
    <3> QED
      BY <1>1, <1>3, <3>2 DEF Fits
  <2>6. CASE Crash
    BY <1>1, <2>6 DEF Crash, Fits
  <2>7. UNCHANGED work \/ TakeBatch \/ MergeProposal \/ WriteCommitFile \/ Merge \/ Crash
    BY WorkSteps
  <2> QED
    BY <2>1, <2>2, <2>3, <2>4, <2>5, <2>6, <2>7
<1>5. MemoryFits
  BY DEF BoundInv
<1>6. ASSUME Open PROVE MemoryFits'
  <2>1. PICK c \in Ids \cup {INVALID_COMMIT} : keeper' = InfosAt(c) /\ filter' = OpenFilter(InfosAt(c))
    BY <1>6 DEF Open
  <2>2. IsIndex(InfosAt(c)) /\ Fits(Range(InfosAt(c).barrels))
    BY <1>3
  <2>3. PICK s : s = InfosAt(c).barrels
    OBVIOUS
  <2>4. IsSequence(s) /\ Len(s) \in Nat /\ DOMAIN s = 1..Len(s) /\ Range(s) = {s[i] : i \in 1..Len(s)}
    BY <2>2, <2>3, SequenceShape DEF IsIndex, Ordered
  <2>5. filter' = [i \in 1..Len(s) |-> [barrel |-> s[i], dirty |-> FALSE]]
    BY <2>1, <2>3, <2>4 DEF OpenFilter
  <2>6. Len(filter') = Len(s)
    BY <2>4, <2>5
  <2>7. \A i \in 1..Len(filter') : filter'[i].barrel \in Range(s)
    BY <2>4, <2>5, <2>6
  <2> QED
    BY <2>1, <2>2, <2>3, <2>7 DEF Fits, MemoryFits
<1>7. ASSUME Seal \/ Close PROVE MemoryFits'
  <2>1. CASE SealDocuments \/ SealDeletions
    <3>1. status = "open"
      BY <1>7 DEF Seal, Close
    <3> QED
      BY <2>1, <3>1, SealFits DEF Fits, MemoryFits
  <2>2. CASE UNCHANGED <<keeper, filter>>
    BY <1>5, <2>2 DEF MemoryFits
  <2> QED
    BY <1>7, <2>1, <2>2 DEF Seal, Close
<1>8. ASSUME Add PROVE MemoryFits'
  BY <1>5, <1>8 DEF Add, MemoryFits
<1>9. ASSUME NEW d \in Documents, DeleteOnDisk(d) \/ DeleteInMemory(d) PROVE MemoryFits'
  <2>1. CASE DeleteInMemory(d)
    BY <1>5, <2>1 DEF DeleteInMemory, MemoryFits
  <2>2. CASE DeleteOnDisk(d)
    <3>1. PICK i \in DOMAIN filter : filter' = [filter EXCEPT ![i].dirty = TRUE] /\ keeper' = keeper
      BY <2>2 DEF DeleteOnDisk
    <3>2. IsFilter(filter)
      BY DEF PlacesInv, RoomInv
    <3>3. DOMAIN filter = 1..Len(filter) /\ Len(filter) \in Nat
      BY <3>2, SequenceShape DEF IsFilter
    <3>4. \A k \in 1..Len(filter) : filter[k] = [barrel |-> filter[k].barrel, dirty |-> filter[k].dirty]
      BY <3>2 DEF IsFilter
    <3>5. DOMAIN filter' = DOMAIN filter
      BY <3>1
    <3>6. Len(filter') = Len(filter)
      <4>1. IsFilter([filter EXCEPT ![i].dirty = TRUE])
        BY <3>2, MarkedFilter
      <4>2. DOMAIN filter' = 1..Len(filter') /\ Len(filter') \in Nat
        BY <3>1, <4>1, SequenceShape DEF IsFilter
      <4> QED
        BY <3>3, <3>5, <4>2
    <3>7. \A k \in 1..Len(filter) : filter'[k] = filter[k] \/ filter'[k] = [filter[k] EXCEPT !.dirty = TRUE]
      BY <3>1, <3>3
    <3>8. \A k \in 1..Len(filter) : filter'[k].barrel = filter[k].barrel
      BY <3>4, <3>7
    <3> QED
      BY <1>5, <3>1, <3>6, <3>8 DEF MemoryFits
  <2> QED
    BY <1>9, <2>1, <2>2
<1>10. ASSUME Forgotten PROVE MemoryFits'
  <2>1. keeper' = NoBarrels /\ filter' = <<>> /\ 1..Len(<<>>) = {}
    BY <1>10, EmptySequence DEF Forgotten
  <2> QED
    BY <1>1, <2>1 DEF MemoryFits
<1>11. ASSUME UNCHANGED <<status, building, keeper, filter, bits, keyIndex, handedIn, asked>> PROVE MemoryFits'
  BY <1>5, <1>11 DEF MemoryFits
<1>12. MemoryFits'
  <2>1. \/ Open \/ Add \/ Seal \/ Close
        \/ \E d \in Documents : DeleteOnDisk(d) \/ DeleteInMemory(d)
        \/ Forgotten
        \/ UNCHANGED <<status, building, keeper, filter, bits, keyIndex, handedIn, asked>>
    BY ThreadSteps
  <2> QED
    BY <1>6, <1>7, <1>8, <1>9, <1>10, <1>11, <2>1
<1> QED
  BY <1>2, <1>4, <1>12 DEF BoundInv

\* the documents in the barrel being built
LEMMA BuildingFits == ASSUME SoundInv, PlacesInv, HistoryInv PROVE Len(building.docs) \in 0..MaxDocs
<1>1. MaxDocs \in Nat /\ handedIn \in Nat /\ handedIn <= MaxDocs
  BY BoundAssumption DEF HistoryInv
<1>2. Len(building.docs) <= handedIn /\ Len(building.docs) \in Nat
  BY <1>1, FewDocs, SequenceShape DEF PlacesInv, BuildingInv, SoundInv, DocsShape
<1> QED
  BY <1>1, <1>2

LEMMA StepKeepsBits ==
  ASSUME SoundInv, PlacesInv, BoundInv, HistoryInv, FileInv, [WriterNext]_storeVars, NEW x \in Ids
  PROVE  bits'[x] \subseteq 0..MaxDocs
<1>1. bits = [c \in Ids |-> bits[c]] /\ bits[x] \subseteq 0..MaxDocs /\ MaxDocs \in Nat
  BY BoundAssumption DEF SoundInv, DiskInv, MemoryShape, FileInv
<1>2. ASSUME NEW b \in Ids, NEW S, S \subseteq 0..MaxDocs, bits' = [bits EXCEPT ![b] = S]
      PROVE  bits'[x] \subseteq 0..MaxDocs
  BY <1>1, <1>2
<1>3. CASE Open
  <2>1. PICK c \in Ids \cup {INVALID_COMMIT} : bits' = OpenedBits(InfosAt(c))
    BY <1>3 DEF Open
  <2>2. InfosAt(c).commit = c /\ c \in Int
    <3>1. InfosAt(c).commit = c
      BY DEF InfosAt, NoBarrels
    <3> QED
      BY <3>1, IdsAreNumbers, IdIsNumber
  <2>3. bits'[x] = LatestFilter(x, x, c)
    BY <2>1, <2>2 DEF OpenedBits
  <2>4. LatestFilter(x, x, c) = {} \/ \E m \in Ids : HasFile(m, x) /\ LatestFilter(x, x, c) = dirs[m].deletions[x]
    BY <2>2, LatestIsLast DEF SoundInv, DiskInv
  <2> QED
    BY <2>3, <2>4 DEF HasFile, FileInv
<1>4. ASSUME status = "open", SealDocuments PROVE bits'[x] \subseteq 0..MaxDocs
  <2> DEFINE infos == NewBarrel(keeper, Len(building.docs), Cardinality(building.deleted))
             new == Last(infos.barrels)
             S == {i - 1 : i \in {i \in DOMAIN building.docs : building.docs[i] \in building.deleted}}
  <2>1. bits' = [bits EXCEPT ![new.id] = S] /\ keeper' = infos
    BY <1>4 DEF SealDocuments
  <2>2. S \subseteq 0..MaxDocs
    <3>1. DOMAIN building.docs = 1..Len(building.docs)
      BY SequenceShape DEF SoundInv, DocsShape
    <3>2. \A i \in 1..Len(building.docs) : i - 1 \in 0..MaxDocs
      BY <1>1, BuildingFits
    <3> QED
      BY <3>1, <3>2
  <2> HIDE DEF S
  <2>3. CASE new.id \in Ids
    BY <1>2, <2>1, <2>2, <2>3
  <2>4. CASE new.id \notin Ids
    BY <1>1, <2>1, <2>4
  <2> QED
    BY <2>3, <2>4
<1>5. CASE Seal \/ Close
  <2>1. status = "open" /\ (SealDocuments \/ UNCHANGED bits)
    BY <1>5 DEF Seal, Close, SealDeletions
  <2> QED
    BY <1>1, <1>4, <2>1
<1>6. CASE Add
  BY <1>1, <1>6 DEF Add
<1>7. ASSUME NEW d \in Documents, DeleteOnDisk(d) PROVE bits'[x] \subseteq 0..MaxDocs
  <2>1. PICK i \in DOMAIN filter :
           /\ Covers(filter[i], keyIndex[d])
           /\ bits' = [bits EXCEPT ![filter[i].barrel.id] = @ \cup {keyIndex[d] - filter[i].barrel.base}]
           /\ d \in DOMAIN keyIndex
    BY <1>7 DEF DeleteOnDisk
  <2> DEFINE b == filter[i].barrel
  <2>2. IsEntry(b) /\ b.count <= MaxDocs
    <3>1. i \in 1..Len(filter)
      BY SequenceShape DEF PlacesInv, RoomInv, IsFilter
    <3> QED
      BY <3>1 DEF PlacesInv, RoomInv, IsFilter, BoundInv, MemoryFits, Fits
  <2>3. keyIndex[d] \in Nat
    BY <2>1 DEF PlacesInv, BuildingInv
  <2>4. b.base <= keyIndex[d] /\ keyIndex[d] < b.base + b.count
    BY <2>1 DEF Covers
  <2>5. b.base \in Nat /\ b.count \in Nat /\ b.id \in Ids
    BY <2>2 DEF IsEntry
  <2> DEFINE local == keyIndex[d] - b.base
  <2>6. local \in 0..MaxDocs
    <3> HIDE DEF b
    <3> QED
      BY <1>1, <2>2, <2>3, <2>4, <2>5
  <2>7. bits' = [bits EXCEPT ![b.id] = bits[b.id] \cup {local}]
    BY <2>1
  <2>8. bits[b.id] \cup {local} \subseteq 0..MaxDocs
    BY <2>5, <2>6 DEF FileInv
  <2> HIDE DEF b, local
  <2> QED
    BY <1>2, <2>5, <2>7, <2>8
<1>8. ASSUME NEW d \in Documents, DeleteInMemory(d) PROVE bits'[x] \subseteq 0..MaxDocs
  BY <1>1, <1>8 DEF DeleteInMemory
<1>9. CASE Forgotten
  BY <1>9 DEF Forgotten
<1>10. CASE UNCHANGED bits
  BY <1>1, <1>10
<1> QED
  BY <1>3, <1>5, <1>6, <1>7, <1>8, <1>9, <1>10, ThreadSteps

LEMMA StepKeepsDirty ==
  ASSUME SoundInv, PlacesInv, FileInv, [WriterNext]_storeVars
  PROVE  /\ \A k \in 1..Len(pending') : pending'[k].dirty \subseteq Ids
         /\ work'.dirty \subseteq Ids
<1> DEFINE Good(s) == \A k \in 1..Len(s) : s[k].dirty \subseteq Ids
<1>1. IsSequence(pending) /\ Len(pending) \in Nat /\ Good(pending)
  BY SequenceShape DEF SoundInv, DiskInv, MemoryShape, FileInv
<1>2. Good(pending')
  <2>1. CASE UNCHANGED pending
    BY <1>1, <2>1
  <2>2. CASE Seal \/ Close
    <3>1. CASE SealDocuments \/ SealDeletions
      <4>1. status = "open"
        BY <2>2 DEF Seal, Close
      <4>2. /\ Len(pending') = Len(pending) + 1
            /\ \A i \in 1..Len(pending) : pending'[i] = pending[i]
            /\ pending'[Len(pending) + 1].dirty \subseteq Ids
        BY <3>1, <4>1, Sealing
      <4>3. \A i \in 1..Len(pending') : i \in 1..Len(pending) \/ i = Len(pending) + 1
        BY <1>1, <4>2
      <4> QED
        BY <1>1, <4>2, <4>3
    <3> QED
      BY <2>1, <2>2, <3>1 DEF Seal, Close
  <2>3. CASE TakeBatch
    <3>1. pending' = Tail(pending) /\ pending # <<>>
      BY <2>3 DEF TakeBatch
    <3>2. Len(pending') = Len(pending) - 1 /\ \A i \in 1..Len(pending') : pending'[i] = pending[i + 1]
      BY <1>1, <3>1, TailSequence
    <3>3. \A i \in 1..Len(pending') : i + 1 \in 1..Len(pending)
      BY <1>1, <3>2
    <3> QED
      BY <1>1, <3>2, <3>3
  <2>4. CASE Forgotten
    BY <2>4, EmptySequence DEF Forgotten
  <2>5. CASE Open \/ Add \/ \E d \in Documents : DeleteOnDisk(d) \/ DeleteInMemory(d)
    BY <2>1, <2>5 DEF Open, Add, DeleteOnDisk, DeleteInMemory
  <2> QED
    BY <2>1, <2>2, <2>3, <2>4, <2>5, ThreadSteps
<1>3. work'.dirty \subseteq Ids
  <2>0. work.dirty \subseteq Ids /\ NoWork.dirty = {}
        /\ work = [infos |-> work.infos, docs |-> work.docs, dirty |-> work.dirty, last |-> work.last]
    BY DEF FileInv, NoWork, SoundInv, DiskInv, ThreadShape
  <2>1. CASE TakeBatch
    <3>1. work'.dirty = pending[1].dirty /\ pending # <<>>
      BY <2>1, TakenBatch
    <3>2. 1 \in 1..Len(pending)
      BY <1>1, <3>1, SequenceShape, TailSequence
    <3> QED
      BY <1>1, <3>1, <3>2
  <2>2. CASE MergeProposal
    <3>1. \E infos, docs : work' = [work EXCEPT !.infos = infos, !.docs = docs]
      BY <2>2 DEF MergeProposal
    <3> QED
      BY <2>0, <3>1
  <2>3. CASE WriteCommitFile \/ Merge \/ Crash
    <3>1. work' = NoWork \/ \E infos : work' = [NoWork EXCEPT !.infos = infos]
      BY <2>3 DEF WriteCommitFile, Merge, Crash
    <3>2. work'.dirty = NoWork.dirty
      BY <3>1 DEF NoWork
    <3> QED
      BY <2>0, <3>2
  <2>4. UNCHANGED work \/ TakeBatch \/ MergeProposal \/ WriteCommitFile \/ Merge \/ Crash
    BY WorkSteps
  <2> QED
    BY <2>0, <2>1, <2>2, <2>3, <2>4
<1> QED
  BY <1>2, <1>3

LEMMA StepKeepsFiles ==
  ASSUME SoundInv, PlacesInv, FileInv, [WriterNext]_storeVars, NEW c \in Ids
  PROVE  /\ DOMAIN dirs'[c].deletions \subseteq Ids
         /\ \A b \in DOMAIN dirs'[c].deletions : dirs'[c].deletions[b] \subseteq 0..MaxDocs
<1>0. dirs = [d \in Ids |-> dirs[d]] /\ NoDir.deletions = <<>> /\ DOMAIN <<>> = {}
  BY DEF SoundInv, DiskInv, DiskShape, NoDir
<1>1. dirs[c] = [state |-> dirs[c].state, docs |-> dirs[c].docs, deletions |-> dirs[c].deletions]
  BY DEF SoundInv, DiskInv, DiskShape, IsDir
<1>2. /\ DOMAIN dirs[c].deletions \subseteq Ids
      /\ \A b \in DOMAIN dirs[c].deletions : dirs[c].deletions[b] \subseteq 0..MaxDocs
  BY DEF FileInv
<1>3. CASE dirs'[c].deletions = dirs[c].deletions
  BY <1>2, <1>3
<1>4. CASE dirs'[c].deletions = <<>>
  BY <1>0, <1>4
<1>5. CASE dirs'[c].deletions = [b \in work.dirty |-> bits[b]]
  BY <1>5 DEF FileInv
<1>6. CASE UNCHANGED dirs
  BY <1>3, <1>6
<1>7. CASE WriteData \/ WriteRest
  <2>1. dirs' = [dirs EXCEPT ![New].docs = work.docs] \/ dirs' = [dirs EXCEPT ![New].state = "whole"]
    BY <1>7 DEF WriteData, WriteRest
  <2>2. dirs'[c] \in {dirs[c], [dirs[c] EXCEPT !.docs = work.docs], [dirs[c] EXCEPT !.state = "whole"]}
    BY <1>0, <2>1
  <2>3. dirs'[c].deletions = dirs[c].deletions
    BY <1>1, <2>2
  <2> QED
    BY <1>3, <2>3
<1>8. CASE WriteDeletions
  <2>1. dirs' = [dirs EXCEPT ![New].deletions = [b \in work.dirty |-> bits[b]]] \/ dirs' = dirs
    BY <1>8 DEF WriteDeletions
  <2>2. \/ dirs'[c].deletions = dirs[c].deletions
        \/ dirs'[c].deletions = [b \in work.dirty |-> bits[b]]
    BY <1>0, <1>1, <2>1
  <2> QED
    BY <1>3, <1>5, <2>2
<1>9. CASE TakeBatch \/ MergeProposal
  <2>1. \E k : dirs' = [dirs EXCEPT ![k] = [NoDir EXCEPT !.state = "filling"]]
    BY <1>9 DEF TakeBatch, MergeProposal
  <2>2. dirs'[c].deletions = dirs[c].deletions \/ dirs'[c].deletions = <<>>
    BY <1>0, <2>1 DEF NoDir
  <2> QED
    BY <1>3, <1>4, <2>2
<1>10. CASE RemoveDir
  <2>1. \E k : dirs' = [dirs EXCEPT ![k] = NoDir]
    BY <1>10 DEF RemoveDir
  <2>2. dirs'[c].deletions = dirs[c].deletions \/ dirs'[c].deletions = <<>>
    BY <1>0, <2>1
  <2> QED
    BY <1>3, <1>4, <2>2
<1> QED
  BY <1>6, <1>7, <1>8, <1>9, <1>10, DirSteps

ShapeInv == BoundInv /\ HistoryInv /\ FileInv

LEMMA StepKeepsShape == SoundInv /\ PlacesInv /\ ShapeInv /\ [WriterNext]_storeVars => ShapeInv'
<1> SUFFICES ASSUME SoundInv, PlacesInv, ShapeInv, [WriterNext]_storeVars PROVE ShapeInv'
  OBVIOUS
<1>1. HistoryInv'
  BY StepKeepsHistory DEF ShapeInv, SoundInv, PlacesInv
<1>2. BoundInv'
  BY StepKeepsBounds DEF ShapeInv
<1>3. \A x \in Ids : bits'[x] \subseteq 0..MaxDocs
  BY StepKeepsBits DEF ShapeInv
<1>4. \A k \in 1..Len(pending') : pending'[k].dirty \subseteq Ids
  BY StepKeepsDirty DEF ShapeInv
<1>5. work'.dirty \subseteq Ids
  BY StepKeepsDirty DEF ShapeInv
<1>6. \A c \in Ids : /\ DOMAIN dirs'[c].deletions \subseteq Ids
                     /\ \A b \in DOMAIN dirs'[c].deletions : dirs'[c].deletions[b] \subseteq 0..MaxDocs
  BY StepKeepsFiles DEF ShapeInv
<1>7. FileInv'
  BY <1>3, <1>4, <1>5, <1>6 DEF FileInv
<1> QED
  BY <1>1, <1>2, <1>7 DEF ShapeInv

LEMMA InitShape == StoreInit => ShapeInv
<1> SUFFICES ASSUME StoreInit PROVE ShapeInv
  OBVIOUS
<1>1. Fits({}) /\ Range(<<>>) = {} /\ Len(<<>>) = 0 /\ IsIndex(NoBarrels) /\ NoBarrels.barrels = <<>>
      /\ NoWork.infos = NoBarrels /\ NoWork.dirty = {} /\ NotMerging.policy = "none"
  BY EmptySequence, NoList DEF Fits, NoBarrels, NoWork, NotMerging
<1>2. NotRunning /\ handedIn = 0 /\ asked = {}
  BY DEF StoreInit
<1>3. \A c \in Ids : commits[c].barrels = <<>> /\ DOMAIN dirs[c].deletions = {}
  BY DEF StoreInit, NoDir, NoFile
<1>4. BoundInv
  <2>1. keeper = NoBarrels /\ filter = <<>> /\ work = NoWork
    BY <1>2 DEF NotRunning
  <2>2. MemoryFits
    BY SMTT(60), <1>1, <2>1 DEF MemoryFits
  <2> QED
    BY <1>1, <1>3, <2>1, <2>2 DEF BoundInv
<1>5. HistoryInv
  <2>1. MaxDocs \in Nat /\ MaxCrashes \in Nat
    BY BoundAssumption
  <2>2. crashes = 0 /\ fresh = FALSE /\ merging = NotMerging
    BY <1>2 DEF NotRunning
  <2>3. merging.policy \in Policies \cup {"none"} /\ asked \subseteq Documents
    BY <1>1, <1>2, <2>2
  <2>4. handedIn \in 0..MaxDocs /\ crashes \in 0..MaxCrashes
    BY <1>2, <2>1, <2>2
  <2> QED
    BY <2>2, <2>3, <2>4 DEF HistoryInv
<1>6. FileInv
  BY <1>1, <1>2, <1>3 DEF FileInv, NotRunning
<1> QED
  BY <1>4, <1>5, <1>6 DEF ShapeInv

LEMMA SequenceIn == ASSUME NEW s, IsSequence(s), NEW S, \A i \in 1..Len(s) : s[i] \in S PROVE s \in Seq(S)
<1>1. Len(s) \in Nat /\ s \in [1..Len(s) -> Range(s)]
  BY SequenceShape DEF IsSequence
<1>2. s \in [1..Len(s) -> S]
  BY <1>1
<1> QED
  BY <1>1, <1>2

LEMMA DocsInOrder ==
  ASSUME NEW s, IsSequence(s), Range(s) \subseteq 1..handedIn, HistoryInv
  PROVE  s \in Seq(Documents)
<1>1. 1..handedIn \subseteq Documents
  BY BoundAssumption DEF HistoryInv, Documents
<1>2. \A i \in 1..Len(s) : s[i] \in Range(s)
  BY SequenceShape
<1> QED
  BY <1>1, <1>2, SequenceIn

\* a list of barrels of few documents
LEMMA FewInfos ==
  ASSUME NEW infos, IsIndex(infos), Fits(Range(infos.barrels))
  PROVE  infos \in Infos /\ infos.barrels \in Seq(Barrels)
<1> PICK s : s = infos.barrels
  OBVIOUS
<1>1. Ordered(s) /\ infos.commit \in Ids \cup {INVALID_COMMIT} /\ infos = [commit |-> infos.commit, barrels |-> s]
  BY DEF IsIndex, IsList
<1>2. IsSequence(s) /\ \A i \in 1..Len(s) : s[i] \in Range(s)
  BY <1>1, SequenceShape DEF Ordered
<1>3. ASSUME NEW i \in 1..Len(s) PROVE s[i] \in Barrels
  <2>1. /\ s[i] = [id |-> s[i].id, base |-> s[i].base, count |-> s[i].count, deleted |-> s[i].deleted]
        /\ s[i].id \in Ids /\ s[i].base \in Nat /\ s[i].count \in Nat /\ s[i].deleted \in Nat
    BY <1>1 DEF Ordered
  <2>2. s[i].count <= MaxDocs /\ s[i].deleted <= MaxDocs
    BY <1>2 DEF Fits
  <2>3. s[i].count \in 0..MaxDocs /\ s[i].deleted \in 0..MaxDocs
    BY <2>1, <2>2, BoundAssumption
  <2> QED
    BY <2>1, <2>3 DEF Barrels
<1>4. s \in Seq(Barrels)
  BY <1>2, <1>3, SequenceIn
<1> QED
  BY <1>1, <1>4 DEF Infos

\* ... and the parts of a proposal
LEMMA FewProposals ==
  ASSUME NEW parts, NEW infos, SoundParts(parts, infos), Fits(Range(infos.barrels)), IsIndex(infos)
  PROVE  parts \in Seq(Infos)
<1>1. ASSUME NEW i \in 1..Len(parts) PROVE parts[i] \in Infos
  <2>1. IsIndex(parts[i]) /\ Range(parts[i].barrels) \subseteq Range(infos.barrels)
    BY DEF SoundParts, IsIndex
  <2> QED
    BY <2>1, FewInfos DEF Fits
<1> QED
  BY <1>1, SequenceIn DEF SoundParts

LEMMA ShapeIsType == SoundInv /\ PlacesInv /\ ShapeInv => TypeOK
<1> SUFFICES ASSUME SoundInv, PlacesInv, ShapeInv PROVE TypeOK
  OBVIOUS
<1>1. commits \in [Ids -> [state : {"absent", "torn", "whole"}, barrels : Seq(Barrels)]]
  <2>1. ASSUME NEW c \in Ids PROVE commits[c] \in [state : {"absent", "torn", "whole"}, barrels : Seq(Barrels)]
    <3>1. IsIndex(InfosAt(c)) /\ InfosAt(c).barrels = commits[c].barrels
      BY IdsAreNumbers DEF SoundInv, ListInv, InfosAt
    <3>2. commits[c].barrels \in Seq(Barrels)
      BY <3>1, FewInfos DEF ShapeInv, BoundInv
    <3>3. IsFile(commits[c])
      BY DEF SoundInv, DiskInv, DiskShape
    <3> QED
      BY <3>2, <3>3 DEF IsFile
  <2> QED
    BY <2>1 DEF SoundInv, DiskInv, DiskShape
<1>2. \A c \in Ids :
        /\ dirs[c].state \in {"absent", "filling", "whole"}
        /\ dirs[c].docs \in Seq(Documents)
        /\ DOMAIN dirs[c].deletions \subseteq Ids
        /\ \A b \in DOMAIN dirs[c].deletions : dirs[c].deletions[b] \subseteq 0..MaxDocs
  <2> SUFFICES ASSUME NEW c \in Ids PROVE dirs[c].state \in {"absent", "filling", "whole"} /\ dirs[c].docs \in Seq(Documents)
    BY DEF ShapeInv, FileInv
  <2>1. IsDir(dirs[c]) /\ IsSequence(dirs[c].docs) /\ Range(dirs[c].docs) \subseteq 1..handedIn
    BY DEF SoundInv, DiskInv, DiskShape, DocsShape, PlacesInv, DocsKnown
  <2> QED
    BY <2>1, DocsInOrder DEF IsDir, ShapeInv
<1>3. status \in {"closed", "open", "closing", "aborted"}
  BY DEF SoundInv, DiskInv, Phases
<1>4. building.docs \in Seq(Documents) /\ building.deleted \subseteq Range(building.docs)
  BY DocsInOrder DEF SoundInv, DocsShape, PlacesInv, BuildingInv, ShapeInv
<1>5. keeper \in Infos
  BY FewInfos DEF ShapeInv, BoundInv, MemoryFits
<1>6. filter \in Seq([barrel : Barrels, dirty : BOOLEAN])
  <2>1. IsFilter(filter)
    BY DEF PlacesInv, RoomInv
  <2>2. ASSUME NEW i \in 1..Len(filter) PROVE filter[i] \in [barrel : Barrels, dirty : BOOLEAN]
    <3> PICK b : b = filter[i].barrel
      OBVIOUS
    <3>1. filter[i] = [barrel |-> b, dirty |-> filter[i].dirty] /\ filter[i].dirty \in BOOLEAN /\ IsEntry(b)
      BY <2>1 DEF IsFilter
    <3>2. b.count <= MaxDocs /\ b.deleted <= MaxDocs
      BY DEF ShapeInv, BoundInv, MemoryFits, Fits
    <3>3. b.count \in 0..MaxDocs /\ b.deleted \in 0..MaxDocs
      BY <3>1, <3>2, BoundAssumption DEF IsEntry
    <3>4. b \in Barrels
      BY <3>1, <3>3 DEF IsEntry, Barrels
    <3> QED
      BY <3>1, <3>4
  <2>3. IsSequence(filter)
    BY <2>1 DEF IsFilter
  <2> QED
    BY <2>2, <2>3, SequenceIn
<1>7. fresh \in BOOLEAN /\ merging.policy \in Policies \cup {"none"}
      /\ handedIn \in 0..MaxDocs /\ asked \subseteq Documents /\ crashes \in 0..MaxCrashes
  BY DEF ShapeInv, HistoryInv
<1>8. bits \in [Ids -> SUBSET (0..MaxDocs)]
  BY DEF ShapeInv, FileInv, SoundInv, DiskInv, MemoryShape
<1>9. DOMAIN keyIndex \subseteq Documents
  <2>1. 1..handedIn \subseteq Documents
    BY BoundAssumption DEF ShapeInv, HistoryInv, Documents
  <2> QED
    BY <2>1 DEF PlacesInv, BuildingInv
<1>10. merging.proposals \in Seq(Infos)
  BY FewProposals DEF SoundInv, ListInv, ShapeInv, BoundInv
<1>11. pc \in {"idle", "data", "deletions", "rest", "create", "write", "clean", "dirs", "merge", "proposal"}
       /\ stale \subseteq Ids
  BY DEF SoundInv, DiskInv, ThreadShape, Writes
<1>12. work.infos \in Infos
  BY FewInfos DEF SoundInv, ListInv, ShapeInv, BoundInv
<1> QED
  BY <1>1, <1>2, <1>3, <1>4, <1>5, <1>6, <1>7, <1>8, <1>9, <1>10, <1>11, <1>12 DEF TypeOK

LEMMA StoreShape == StoreSpec => []ShapeInv
<1>1. SoundInv /\ PlacesInv /\ ShapeInv /\ [StoreNext]_storeVars => ShapeInv'
  BY StepKeepsShape DEF WriterNext
<1> QED
  BY <1>1, InitShape, StorePlaces, PTL DEF StoreSpec

\* Every file and every piece of memory has its shape: a barrel counts no more documents
\* than were handed in and has one of the ids there are; a deletion file and the filter
\* have bits of documents of their barrel only, and the keys are of documents.
THEOREM StoreTypeOK == StoreSpec => []TypeOK
BY StorePlaces, StoreShape, ShapeIsType, PTL

=============================================================================
