----------------------------- MODULE IndexMerging -----------------------------
(***************************************************************************)
(* An index that has grown and is merged: IndexStore from an index of some *)
(* barrels on, which is opened and closed again and again, with either of  *)
(* the policies that merge.  Deletions of a barrel's documents are in the  *)
(* directory of a later barrel, where DeletedDocumentFilter::commit puts   *)
(* them.                                                                   *)
(***************************************************************************)
EXTENDS IndexStore

CONSTANTS
    MaxBarrels, \* bound: barrels of the index
    Sizes       \* bound: documents in each of them

ASSUME GrownAssumption == MaxBarrels \in 1..(MaxCommit + 1) /\ Sizes \subseteq Nat

\* The barrels of these sizes, of whose documents some were deleted while they were
\* built
Grown(sizes, deleted) ==
    LET Base[i \in 1..Len(sizes)] == IF i = 1 THEN 0 ELSE Base[i - 1] + sizes[i - 1]
    IN [i \in DOMAIN sizes |->
           [id      |-> i - 1,
            base    |-> Base[i],
            count   |-> sizes[i],
            deleted |-> IF deleted < sizes[i] THEN deleted ELSE 0]]

DocsOf(b) == [i \in 1..b.count |-> b.base + i]

\* At most one document is deleted, the first of a barrel, and its deletion file is in
\* the directory of the last one, which may be there only for that.
Deletions(sizes) ==
    {gone \in SUBSET {i \in 1..(Len(sizes) - 1) : sizes[i] > 0} :
        /\ Cardinality(gone) <= 1
        /\ \A i \in DOMAIN sizes : sizes[i] = 0 => i = Len(sizes) /\ gone # {}}

\* The last two commits, which are those the cleaner keeps, and all the barrels
OnDisk(barrels, gone) ==
    LET n == Len(barrels)
    IN /\ commits = [c \in Ids |->
              IF c \in {n - 2, n - 1}
              THEN [state |-> "whole", barrels |-> SubSeq(barrels, 1, c + 1)] ELSE NoFile]
       /\ dirs = [c \in Ids |->
              IF c < n
              THEN [state     |-> "whole",
                    docs      |-> DocsOf(barrels[c + 1]),
                    deletions |-> IF c = n - 1 THEN [b \in {i - 1 : i \in gone} |-> {0}]
                                  ELSE <<>>] ELSE NoDir]

MergingInit ==
    /\ \E n \in 1..MaxBarrels : \E sizes \in [1..n -> Sizes] : \E gone \in Deletions(sizes) :
          \E deleted \in {0, 2} :
              LET barrels == Grown(sizes, deleted)
              IN /\ gone = {} \/ deleted = 0  \* bound: while a barrel was built or afterwards
                 /\ OnDisk(barrels, gone)
                 /\ handedIn = barrels[n].base + barrels[n].count
                 /\ asked = {barrels[i].base + 1 : i \in gone}
    /\ NotRunning

MergingNext ==
    \/ Open \/ Close
    \/ MergeWith("optimize") \/ MergeWith("dbt")
    \/ CommitThread
    \/ Crash

MergingSpec == MergingInit /\ [][MergingNext]_storeVars

\* the commit thread runs while it has something to do, and so does the thread
\* that waits for it in close()
FairMergingSpec ==
    /\ MergingSpec
    /\ WF_storeVars(CommitThread)
    /\ WF_storeVars(MergeWith("optimize") \/ MergeWith("dbt"))

-----------------------------------------------------------------------------
(* Properties                                                              *)

\* what a reader of the newest commit finds in a barrel of it
Newest == NewestInfos.barrels
FoundIn(b) == Without(b.id, LatestFilter(b.id, b.id, NewestInfos.commit))

\* MergeKeepsDocuments: whatever is merged, however the proposal was cut, and whenever
\* the process crashes, a reader finds every document that was not deleted, once.  A
\* deleted document that is still hidden stays so if the whole index is merged at once;
\* where it is merged in parts, the deletion file may be in the directory of a barrel of
\* another part (initDeletionFilter, createMergedBarrelsInfo, cleanStaledIndex).
MergeKeepsDocuments ==
    /\ (1..handedIn) \ asked \subseteq Visible(NewestInfos)
    /\ Visible(NewestInfos) \subseteq 1..handedIn
    /\ \A b \in Range(Newest) :
          /\ IsInjective(FoundIn(b))
          /\ \A d \in Range(Newest) :
                b # d => Range(FoundIn(b)) \cap Range(FoundIn(d)) = {}
    /\ pc = "write" /\ merging # NotMerging /\ Len(work.infos.barrels) = 1 =>
          Range(work.docs) \cap asked \subseteq Visible(NewestInfos)

\* BarrelListSound: in every commit, those between two parts of a merge and those a crash
\* leaves included, the barrels' ids and ranges of document ids ascend without overlap;
\* what is left of a proposal is in the list that it will be taken from, each barrel in
\* one part, and no part needs more files than may be open (newBarrel,
\* createMergedBarrelsInfo, checkAndSplitProposal).
BarrelListSound ==
    /\ \A c \in Ids : \A i \in 2..Len(commits[c].barrels) :
          LET b == commits[c].barrels[i - 1]
              d == commits[c].barrels[i]
          IN b.id < d.id /\ b.base + b.count <= d.base
    /\ LET parts == merging.proposals
       IN \A i \in DOMAIN parts :
             /\ Range(parts[i].barrels) \subseteq Range(work.infos.barrels)
             /\ Len(parts[i].barrels) \in 1..MaxAllowedBarrels
             /\ \A k \in DOMAIN parts :
                   k # i => Range(parts[i].barrels) \cap Range(parts[k].barrels) = {}

\* how many barrels have more than low documents and at most high
Between(low, high) == Cardinality({i \in DOMAIN Newest :
                                     low < Newest[i].count /\ Newest[i].count <= high})

\* MergedAsPromised: when close() returns the index is what the policy promises: one
\* barrel, whose document ids begin at 0; or, for the balanced tree, of barrels of
\* about one size, the largest CollisionFactor times the smallest, fewer than
\* CollisionFactor.
MergedAsPromised ==
    [][merging # NotMerging /\ status' = "closed" /\ crashes' = crashes =>
          CASE merging.policy = "optimize" -> Len(Newest) = 1 /\ Newest[1].base = 0
            [] merging.policy = "dbt" ->
                 LET smallest == ScaleFactor * CollisionFactor
                 IN /\ Between(-1, smallest) < CollisionFactor
                    /\ \A n \in 1..MaxBarrels * MaxBarrels :
                          Between(ScaleFactor * CollisionFactor ^ n,
                                  ScaleFactor * CollisionFactor ^ (n + 1)) < CollisionFactor
      ]_storeVars

\* CloseEnds: IndexWriter::close() returns, unless the process crashes or ends at the
\* null pointer of makeProposal: merge() comes to an end, although each of its turns makes
\* new barrels for the next.
CloseEnds == status = "closing" ~> status \in {"closed", "aborted"}

=============================================================================
