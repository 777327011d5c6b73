----------------------------- MODULE MergePolicy -----------------------------
(***************************************************************************)
(* What is merged with what: OptimizeMergePolicy, NoMergePolicy and        *)
(* DBTMergePolicy (a dynamic balance tree), and how IndexMerger cuts their *)
(* proposals down to the files it may open.                                *)
(*                                                                         *)
(* A list of barrels is a record of its commit id and a sequence of        *)
(* barrels, with an id, a count of documents and how many of them were     *)
(* deleted when the barrel was sealed.                                     *)
(***************************************************************************)
EXTENDS Integers, Sequences, FiniteSets, SequencesExt, FiniteSetsExt

CONSTANTS
    CollisionFactor,   \* m_nCollisionFactor
    ScaleFactor,       \* m_nScaleFactor
    MaxAllowedBarrels  \* nMaxAllowedBarrels, from Merge.maxAllowedOpenFiles

\* With fewer than two barrels at a time nothing is ever merged, and with two a
\* proposal of three is cut into single barrels, each of which is copied for ever.
ASSUME FactorAssumption == CollisionFactor \in Nat \ {0, 1} /\ ScaleFactor \in Nat \ {0}
ASSUME SplitAssumption == MaxAllowedBarrels \in Nat \ {0, 1, 2}

Policies == {"nomerge", "optimize", "dbt"}

\* what a sequence has at some of its positions, in order
Selection(s) == [positions \in SUBSET DOMAIN s |->
    LET Upto[i \in 0..Len(s)] ==
            IF i = 0 THEN <<>>
            ELSE IF i \in positions THEN Append(Upto[i - 1], s[i]) ELSE Upto[i - 1]
    IN Upto[Len(s)]]

-----------------------------------------------------------------------------
(* DBTMergePolicy                                                          *)

DfBits == 31  \* a df_t is an int32_t

\* mutant: the limit of a level is outside it
LevelExclusive(count) ==
    CHOOSE n \in 0..DfBits :
        /\ n = DfBits \/ count < ScaleFactor * CollisionFactor ^ (n + 1)
        /\ \A k \in 0..(n - 1) : ~(count < ScaleFactor * CollisionFactor ^ (k + 1))

\* getLevel.  The limit of the last level is the first that a df_t cannot reach.
Level(count) ==
    CHOOSE n \in 0..DfBits :
        /\ n = DfBits \/ count <= ScaleFactor * CollisionFactor ^ (n + 1)
        /\ \A k \in 0..(n - 1) : ~(count <= ScaleFactor * CollisionFactor ^ (k + 1))

\* A node has the ids of the barrels it stands for: one, or those that a collision will
\* make one of.
IsBarrel(ids) == Cardinality(ids) = 1

Node(barrel) == [ids |-> {barrel.id}, count |-> barrel.count]
NoNode == [ids |-> {}, count |-> 0]

\* Node(nodes): the documents that are deleted are deducted
MergedNode(barrels, ids) ==
    LET Sum[i \in 0..Len(barrels)] ==
            IF i = 0 THEN 0
            ELSE IF barrels[i].id \in ids THEN Sum[i - 1] + barrels[i].count - barrels[i].deleted
            ELSE Sum[i - 1]
    IN [ids |-> ids, count |-> Sum[Len(barrels)]]

\* createProposals' variables: the nodes of the tree with their levels, the node at hand,
\* the number of barrels taken, and the barrels that collided, with their levels.
Trees == [tree : SUBSET ((SUBSET Int) \X Nat), node : [ids : SUBSET Int, count : Int],
          taken : Nat, result : SUBSET (Int \X Nat)]

\* One turn of its loops.  Without a node at hand, the next barrel is one; a node joins
\* its level or, as the last one it takes for a collision, empties it and becomes the node
\* of another level.
Turn(barrels) == [s \in Trees |->
    LET level == Level(s.node.count)
        there == {t \in s.tree : t[2] = level}
        nodes == {t[1] : t \in there} \cup {s.node.ids}
        collide == Cardinality(nodes) >= CollisionFactor
    IN CASE s.node = NoNode /\ s.taken < Len(barrels) ->
              [s EXCEPT !.taken = @ + 1, !.node = Node(barrels[s.taken + 1])]
         [] s.node # NoNode /\ ~collide ->
              [s EXCEPT !.tree = @ \cup {<<s.node.ids, level>>}, !.node = NoNode]
         [] s.node # NoNode /\ collide ->
              [s EXCEPT !.tree = @ \ there,
                        !.node = MergedNode(barrels, UNION nodes),
                        !.result = @ \cup ((UNION {ids \in nodes : IsBarrel(ids)}) \X {level})]
         [] OTHER -> s]

\* Each barrel is taken and placed, and each collision leaves one node fewer at least.
ResultTree(barrels) ==
    LET After[turn \in 0..(3 * Len(barrels))] ==
            IF turn = 0
            THEN [tree |-> {}, node |-> NoNode, taken |-> 0, result |-> {}]
            ELSE Turn(barrels)[After[turn - 1]]
    IN After[3 * Len(barrels)].result

-----------------------------------------------------------------------------
(* Proposals: sequences of lists of barrels                                *)

Ascending(S) ==
    CHOOSE s \in [1..Cardinality(S) -> S] : \A i, k \in DOMAIN s : i < k => s[i] < s[k]

\* addBarrel: the list is sorted, and its commit id is its newest barrel's
Collected(barrels) == [commit |-> Max({b.id : b \in Range(barrels)}), barrels |-> barrels]

\* makeProposal: levels that follow one another are merged together
DBTProposals(barrels) ==
    LET Grouped[result \in SUBSET (Int \X Nat)] ==
            LET levels == {pair[2] : pair \in result}
                lows == Ascending({n \in levels : n - 1 \notin levels})
                With(low) == {i \in DOMAIN barrels : \E n \in levels :
                                 /\ <<barrels[i].id, n>> \in result
                                 /\ low <= n /\ low..n \subseteq levels}
            IN [i \in DOMAIN lows |-> Collected(Selection(barrels)[With(lows[i])])]
    IN Grouped[ResultTree(barrels)]

\* ... but for level 0 there is no list to add to: nLastLevel + 1 has wrapped to 0
NullProposal(policy, barrels) ==
    policy = "dbt" /\ \E pair \in ResultTree(barrels) : pair[2] = 0

\* createProposals; none is a null pointer.  OptimizeMergePolicy clones the list,
\* commit id included.
Proposals(policy, infos) ==
    CASE policy = "nomerge" -> <<>>
      [] policy = "optimize" -> <<infos>>
      [] policy = "dbt" -> DBTProposals(infos.barrels)

-----------------------------------------------------------------------------
(* IndexMerger::checkAndSplitProposal                                      *)

Ceiling(m, n) == (m + n - 1) \div n

Chunk(proposal) ==
    Len(proposal.barrels) \div Ceiling(Len(proposal.barrels), MaxAllowedBarrels)

Cut(proposal) ==
    LET count == Len(proposal.barrels)
        size == Chunk(proposal)
        Until(i) == IF i * size <= count THEN i * size ELSE count
    IN IF Ceiling(count, MaxAllowedBarrels) = 1 THEN <<proposal>>
       ELSE [i \in 1..Ceiling(count, size) |->
                Collected(SubSeq(proposal.barrels, (i - 1) * size + 1, Until(i)))]

Split(proposals) == FlattenSeq([i \in DOMAIN proposals |-> Cut(proposals[i])])

=============================================================================
