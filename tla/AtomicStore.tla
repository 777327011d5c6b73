----------------------------- MODULE AtomicStore -----------------------------
(***************************************************************************)
(* What the files of an index promise to who opens it: batches of          *)
(* documents appear in the order in which they were sealed, each at once   *)
(* and as a whole, and a document disappears only if its deletion was      *)
(* asked for.  A crash loses batches, never half of one, and nothing that  *)
(* was visible.                                                            *)
(***************************************************************************)
EXTENDS Sequences, FiniteSets

CONSTANT Documents

VARIABLES
    visible, \* the documents of the newest commit that are not deleted
    queue,   \* the batches sealed and not yet on disk
    asked,   \* the documents whose deletion was asked for
    sealed   \* the documents that are in a batch, or were, or are lost

vars == <<visible, queue, asked, sealed>>

Init ==
    /\ visible = {}
    /\ queue = <<>>
    /\ asked = {}
    /\ sealed = {}

Seal ==
    /\ \E batch \in SUBSET (Documents \ sealed) :
        /\ sealed' = sealed \cup batch
        /\ queue' = Append(queue, batch)
    /\ UNCHANGED <<asked, visible>>

Ask ==
    /\ \E d \in Documents : asked' = asked \cup {d}
    /\ UNCHANGED <<sealed, queue, visible>>

Commit ==
    /\ queue # <<>>
    /\ queue' = Tail(queue)
    /\ LET arrived == visible \cup Head(queue)
       IN visible' \subseteq arrived /\ arrived \ visible' \subseteq asked
    /\ UNCHANGED <<asked, sealed>>

Lose ==
    /\ queue' = <<>>
    /\ \E lost \in SUBSET Documents : sealed' = sealed \cup lost
    /\ UNCHANGED <<asked, visible>>

Next == Seal \/ Ask \/ Commit \/ Lose

Spec == Init /\ [][Next]_vars

=============================================================================
