---------------------------- MODULE MergeScheduler ----------------------------
(***************************************************************************)
(* What MergeScheduler promises to IndexMerger: every merge that is handed *)
(* in is performed once, in any order, and waitFinish returns when all of  *)
(* them are done.                                                          *)
(***************************************************************************)
EXTENDS Naturals

VARIABLES
    submitted, \* the merges handed in are 1..submitted
    done,      \* those performed
    waited     \* those handed in when waitFinish returned last

vars == <<submitted, done, waited>>

Init ==
    /\ submitted = 0
    /\ done = {}
    /\ waited = 0

Merge ==
    /\ submitted' = submitted + 1
    /\ UNCHANGED <<done, waited>>

Perform ==
    /\ \E m \in 1..submitted : m \notin done /\ done' = done \cup {m}
    /\ UNCHANGED <<submitted, waited>>

WaitFinish ==
    /\ done = 1..submitted
    /\ waited' = submitted
    /\ UNCHANGED <<submitted, done>>

Next == Merge \/ Perform \/ WaitFinish

Spec == Init /\ [][Next]_vars

=============================================================================
