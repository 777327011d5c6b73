---------------------- MODULE MCBoundedConcurrentQueue ----------------------
(***************************************************************************)
(* Instances of BoundedConcurrentQueue for TLC.                            *)
(***************************************************************************)
EXTENDS BoundedConcurrentQueue, TLC

CONSTANTS p1, p2, c1, w

\* every operation of the class
AllThreads == {p1, p2, c1, w}
AllMayCall == (p1 :> {"enqueue"}) @@ (p2 :> {"enqueue", "clear", "waitNotEmpty"})
                 @@ (c1 :> {"waitDequeue", "tryDequeue"})
                 @@ (w :> {"waitEmpty", "wakeup"})

=============================================================================
