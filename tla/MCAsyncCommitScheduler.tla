----------------------- MODULE MCAsyncCommitScheduler -----------------------
(***************************************************************************)
(* Instances of AsyncCommitScheduler for TLC.                              *)
(***************************************************************************)
EXTENDS AsyncCommitScheduler, TLC

CONSTANTS c1, c2, o1, o2, o3

=============================================================================
