----------------------- MODULE MCAsyncDocumentConsumer -----------------------
(***************************************************************************)
(* Instances of AsyncDocumentConsumer for TLC.                             *)
(***************************************************************************)
EXTENDS AsyncDocumentConsumer, TLC

CONSTANTS d1, d2, d3, k1, k2

\* two documents share a key
SharedKeys == (d1 :> k1) @@ (d2 :> k1) @@ (d3 :> k2)

=============================================================================
