----------------------------- MODULE MCSyncMap -----------------------------
(***************************************************************************)
(* Four words, two of them in the same block.                              *)
(***************************************************************************)
EXTENDS SyncMap, TLC

CONSTANTS w1, w2, w3, w4, b1, b2, b3

Blocks == (w1 :> b1) @@ (w2 :> b1) @@ (w3 :> b2) @@ (w4 :> b3)
=============================================================================
