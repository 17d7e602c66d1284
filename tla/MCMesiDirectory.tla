-------------------------- MODULE MCMesiDirectory --------------------------
(***************************************************************************)
(* The topology for TLC: two cores share a last-level cache, next to one   *)
(* that has a private one.                                                 *)
(***************************************************************************)
EXTENDS MesiDirectory, TLC

CONSTANTS c1, c2, c3, k1, k2

Shared3 == (c1 :> k1) @@ (c2 :> k1) @@ (c3 :> k2)

AddrSymmetry == Permutations(Addr)
=============================================================================
