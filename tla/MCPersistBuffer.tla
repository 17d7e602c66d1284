--------------------------- MODULE MCPersistBuffer ---------------------------
(***************************************************************************)
(* Bounds for TLC: the buffer of core 1 overflows, that of core 2 can only *)
(* be flushed.                                                             *)
(***************************************************************************)
EXTENDS PersistBuffer, TLC

Writes == <<3, 2>>

\* Core 1 takes over what core 2 may have released.
Roles == << {<<"RD", FALSE>>} \cup ({"WR"} \X BOOLEAN), {"WR"} \X BOOLEAN >>

BlockSymmetry == Permutations(Block)
=============================================================================
