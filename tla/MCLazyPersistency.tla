------------------------- MODULE MCLazyPersistency -------------------------
(***************************************************************************)
(* Two cores with private last-level caches, served by one receiver        *)
(* thread.                                                                 *)
(***************************************************************************)
EXTENDS LazyPersistency, TLC

CONSTANTS c1, c2, k1, k2, r1

Private2 == (c1 :> k1) @@ (c2 :> k2)
OneReceiver == (c1 :> r1) @@ (c2 :> r1)

Plain == {<<"RD", "NON">>, <<"WR", "NON">>}

Releases == Plain \cup {<<"WR", "RELEASE">>}
Barriers == Releases \cup {<<"WR", "FULL">>}

\* One core runs the program under test, the other provokes conflicts: by
\* stores, by loads that acquire, or by either.
AgainstStores == (c1 :> Barriers) @@ (c2 :> {<<"WR", "NON">>})
AgainstLoads  == (c1 :> Barriers \ {<<"RD", "NON">>}) @@ (c2 :> {<<"RD", "ACQUIRE">>})
OneWriter     == (c1 :> Releases \ {<<"RD", "NON">>}) @@ (c2 :> Plain)
BothRelease == [c \in {c1, c2} |-> Releases]

AddrSymmetry == Permutations(Addr)
=============================================================================
