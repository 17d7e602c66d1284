------------------------------ MODULE MesiLine ------------------------------
(***************************************************************************)
(* The MESI directory protocol of src/src/system.cpp seen from one cache   *)
(* line: what each routine of System does to every copy of one block.      *)
(*                                                                         *)
(* The hierarchy has two private-side levels, level 0 (one cache per core) *)
(* and the last level (num_levels-1), which may be shared by several       *)
(* cores, below a directory, either stand-alone (accessDirectoryCache) or  *)
(* embedded in a shared LLC (accessSharedCache).                           *)
(***************************************************************************)
EXTENDS Naturals, FiniteSets

CONSTANTS
  Core,           \* cores; the level-0 cache of a core is named by the core
  Cache,          \* caches of the last private level, level num_levels-1
  Parent,         \* the last-level cache above each level-0 cache
  Cache0,         \* the cache with id 0
  LimitedPtr,     \* protocol_type = LIMITED_PTR
  MaxSharers,     \* max_num_sharers
  KeepDirOnWB     \* shared_llc /\ pmodel = NONB: a write-back keeps the state

ASSUME TopologyAssumption ==
  /\ Parent \in [Core -> Cache]
  /\ Cache0 \in Cache
ASSUME PolicyAssumption ==
  /\ LimitedPtr \in BOOLEAN
  /\ KeepDirOnWB \in BOOLEAN
  /\ MaxSharers \in Nat

St     == {"I", "S", "E", "M"}
DirSt  == St \cup {"B"}             \* B: too many sharers, broadcast
Owned  == {"E", "M"}
Op     == {"RD", "WR"}

\* Every copy of one block: level-0 and last-level states, and the
\* directory entry.  State "I" is also "not present".
LineState == [l1 : [Core -> St], l2 : [Cache -> St],
              dir : DirSt, sharers : SUBSET Cache]

Invalid == [l1 |-> [c \in Core |-> "I"], l2 |-> [k \in Cache |-> "I"],
            dir |-> "I", sharers |-> {}]

Children(k) == {c \in Core : Parent[c] = k}

\* Cores whose level-0 copy is exclusive or modified.
Owners(x) == {c \in Core : x.l1[c] \in Owned}

\* Mutant: the recursion into the children is missing.
InvalMutant(x, K) ==
  [x EXCEPT !.l2 = [k \in Cache |-> IF k \in K THEN "I" ELSE x.l2[k]]]

\* System::inval on the last-level caches K: a cache that misses stops the
\* recursion, its children are not visited.
Inval(x, K) ==
  LET hit == {k \in K : x.l2[k] # "I"} IN
  [x EXCEPT !.l1 = [c \in Core |-> IF Parent[c] \in hit THEN "I" ELSE x.l1[c]],
            !.l2 = [k \in Cache |-> IF k \in hit THEN "I" ELSE x.l2[k]]]

\* System::inval_children.
InvalChildren(x, k) ==
  [x EXCEPT !.l1 = [c \in Core |-> IF Parent[c] = k THEN "I" ELSE x.l1[c]]]

\* System::share_children: owned copies of the children become shared.
ShareChildren(x, k) ==
  [x EXCEPT !.l1 = [c \in Core |-> IF Parent[c] = k /\ x.l1[c] \in Owned
                                   THEN "S" ELSE x.l1[c]]]

\* Mutant: a clean owner is not downgraded.
ShareMutant(x, k) ==
  IF x.l2[k] = "M" THEN [ShareChildren(x, k) EXCEPT !.l2[k] = "S"] ELSE x

\* System::share on last-level cache k.
Share(x, k) ==
  IF x.l2[k] \in Owned THEN [ShareChildren(x, k) EXCEPT !.l2[k] = "S"] ELSE x

\* *sharer_set.begin(); of an empty std::set the build reads 0.
Owner(sharers) == IF sharers = {} THEN Cache0 ELSE CHOOSE k \in sharers : TRUE

\* Mutant: nobody is asked when the entry has overflowed.
TargetsMutant(x) ==
  CASE x.dir \in Owned -> {Owner(x.sharers)}
    [] x.dir = "S"     -> x.sharers
    [] OTHER           -> {}

\* The caches the directory invalidates for a write or for an eviction.
Targets(x) ==
  CASE x.dir \in Owned -> {Owner(x.sharers)}
    [] x.dir = "S"     -> x.sharers
    [] x.dir = "B"     -> Cache
    [] OTHER           -> {}

\* Mutant: the old sharers are not cleared.
DirWriteMutant(x, k) ==
  [Inval(x, Targets(x)) EXCEPT !.dir = "M", !.sharers = x.sharers \cup {k}]

\* accessSharedCache / accessDirectoryCache for a write by last-level cache k.
DirWrite(x, k) ==
  [Inval(x, Targets(x)) EXCEPT !.dir = "M", !.sharers = {k}]

\* ... for a read by k: a miss makes k exclusive, an owner is downgraded, and
\* with limited pointers one sharer too many turns the entry to broadcast.
DirRead(x, k) ==
  CASE x.dir = "I"     -> [x EXCEPT !.dir = "E", !.sharers = {k}]
    [] x.dir \in Owned -> [Share(x, Owner(x.sharers)) EXCEPT
                             !.dir = "S", !.sharers = x.sharers \cup {k}]
    [] x.dir = "S"     -> [x EXCEPT
                             !.dir = IF LimitedPtr /\ Cardinality(x.sharers) >= MaxSharers
                                     THEN "B" ELSE "S",
                             !.sharers = x.sharers \cup {k}]
    [] OTHER           -> [x EXCEPT !.sharers = x.sharers \cup {k}]

\* ... for a write-back.
DirWriteBack(x) ==
  [x EXCEPT !.dir = IF KeepDirOnWB THEN x.dir ELSE "I", !.sharers = {}]

\* The eviction of a directory entry.
DirEvict(x) == [Inval(x, Targets(x)) EXCEPT !.dir = "I", !.sharers = {}]

\* mesi_directory with mem_type WB, sent from the level-0 cache of c, which
\* then invalidates its line.  On a last-level miss it is ignored.
WriteBack(x, c) ==
  LET k == Parent[c] IN
  IF x.l2[k] = "I"
  THEN [x EXCEPT !.l1[c] = "I"]
  ELSE [DirWriteBack(x) EXCEPT !.l1[c] = "I", !.l2[k] = "I"]

\* Mutant: the children keep the line that is written back.
L2EvictMutant(x, k) ==
  IF x.l2[k] \in Owned
  THEN [DirWriteBack(x) EXCEPT !.l2[k] = "I"]
  ELSE [x EXCEPT !.l2[k] = "I"]

\* The eviction of a last-level line: owned, it is recalled from the children
\* and written back; shared, it is dropped and the children are not told.
L2Evict(x, k) ==
  IF x.l2[k] \in Owned
  THEN [DirWriteBack(InvalChildren(x, k)) EXCEPT !.l2[k] = "I"]
  ELSE [x EXCEPT !.l2[k] = "I"]

\* Whether an access of core c gets past its level-0 cache.
LeavesL1(x, c, op) == x.l1[c] = "I" \/ (op = "WR" /\ x.l1[c] # "M")

\* While a last-level miss is being served the frame already carries the new
\* tag but still the state ph of the line it held.
Frame(x, c, ph) ==
  [x EXCEPT !.l1[c] = "I",
            !.l2[Parent[c]] = IF x.l2[Parent[c]] = "I" THEN ph ELSE @]

\* mesi_directory for a write of c that leaves level 0, up to the fill.
WriteFill(x, c, ph) ==
  LET k == Parent[c]
      y == Frame(x, c, ph)
      z == IF x.l2[k] \in Owned THEN InvalChildren(y, k) ELSE DirWrite(y, k)
  IN [z EXCEPT !.l1[c] = "M", !.l2[k] = "M"]

\* Mutant: the filled line takes over the state of the directory entry.
ReadFillMutant(x, c, ph) ==
  LET k == Parent[c]
      y == Frame(x, c, ph)
      z == IF x.l2[k] \in Owned THEN DirRead(ShareChildren(y, k), k)
           ELSE IF x.l2[k] = "S" THEN y ELSE DirRead(y, k)
  IN [z EXCEPT !.l1[c] = z.dir, !.l2[k] = z.dir]

\* mesi_directory for a read of c that misses at level 0, up to the fill.
ReadFill(x, c, ph) ==
  LET k == Parent[c]
      y == Frame(x, c, ph)
      z == IF x.l2[k] \in Owned THEN DirRead(ShareChildren(y, k), k)
           ELSE IF x.l2[k] = "S" THEN y ELSE DirRead(y, k)
      st == IF x.l2[k] = "I" /\ z.dir = "E" THEN "E" ELSE "S"
  IN [z EXCEPT !.l1[c] = st, !.l2[k] = st]

Fill(x, c, op, ph) ==
  IF op = "WR" THEN WriteFill(x, c, ph) ELSE ReadFill(x, c, ph)
----------------------------------------------------------------------------
(***************************************************************************)
(* What the protocol keeps true of the copies of one block.                *)
(***************************************************************************)
\* At most one level-0 cache owns a block, and the last-level cache above it
\* owns it too.
L1OwnerBacked(x) ==
  \A c \in Core : x.l1[c] \in Owned =>
    /\ x.l2[Parent[c]] \in Owned
    /\ \A d \in Core \ {c} : x.l1[d] \notin Owned

\* A last-level owner is the one sharer the directory has.
L2OwnerRegistered(x) ==
  \A k \in Cache : x.l2[k] \in Owned => x.dir \in Owned /\ x.sharers = {k}

\* The directory knows every last-level cache with a shared copy.
L2SharerTracked(x) ==
  \A k \in Cache : x.l2[k] = "S" =>
    x.dir \in {"S", "B"} /\ (x.dir = "S" => k \in x.sharers)

LineInv(x) == L1OwnerBacked(x) /\ L2OwnerRegistered(x) /\ L2SharerTracked(x)
=============================================================================
