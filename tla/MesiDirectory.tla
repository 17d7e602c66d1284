--------------------------- MODULE MesiDirectory ---------------------------
(***************************************************************************)
(* System::access on a directory system, one access at a time: every       *)
(* configuration of the repository runs one receiver thread, which serves  *)
(* the requests of all cores in turn.                                      *)
(*                                                                         *)
(* One set of every cache and of one home directory is modelled.  Two      *)
(* choices of the code are left open here: the LRU victim is any valid     *)
(* line of the set, and the lines persist() writes back are any subset of  *)
(* the lines the core owns.  LazyPersistency fixes the second one.         *)
(***************************************************************************)
EXTENDS MesiLine

CONSTANTS
  Addr,           \* blocks that map to the modelled set
  L1Ways,         \* num_ways of the level-0 caches
  L2Ways,         \* num_ways of the last-level caches
  DirWays,        \* num_ways of the directory
  Persistent      \* pmodel is one whose persist() writes lines back

ASSUME CapacityAssumption ==
  /\ L1Ways \in Nat \ {0} /\ L2Ways \in Nat \ {0} /\ DirWays \in Nat \ {0}
  /\ Persistent \in BOOLEAN

VARIABLE lines    \* the copies of every block

vars == <<lines>>

TypeOK == lines \in [Addr -> LineState]

Init == lines = [a \in Addr |-> Invalid]
----------------------------------------------------------------------------
InL1(L, c) == {a \in Addr : L[a].l1[c] # "I"}
InL2(L, k) == {a \in Addr : L[a].l2[k] # "I"}
InDir(L)   == {a \in Addr : L[a].dir # "I"}

OwnedBy(L, c) == {a \in Addr : L[a].l1[c] \in Owned}

\* Cache::replaceLine: no line is replaced while there is an invalid way.
L1Room(L, c) == Cardinality(InL1(L, c)) < L1Ways
L2Room(L, k) == Cardinality(InL2(L, k)) < L2Ways
DirRoom(L)   == Cardinality(InDir(L)) < DirWays

\* The write-backs of the lines F of core c.
Flush(L, c, F) == [a \in Addr |-> IF a \in F THEN WriteBack(L[a], c) ELSE L[a]]

\* System::persist run by the cores O, at most one of which has something to
\* write back, for a line of block a, which stays where it is.
Persist(L, O, a) ==
  {L} \cup (IF Persistent
            THEN UNION {{Flush(L, c, F) : F \in SUBSET (OwnedBy(L, c) \ {a})} : c \in O}
            ELSE {})

\* A write may first flush the writer's own lines: fullBarrierFlush, or the
\* same-block conflict of buffered epochs.
BarrierFlush(L, c, op) ==
  {L} \cup (IF Persistent /\ op = "WR"
            THEN {Flush(L, c, F) : F \in SUBSET OwnedBy(L, c)} ELSE {})

\* The eviction of v from level 0: a modified line is persisted and written
\* back, a shared one dropped, an exclusive one either (its dirty bit is
\* read uninitialised the first time a way is used).
L1Evict(L, c, v) ==
  (IF L[v].l1[c] # "M" THEN {[L EXCEPT ![v].l1[c] = "I"]} ELSE {})
  \cup
  (IF L[v].l1[c] # "S"
   THEN {[P EXCEPT ![v] = WriteBack(P[v], c)] : P \in Persist(L, {c}, v)} ELSE {})

L1Replace(L, c, a) ==
  IF L[a].l1[c] # "I" \/ L1Room(L, c)
  THEN {L}
  ELSE UNION {L1Evict(L, c, v) : v \in InL1(L, c)}

\* The last-level replacement also leaves the old state of the frame behind.
L2Replace(L, k, a) ==
  IF L[a].l2[k] # "I" \/ L2Room(L, k)
  THEN {[lines |-> L, frame |-> "I"]}
  ELSE UNION {{[lines |-> [P EXCEPT ![v] = L2Evict(P[v], k)], frame |-> L[v].l2[k]] :
                 P \in Persist(L, Owners(L[v]) \cap Children(k), v)} : v \in InL2(L, k)}

DirReplace(L, a) ==
  IF L[a].dir # "I" \/ DirRoom(L)
  THEN {L}
  ELSE UNION {{[P EXCEPT ![v] = DirEvict(P[v])] : P \in Persist(L, Owners(L[v]), v)} :
                v \in InDir(L)}

\* The rest of an access, once every level has a frame for block a: the
\* owner that loses the line persists, and so does the requester when its
\* retagged frame is taken for the line; then the line is granted.
Grant(L, c, a, op, frame) ==
  UNION {{[P EXCEPT ![a] = Fill(P[a], c, op, frame)] : P \in Persist(Q, {c}, a)} :
           Q \in Persist(L, Owners(L[a]), a)}

\* System::access: core c reads or writes block a.
Access(c, a, op) ==
  \E A \in BarrierFlush(lines, c, op) :
    IF ~LeavesL1(A[a], c, op)
    THEN lines' = A
    ELSE \E B \in L1Replace(A, c, a) :
           \E R \in L2Replace(B, Parent[c], a) :
             \E D \in DirReplace(R.lines, a) :
               \E G \in Grant(D, c, a, op, R.frame) : lines' = G

Read(c, a)  == Access(c, a, "RD")
Write(c, a) == Access(c, a, "WR")

Next == \E c \in Core, a \in Addr : Read(c, a) \/ Write(c, a)

Spec == Init /\ [][Next]_vars
----------------------------------------------------------------------------
\* Every block's copies are consistent.
CoherenceInv == \A a \in Addr : LineInv(lines[a])
----------------------------------------------------------------------------
(***************************************************************************)
(* Properties.                                                             *)
(***************************************************************************)
\* No block is exclusive or modified in two level-0 caches at once: the
\* state the comment "2 Owners can exist in the same time"
\* (src/src/system.cpp:972) worries about.
SingleOwner ==
  \A a \in Addr : \A c, d \in Owners(lines[a]) : c = d

\* A level-0 write-back of an owned line meets an owned line in the last
\* level (the assertions at src/src/system.cpp:1004, 1032 and 1075) and an
\* entry in the directory (else accessSharedCache dereferences NULL).
WriteBackFindsOwner ==
  \A a \in Addr : \A c \in Owners(lines[a]) :
    lines[a].l2[Parent[c]] \in Owned /\ lines[a].dir # "I"

\* Every last-level copy is reachable from the directory, which can therefore
\* invalidate it: through the sharer set, or by broadcast.
DirectoryReaches ==
  \A a \in Addr : \A k \in Cache :
    lines[a].l2[k] # "I" => k \in Targets(lines[a])

\* Nobody is upgraded behind the directory's back: when a core becomes owner
\* of a block, its last-level cache is the directory's only sharer.
UpgradeRegistered ==
  [][\A a \in Addr, c \in Core :
       c \in Owners(lines'[a]) \ Owners(lines[a]) =>
         lines'[a].sharers = {Parent[c]} /\ lines'[a].dir \in Owned]_vars
=============================================================================
