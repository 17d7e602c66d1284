----------------------- MODULE LazyPersistencyProofs -----------------------
(***************************************************************************)
(* The persistency engine, for every topology, model, program and number   *)
(* of epochs.                                                              *)
(*                                                                         *)
(* First it implements MesiDirectory: each stage of an access maps the     *)
(* lines of the engine's state to lines that the same stage of             *)
(* MesiDirectory allows; what else the state holds decides which of them.  *)
(*                                                                         *)
(* Then its stores persist in order.  The invariant Engine(s) gives the    *)
(* state its type; Timed(s, Clock) relates the epochs of the dirty lines   *)
(* to a clock of their core, and the lines that must persist first to      *)
(* smaller epochs (EpochOrdered) or, with releases, to smaller first       *)
(* epochs (Spanned) and entries of the sync map (Listed); and it says that *)
(* no line has overtaken another yet, merged releases apart.  Each stage   *)
(* keeps both: the replacements and the grant for a fixed clock, the store *)
(* as it moves the clock on.                                               *)
(***************************************************************************)
EXTENDS LazyPersistency, FiniteSetTheorems, TLAPS

\* The copies of the blocks are those of MesiDirectory, and its theorems hold
\* of them.
Dir == INSTANCE MesiDirectoryProofs WITH lines <- s.lines, Persistent <- TRUE

\* The sync maps are lists of SyncList, and the facts about them hold too.
Map == INSTANCE SyncMapProofs WITH
  Word <- Addr, BlockOf <- [a \in Addr |-> a], map <- EmptyMap, epoch <- 0, live <- {}

\* All that is needed of a state record: it has lines to update.
HasLines(t) == "lines" \in DOMAIN t

\* MesiDirectory and the engine share the routines of MesiLine.
LEMMA SameHelpers ==
  /\ Dir!Owned = Owned
  /\ Dir!Invalid = Invalid
  /\ \A x : Dir!Owners(x) = Owners(x)
  /\ \A k : Dir!Children(k) = Children(k)
  /\ \A x : Dir!DirWriteBack(x) = DirWriteBack(x)
  /\ \A x, k : Dir!InvalChildren(x, k) = InvalChildren(x, k)
  /\ \A x, k : Dir!ShareChildren(x, k) = ShareChildren(x, k)
  /\ \A x, K : Dir!Inval(x, K) = Inval(x, K)
  /\ \A x : Dir!Owner(x) = Owner(x)
  /\ \A x, c, ph : Dir!Frame(x, c, ph) = Frame(x, c, ph)
  /\ \A x, c, op : Dir!LeavesL1(x, c, op) = LeavesL1(x, c, op)
<1>1. Dir!Owned = Owned /\ Dir!Invalid = Invalid
  BY DEF Dir!Owned, Owned, Dir!Invalid, Invalid
<1>2. (\A x : Dir!Owners(x) = Owners(x)) /\ \A k : Dir!Children(k) = Children(k)
  BY DEF Dir!Owners, Owners, Dir!Owned, Owned, Dir!Children, Children
<1>3. \A x : Dir!DirWriteBack(x) = DirWriteBack(x)
  BY DEF Dir!DirWriteBack, DirWriteBack
<1>4. \A x, k : Dir!InvalChildren(x, k) = InvalChildren(x, k)
  BY DEF Dir!InvalChildren, InvalChildren
<1>5. \A x, k : Dir!ShareChildren(x, k) = ShareChildren(x, k)
  BY DEF Dir!ShareChildren, ShareChildren, Dir!Owned, Owned
<1>6. \A x, K : Dir!Inval(x, K) = Inval(x, K)
  BY DEF Dir!Inval, Inval
<1>7. \A x : Dir!Owner(x) = Owner(x)
  BY DEF Dir!Owner, Owner
<1>8. \A x, c, ph : Dir!Frame(x, c, ph) = Frame(x, c, ph)
  BY DEF Dir!Frame, Frame
<1>9. \A x, c, op : Dir!LeavesL1(x, c, op) = LeavesL1(x, c, op)
  BY DEF Dir!LeavesL1, LeavesL1
<1>10. QED
  BY <1>1, <1>2, <1>3, <1>4, <1>5, <1>6, <1>7, <1>8, <1>9

LEMMA SameCardinality == \A S : Dir!Cardinality(S) = Cardinality(S)
BY DEF Dir!Cardinality, Cardinality

LEMMA SameDirectory ==
  /\ \A x : Dir!Targets(x) = Targets(x)
  /\ \A x, k : Dir!Share(x, k) = Share(x, k)
  /\ \A x, k : Dir!DirWrite(x, k) = DirWrite(x, k)
  /\ \A x, k : Dir!DirRead(x, k) = DirRead(x, k)
  /\ \A x : Dir!DirEvict(x) = DirEvict(x)
<1>1. \A x : Dir!Targets(x) = Targets(x)
  BY SameHelpers DEF Dir!Targets, Targets
<1>2. \A x, k : Dir!Share(x, k) = Share(x, k)
  BY SameHelpers DEF Dir!Share, Share
<1>3. \A x, k : Dir!DirWrite(x, k) = DirWrite(x, k)
  BY SameHelpers, <1>1 DEF Dir!DirWrite, DirWrite
<1>4. \A x, k : Dir!DirRead(x, k) = DirRead(x, k)
  BY SameHelpers, SameCardinality, <1>2 DEF Dir!DirRead, DirRead
<1>5. \A x : Dir!DirEvict(x) = DirEvict(x)
  BY SameHelpers, <1>1 DEF Dir!DirEvict, DirEvict
<1>6. QED
  BY <1>1, <1>2, <1>3, <1>4, <1>5

LEMMA SameRoutines ==
  /\ \A x, c : Dir!WriteBack(x, c) = WriteBack(x, c)
  /\ \A x, k : Dir!L2Evict(x, k) = L2Evict(x, k)
  /\ \A x, c, op, ph : Dir!Fill(x, c, op, ph) = Fill(x, c, op, ph)
<1>1. \A x, c : Dir!WriteBack(x, c) = WriteBack(x, c)
  BY SameHelpers DEF Dir!WriteBack, WriteBack
<1>2. \A x, k : Dir!L2Evict(x, k) = L2Evict(x, k)
  BY SameHelpers DEF Dir!L2Evict, L2Evict
<1>3. \A x, c, ph : Dir!WriteFill(x, c, ph) = WriteFill(x, c, ph)
  <2> TAKE x, c, ph
  <2> DEFINE k == Parent[c]
             y == Frame(x, c, ph)
             z == IF x.l2[k] \in Owned THEN InvalChildren(y, k) ELSE DirWrite(y, k)
             z2 == IF x.l2[k] \in Dir!Owned THEN Dir!InvalChildren(Dir!Frame(x, c, ph), k)
                   ELSE Dir!DirWrite(Dir!Frame(x, c, ph), k)
  <2>1. z2 = z
    BY SameHelpers, SameDirectory
  <2>2. WriteFill(x, c, ph) = [z EXCEPT !.l1[c] = "M", !.l2[k] = "M"]
    BY DEF WriteFill
  <2>3. Dir!WriteFill(x, c, ph) = [z2 EXCEPT !.l1[c] = "M", !.l2[k] = "M"]
    BY DEF Dir!WriteFill
  <2> HIDE DEF z, z2
  <2>4. QED
    BY <2>1, <2>2, <2>3
<1>4. \A x, c, ph : Dir!ReadFill(x, c, ph) = ReadFill(x, c, ph)
  <2> TAKE x, c, ph
  <2> DEFINE k == Parent[c]
             y == Frame(x, c, ph)
             y2 == Dir!Frame(x, c, ph)
             z == IF x.l2[k] \in Owned THEN DirRead(ShareChildren(y, k), k)
                  ELSE IF x.l2[k] = "S" THEN y ELSE DirRead(y, k)
             z2 == IF x.l2[k] \in Dir!Owned THEN Dir!DirRead(Dir!ShareChildren(y2, k), k)
                   ELSE IF x.l2[k] = "S" THEN y2 ELSE Dir!DirRead(y2, k)
             st(w) == IF x.l2[k] = "I" /\ w.dir = "E" THEN "E" ELSE "S"
  <2>1. z2 = z
    BY SameHelpers, SameDirectory
  <2>2. ReadFill(x, c, ph) = [z EXCEPT !.l1[c] = st(z), !.l2[k] = st(z)]
    BY DEF ReadFill
  <2>3. Dir!ReadFill(x, c, ph) = [z2 EXCEPT !.l1[c] = st(z2), !.l2[k] = st(z2)]
    BY DEF Dir!ReadFill
  <2> HIDE DEF z, z2
  <2>4. QED
    BY <2>1, <2>2, <2>3
<1>5. \A x, c, op, ph : Dir!Fill(x, c, op, ph) = Fill(x, c, op, ph)
  BY <1>3, <1>4 DEF Dir!Fill, Fill
<1>6. QED
  BY <1>1, <1>2, <1>5
----------------------------------------------------------------------------
\* A flush writes its lines back and touches no other.
LEMMA WriteBackAllLines ==
  ASSUME NEW t, HasLines(t), NEW c, NEW F
  PROVE  /\ HasLines(WriteBackAll(t, c, F))
         /\ WriteBackAll(t, c, F).lines = Dir!Flush(t.lines, c, F)
  BY SameRoutines DEF HasLines, WriteBackAll, Depart, Dir!Flush

\* What a core persists for a line of block a is one of the flushes
\* MesiDirectory allows it: lines the core owns, and never the line itself.
LEMMA PersistLines ==
  ASSUME NEW t, HasLines(t), NEW c, NEW a, NEW atom
  PROVE  /\ HasLines(Persist(t, c, a, atom))
         /\ Persist(t, c, a, atom).lines \in Dir!Persist(t.lines, {c}, a)
<1> DEFINE Allowed(u) == HasLines(u) /\ u.lines \in Dir!Persist(t.lines, {c}, a)
<1>1. Dirty(t, c) \subseteq Dir!OwnedBy(t.lines, c)
  BY DEF Dirty, Dir!OwnedBy, Dir!Owned
<1>2. \A F : F \subseteq Dirty(t, c) \ {a} => Allowed(WriteBackAll(t, c, F))
  <2>1. SUFFICES ASSUME NEW F, F \subseteq Dirty(t, c) \ {a}
                 PROVE  Allowed(WriteBackAll(t, c, F))
    OBVIOUS
  <2>2. F \in SUBSET (Dir!OwnedBy(t.lines, c) \ {a})
    BY <1>1, <2>1
  <2>3. Dir!Flush(t.lines, c, F) \in Dir!Persist(t.lines, {c}, a)
    BY <2>2 DEF Dir!Persist
  <2>4. QED
    BY <2>3, WriteBackAllLines
<1>3. Allowed(t)
  BY DEF Dir!Persist
<1>4. Allowed(epochPersist(t, c, a))
  <2>1. {b \in Dirty(t, c) \ {a} : t.meta[c][b].max < t.meta[c][a].max} \subseteq Dirty(t, c) \ {a}
    OBVIOUS
  <2>2. QED
    BY <1>2, <2>1 DEF epochPersist
<1>5. ASSUME NEW e PROVE Allowed(releaseFlush(t, c, a, e))
  <2> DEFINE F == {b \in Dirty(t, c) \ {a} : t.meta[c][b].min <= e}
             u == WriteBackAll(t, c, F)
             X == t.overtaken \cup Overtakes(t, c, F, a, e)
             v == [u EXCEPT !.overtaken = X]
  <2>1. F \subseteq Dirty(t, c) \ {a}
    OBVIOUS
  <2>2. Allowed(u)
    BY <1>2, <2>1
  <2>3. releaseFlush(t, c, a, e) = v
    BY DEF releaseFlush
  <2> HIDE DEF u, F, X
  <2>4. HasLines(v) /\ v.lines = u.lines
    BY <2>2 DEF HasLines
  <2>5. QED
    BY <2>2, <2>3, <2>4
<1>6. Allowed(releasePersist(t, c, a))
  <2> DEFINE found == searchSyncMap(t.sync[c], {a})
             e == CHOOSE f \in found : TRUE
             u == releaseFlush(t, c, a, e)
             v == [u EXCEPT !.sync[c] = deleteLowerFromSyncMap(deleteFromSyncMap(@, {a}), e)]
  <2>1. Allowed(u)
    BY <1>5
  <2> HIDE DEF u, e, found
  <2>2. HasLines(v) /\ v.lines = u.lines
    BY <2>1 DEF HasLines
  <2>3. Allowed(v)
    BY <2>1, <2>2
  <2>4. releasePersist(t, c, a) = IF found = {} THEN t ELSE v
    BY DEF releasePersist, found, e, u
  <2> HIDE DEF v
  <2>5. QED
    BY <1>3, <2>3, <2>4
<1>7. \/ Persist(t, c, a, atom) = epochPersist(t, c, a)
      \/ Persist(t, c, a, atom) = releasePersist(t, c, a)
      \/ Persist(t, c, a, atom) = t
  BY DEF Persist
<1>8. QED
  BY <1>3, <1>4, <1>6, <1>7

\* The same for the owners of the block, one of which persists.
LEMMA PersistOwnersLines ==
  ASSUME NEW t, HasLines(t), NEW O, NEW a
  PROVE  /\ HasLines(PersistOwners(t, O, a))
         /\ PersistOwners(t, O, a).lines \in Dir!Persist(t.lines, O, a)
<1>1. CASE O = {}
  BY <1>1 DEF PersistOwners, Dir!Persist
<1>2. CASE O # {}
  <2> DEFINE c == CHOOSE c \in O : TRUE
  <2>1. c \in O
    BY <1>2
  <2>2. PersistOwners(t, O, a) = Persist(t, c, a, t.meta[c][a].atom)
    BY <1>2 DEF PersistOwners
  <2> HIDE DEF c
  <2>3. Dir!Persist(t.lines, {c}, a) \subseteq Dir!Persist(t.lines, O, a)
    BY <2>1 DEF Dir!Persist
  <2>4. QED
    BY <2>2, <2>3, PersistLines
<1>3. QED
  BY <1>1, <1>2
----------------------------------------------------------------------------
\* Settling a block changes the copies of that block.
LEMMA SettleLines ==
  ASSUME NEW t, HasLines(t), NEW a, NEW x
  PROVE  /\ HasLines(Settle(t, a, x))
         /\ Settle(t, a, x).lines = [t.lines EXCEPT ![a] = x]
  BY DEF HasLines, Settle

LEMMA BarrierFlushLines ==
  ASSUME NEW t, HasLines(t), NEW c, NEW a, NEW op, NEW ins
  PROVE  /\ HasLines(BarrierFlush(t, c, a, op, ins))
         /\ BarrierFlush(t, c, a, op, ins).lines \in Dir!BarrierFlush(t.lines, c, op)
<1>1. Dirty(t, c) \subseteq Dir!OwnedBy(t.lines, c)
  BY DEF Dirty, Dir!OwnedBy, Dir!Owned
<1>2. \A F : op = "WR" /\ F \subseteq Dirty(t, c) =>
        /\ HasLines(WriteBackAll(t, c, F))
        /\ WriteBackAll(t, c, F).lines \in Dir!BarrierFlush(t.lines, c, op)
  <2>1. SUFFICES ASSUME NEW F, op = "WR", F \subseteq Dirty(t, c)
                 PROVE  /\ HasLines(WriteBackAll(t, c, F))
                        /\ WriteBackAll(t, c, F).lines \in Dir!BarrierFlush(t.lines, c, op)
    OBVIOUS
  <2>2. F \in SUBSET Dir!OwnedBy(t.lines, c)
    BY <1>1, <2>1
  <2>3. Dir!Flush(t.lines, c, F) \in Dir!BarrierFlush(t.lines, c, op)
    BY <2>1, <2>2 DEF Dir!BarrierFlush
  <2>4. QED
    BY <2>3, WriteBackAllLines
<1> DEFINE full  == pmodel = "FBRP" /\ op = "WR" /\ ins.atom = "FULL"
           merge == pmodel = "BEPB" /\ op = "WR" /\ a \in Dirty(t, c) /\ ins.ins > t.meta[c][a].max
           early == {b \in Dirty(t, c) : t.meta[c][b].max < ins.ins}
           u == epochPersist(t, c, a)
           v == [u EXCEPT !.older[c] = [b \in Addr |-> IF b = a THEN {} ELSE @[b] \ {a}],
                          !.before[c] = @ \ {a},
                          !.overtaken = @ \cup {h \in {"conflict"} : u.older[c][a] # {}}]
<1>3. CASE full
  <2>1. BarrierFlush(t, c, a, op, ins) = WriteBackAll(t, c, early)
    BY <1>3 DEF BarrierFlush
  <2>2. early \subseteq Dirty(t, c) /\ op = "WR"
    BY <1>3
  <2> HIDE DEF early
  <2>3. QED
    BY <1>2, <2>1, <2>2
<1>4. CASE merge
  <2>1. BarrierFlush(t, c, a, op, ins) = v
    BY <1>4 DEF BarrierFlush
  <2>2. HasLines(u) /\ u.lines \in Dir!BarrierFlush(t.lines, c, op)
    <3>1. {b \in Dirty(t, c) \ {a} : t.meta[c][b].max < t.meta[c][a].max} \subseteq Dirty(t, c)
      OBVIOUS
    <3>2. QED
      BY <1>2, <1>4, <3>1 DEF epochPersist
  <2> HIDE DEF u
  <2>3. HasLines(v) /\ v.lines = u.lines
    BY <2>2 DEF HasLines
  <2> HIDE DEF v
  <2>4. QED
    BY <2>1, <2>2, <2>3
<1>5. CASE ~full /\ ~merge
  <2>1. BarrierFlush(t, c, a, op, ins) = t
    BY <1>5 DEF BarrierFlush
  <2>2. QED
    BY <2>1 DEF Dir!BarrierFlush
<1> HIDE DEF full, merge
<1>6. QED
  BY <1>3, <1>4, <1>5

\* The level-0 replacement: only a modified victim persists.
LEMMA L1ReplaceLines ==
  ASSUME NEW t, HasLines(t), NEW c, NEW a, NEW p \in L1Replace(t, c, a)
  PROVE  HasLines(p.s) /\ p.s.lines \in Dir!L1Replace(t.lines, c, a)
<1> DEFINE held == {b \in Addr : t.lines[b].l1[c] # "I"}
           stay == t.lines[a].l1[c] # "I" \/ Cardinality(held) < L1Ways
           u(v) == PersistOwners(t, {c}, v)
           out(v) == Settle(u(v), v, WriteBack(u(v).lines[v], c))
           rest(v) == [t.lines[v] EXCEPT !.l1[c] = "I"]
           drop(v) == Settle(t, v, rest(v))
<1>1. stay <=> t.lines[a].l1[c] # "I" \/ Dir!L1Room(t.lines, c)
  <2>1. Dir!InL1(t.lines, c) = held
    BY DEF Dir!InL1
  <2> HIDE DEF held
  <2>2. QED
    BY <2>1, SameCardinality DEF Dir!L1Room
<1>2. CASE stay
  <2>1. p = [s |-> t, frame |-> "I"]
    BY <1>2 DEF L1Replace
  <2>2. Dir!L1Replace(t.lines, c, a) = {t.lines}
    BY <1>1, <1>2 DEF Dir!L1Replace
  <2>3. QED
    BY <2>1, <2>2
<1>3. CASE ~stay
  <2>1. PICK v \in held : p = IF t.lines[v].l1[c] = "M"
                              THEN [s |-> out(v), frame |-> "I"]
                              ELSE [s |-> drop(v), frame |-> t.lines[v].l1[c]]
    BY <1>3 DEF L1Replace
  <2>2. Dir!L1Evict(t.lines, c, v) \subseteq Dir!L1Replace(t.lines, c, a)
    BY <1>1, <1>3 DEF Dir!L1Replace, Dir!InL1
  <2>3. CASE t.lines[v].l1[c] = "M"
    <3>1. HasLines(u(v)) /\ u(v).lines \in Dir!Persist(t.lines, {c}, v)
      BY PersistOwnersLines
    <3> HIDE DEF u
    <3>2. /\ HasLines(out(v))
          /\ out(v).lines = [u(v).lines EXCEPT ![v] = Dir!WriteBack(u(v).lines[v], c)]
      BY <3>1, SettleLines, SameRoutines
    <3> HIDE DEF out
    <3>3. out(v).lines \in Dir!L1Evict(t.lines, c, v)
      BY <2>3, <3>1, <3>2 DEF Dir!L1Evict
    <3>4. QED
      BY <2>1, <2>2, <2>3, <3>2, <3>3
  <2>4. CASE t.lines[v].l1[c] # "M"
    <3>1. [t.lines EXCEPT ![v].l1[c] = "I"] = [t.lines EXCEPT ![v] = rest(v)]
      OBVIOUS
    <3> HIDE DEF rest
    <3>2. HasLines(drop(v)) /\ drop(v).lines = [t.lines EXCEPT ![v] = rest(v)]
      BY SettleLines
    <3> HIDE DEF drop
    <3>3. drop(v).lines \in Dir!L1Evict(t.lines, c, v)
      BY <2>4, <3>1, <3>2 DEF Dir!L1Evict
    <3>4. QED
      BY <2>1, <2>2, <2>4, <3>2, <3>3
  <2>5. QED
    BY <2>3, <2>4
<1>4. QED
  BY <1>2, <1>3

\* The last-level replacement, which leaves the same state of the frame.
LEMMA L2ReplaceLines ==
  ASSUME NEW t, HasLines(t), NEW k, NEW a, NEW q \in L2Replace(t, k, a)
  PROVE  /\ HasLines(q.s)
         /\ [lines |-> q.s.lines, frame |-> q.frame] \in Dir!L2Replace(t.lines, k, a)
<1> DEFINE held == {b \in Addr : t.lines[b].l2[k] # "I"}
           stay == t.lines[a].l2[k] # "I" \/ Cardinality(held) < L2Ways
           O(v) == Owners(t.lines[v]) \cap Children(k)
           u(v) == PersistOwners(t, O(v), v)
           out(v) == Settle(u(v), v, L2Evict(u(v).lines[v], k))
<1>1. stay <=> t.lines[a].l2[k] # "I" \/ Dir!L2Room(t.lines, k)
  <2>1. Dir!InL2(t.lines, k) = held
    BY DEF Dir!InL2
  <2> HIDE DEF held
  <2>2. QED
    BY <2>1, SameCardinality DEF Dir!L2Room
<1>2. CASE stay
  <2>1. q = [s |-> t, frame |-> "I"]
    BY <1>2 DEF L2Replace
  <2>2. Dir!L2Replace(t.lines, k, a) = {[lines |-> t.lines, frame |-> "I"]}
    BY <1>1, <1>2 DEF Dir!L2Replace
  <2>3. QED
    BY <2>1, <2>2
<1>3. CASE ~stay
  <2>1. PICK v \in held : q = [s |-> out(v), frame |-> t.lines[v].l2[k]]
    BY <1>3 DEF L2Replace
  <2>2. HasLines(u(v)) /\ u(v).lines \in Dir!Persist(t.lines, O(v), v)
    BY PersistOwnersLines
  <2>3. O(v) = Dir!Owners(t.lines[v]) \cap Dir!Children(k)
    BY SameHelpers
  <2> DEFINE P == u(v).lines
             N == [P EXCEPT ![v] = Dir!L2Evict(P[v], k)]
  <2>4. HasLines(out(v)) /\ out(v).lines = N
    BY <2>2, SettleLines, SameRoutines
  <2> HIDE DEF out, u, O
  <2>5. v \in Dir!InL2(t.lines, k)
    BY DEF Dir!InL2
  <2>6. [lines |-> N, frame |-> t.lines[v].l2[k]] \in Dir!L2Replace(t.lines, k, a)
    <3> DEFINE Left(W, w) == [lines |-> [W EXCEPT ![w] = Dir!L2Evict(W[w], k)],
                              frame |-> t.lines[w].l2[k]]
               All(w) == {Left(W, w) : W \in Dir!Persist(t.lines,
                            Dir!Owners(t.lines[w]) \cap Dir!Children(k), w)}
    <3>1. Dir!L2Replace(t.lines, k, a) = UNION {All(w) : w \in Dir!InL2(t.lines, k)}
      BY <1>1, <1>3 DEF Dir!L2Replace
    <3>2. Left(P, v) \in All(v)
      BY <2>2, <2>3, Zenon
    <3> HIDE DEF All
    <3>3. QED
      BY <2>5, <3>1, <3>2
  <2>7. QED
    BY <2>1, <2>4, <2>6
<1>4. QED
  BY <1>2, <1>3

\* The eviction of a directory entry.
LEMMA DirReplaceLines ==
  ASSUME NEW t, HasLines(t), NEW a, NEW d \in DirReplace(t, a)
  PROVE  HasLines(d) /\ d.lines \in Dir!DirReplace(t.lines, a)
<1> DEFINE held == {b \in Addr : t.lines[b].dir # "I"}
           stay == t.lines[a].dir # "I" \/ Cardinality(held) < DirWays
           O(v) == Owners(t.lines[v])
           u(v) == PersistOwners(t, O(v), v)
           out(v) == Settle(u(v), v, DirEvict(u(v).lines[v]))
<1>1. stay <=> t.lines[a].dir # "I" \/ Dir!DirRoom(t.lines)
  <2>1. Dir!InDir(t.lines) = held
    BY DEF Dir!InDir
  <2> HIDE DEF held
  <2>2. QED
    BY <2>1, SameCardinality DEF Dir!DirRoom
<1>2. CASE stay
  <2>1. d = t
    BY <1>2 DEF DirReplace
  <2>2. Dir!DirReplace(t.lines, a) = {t.lines}
    BY <1>1, <1>2 DEF Dir!DirReplace
  <2>3. QED
    BY <2>1, <2>2
<1>3. CASE ~stay
  <2>1. PICK v \in held : d = out(v)
    BY <1>3 DEF DirReplace
  <2>2. HasLines(u(v)) /\ u(v).lines \in Dir!Persist(t.lines, O(v), v)
    BY PersistOwnersLines
  <2>3. O(v) = Dir!Owners(t.lines[v])
    BY SameHelpers
  <2> DEFINE P == u(v).lines
             N == [P EXCEPT ![v] = Dir!DirEvict(P[v])]
  <2>4. HasLines(out(v)) /\ out(v).lines = N
    BY <2>2, SettleLines, SameDirectory
  <2> HIDE DEF out, u, O
  <2>5. v \in Dir!InDir(t.lines)
    BY DEF Dir!InDir
  <2>6. N \in Dir!DirReplace(t.lines, a)
    BY <1>1, <1>3, <2>2, <2>3, <2>5 DEF Dir!DirReplace
  <2>7. QED
    BY <2>1, <2>4, <2>6
<1>4. QED
  BY <1>2, <1>3

\* The owner of the block persists, then perhaps the requester, and the block
\* is granted.
LEMMA GrantLines ==
  ASSUME NEW t, HasLines(t), NEW c, NEW a, NEW op, NEW ins, NEW ph1, NEW ph2
  PROVE  /\ HasLines(Grant(t, c, a, op, ins, ph1, ph2).s)
         /\ Grant(t, c, a, op, ins, ph1, ph2).s.lines \in Dir!Grant(t.lines, c, a, op, ph2)
<1> DEFINE x == t.lines[a]
           self == ph1 = "E" /\ ReachesSelf(x, c, op, ph2)
           u == PersistOwners(t, Owners(x) \ {c}, a)
           v == Persist(u, c, a, ins.atom)
           w == IF self THEN v ELSE u
           g == Settle(w, a, Fill(w.lines[a], c, op, ph2))
<1>1. Grant(t, c, a, op, ins, ph1, ph2) = [s |-> g, self |-> self]
  BY DEF Grant
<1>2. HasLines(u) /\ u.lines \in Dir!Persist(t.lines, Dir!Owners(t.lines[a]), a)
  <2>1. HasLines(u) /\ u.lines \in Dir!Persist(t.lines, Owners(x) \ {c}, a)
    BY PersistOwnersLines
  <2> HIDE DEF u
  <2>2. Owners(x) = Dir!Owners(t.lines[a])
    BY SameHelpers
  <2>3. Dir!Persist(t.lines, Owners(x) \ {c}, a) \subseteq Dir!Persist(t.lines, Owners(x), a)
    BY DEF Dir!Persist
  <2>4. QED
    BY <2>1, <2>2, <2>3
<1> HIDE DEF u
<1>3. HasLines(v) /\ v.lines \in Dir!Persist(u.lines, {c}, a)
  BY <1>2, PersistLines
<1>4. u.lines \in Dir!Persist(u.lines, {c}, a)
  BY DEF Dir!Persist
<1> HIDE DEF v
<1>5. HasLines(w) /\ w.lines \in Dir!Persist(u.lines, {c}, a)
  BY <1>2, <1>3, <1>4
<1> HIDE DEF w
<1> DEFINE P == w.lines
           N == [P EXCEPT ![a] = Dir!Fill(P[a], c, op, ph2)]
<1>6. HasLines(g) /\ g.lines = N
  BY <1>5, SettleLines, SameRoutines
<1> HIDE DEF g
<1>7. N \in Dir!Grant(t.lines, c, a, op, ph2)
  BY <1>2, <1>5 DEF Dir!Grant
<1>8. QED
  BY <1>1, <1>6, <1>7
----------------------------------------------------------------------------
\* What an access does to the line's fields leaves the copies alone.
LEMMA AfterWriteLines ==
  ASSUME NEW t, HasLines(t), NEW c, NEW a, NEW ins, NEW old, NEW st
  PROVE  /\ HasLines(AfterWrite(t, c, a, ins, old, st))
         /\ AfterWrite(t, c, a, ins, old, st).lines = t.lines
BY DEF HasLines, AfterWrite, Ordered

LEMMA AfterReadMissLines ==
  ASSUME NEW t, HasLines(t), NEW c, NEW a, NEW ins, NEW self
  PROVE  /\ HasLines(AfterReadMiss(t, c, a, ins, self))
         /\ AfterReadMiss(t, c, a, ins, self).lines = t.lines
BY DEF HasLines, AfterReadMiss

\* An access of the engine leaves lines that an access of MesiDirectory can
\* leave.
LEMMA AccessedLines ==
  ASSUME HasLines(s), NEW c, NEW a, NEW op, NEW ins, NEW r \in Accessed(c, a, op, ins),
         s' = r
  PROVE  HasLines(s)' /\ Dir!Access(c, a, op)
<1> DEFINE b   == BarrierFlush(s, c, a, op, ins)
           st  == b.lines[a].l1[c]
           old == b.meta[c][a]
           k   == Parent[c]
           Done(g) == IF op = "WR" THEN AfterWrite(g.s, c, a, ins, old, st)
                      ELSE AfterReadMiss(g.s, c, a, ins, g.self)
           hit == IF op = "WR" THEN AfterWrite(b, c, a, ins, old, st) ELSE b
           G(p, q, d) == Grant(d, c, a, op, ins, p.frame, q.frame)
           from(p, q) == {Done(G(p, q, d)) : d \in DirReplace(q.s, a)}
           miss == UNION {UNION {from(p, q) : q \in L2Replace(p.s, k, a)} : p \in L1Replace(b, c, a)}
<1>1. HasLines(b) /\ b.lines \in Dir!BarrierFlush(s.lines, c, op)
  BY BarrierFlushLines
<1>2. Accessed(c, a, op, ins) = IF ~LeavesL1(b.lines[a], c, op) THEN {hit} ELSE miss
  BY DEF Accessed
<1>3. CASE ~LeavesL1(b.lines[a], c, op)
  <2>1. r = hit
    BY <1>2, <1>3
  <2> HIDE DEF b
  <2>2. HasLines(hit) /\ hit.lines = b.lines
    BY <1>1, AfterWriteLines
  <2> HIDE DEF hit
  <2>3. HasLines(s)' /\ s'.lines = b.lines
    BY <2>1, <2>2 DEF HasLines
  <2>4. ~Dir!LeavesL1(b.lines[a], c, op)
    BY <1>3, SameHelpers
  <2>5. QED
    BY <1>1, <2>3, <2>4 DEF Dir!Access
<1>4. CASE LeavesL1(b.lines[a], c, op)
  <2> HIDE DEF from, b
  <2>1. PICK p \in L1Replace(b, c, a) : r \in UNION {from(p, q) : q \in L2Replace(p.s, k, a)}
    BY <1>2, <1>4
  <2>2. PICK q \in L2Replace(p.s, k, a) : r \in from(p, q)
    BY <2>1
  <2>3. PICK d \in DirReplace(q.s, a) : r = Done(G(p, q, d))
    BY <2>2 DEF from
  <2> DEFINE g == G(p, q, d)
             R == [lines |-> q.s.lines, frame |-> q.frame]
  <2>4. HasLines(p.s) /\ p.s.lines \in Dir!L1Replace(b.lines, c, a)
    BY <1>1, L1ReplaceLines
  <2>5. HasLines(q.s) /\ R \in Dir!L2Replace(p.s.lines, k, a)
    BY <2>4, L2ReplaceLines
  <2>6. HasLines(d) /\ d.lines \in Dir!DirReplace(q.s.lines, a)
    BY <2>5, DirReplaceLines
  <2>7. HasLines(g.s) /\ g.s.lines \in Dir!Grant(d.lines, c, a, op, q.frame)
    BY <2>6, GrantLines
  <2> HIDE DEF G
  <2>8. HasLines(Done(g)) /\ Done(g).lines = g.s.lines
    BY <2>7, AfterWriteLines, AfterReadMissLines
  <2> HIDE DEF Done, g
  <2>9. HasLines(s)' /\ s'.lines = g.s.lines
    <3>1. s' = Done(g)
      BY <2>3 DEF g
    <3>2. QED
      BY <2>8, <3>1 DEF HasLines
  <2>10. Dir!LeavesL1(b.lines[a], c, op)
    BY <1>4, SameHelpers
  <2>11. /\ R.lines = q.s.lines
         /\ R.frame = q.frame
    OBVIOUS
  <2> HIDE DEF R
  <2>12. \E D \in Dir!DirReplace(R.lines, a) :
           \E N \in Dir!Grant(D, c, a, op, R.frame) : s'.lines = N
    BY <2>6, <2>7, <2>9, <2>11
  <2>13. \E B \in Dir!L1Replace(b.lines, c, a) :
           \E Q \in Dir!L2Replace(B, Parent[c], a) :
             \E D \in Dir!DirReplace(Q.lines, a) :
               \E N \in Dir!Grant(D, c, a, op, Q.frame) : s'.lines = N
    BY <2>4, <2>5, <2>12
  <2>14. QED
    BY <1>1, <2>9, <2>10, <2>13 DEF Dir!Access
<1>5. QED
  BY <1>3, <1>4
----------------------------------------------------------------------------
\* The engine is coherent: what it does to the copies of the blocks is what
\* MesiDirectory lets a system with a persistency model do, whichever lines
\* persist and whatever the victims are.
THEOREM EngineCoherent == Spec => Coherent
<1>1. Init => HasLines(s) /\ Dir!Init
  BY SameHelpers DEF Init, HasLines, Dir!Init
<1>2. HasLines(s) /\ [Next]_vars => HasLines(s)' /\ [Dir!Next]_Dir!vars
  <2> SUFFICES ASSUME HasLines(s), [Next]_vars
               PROVE  HasLines(s)' /\ [Dir!Next]_Dir!vars
    OBVIOUS
  <2>1. ASSUME NEW c \in Core, NEW a \in Addr, NEW op \in Op, NEW atom \in Atom,
               Request(c, a, op, atom)
        PROVE  HasLines(s)' /\ Dir!Access(c, a, op)
    <3>1. s' \in Accessed(c, a, op, Stamp(c, a, atom))
      BY <2>1 DEF Request
    <3>2. QED
      BY <3>1, AccessedLines
  <2>2. CASE Next
    <3>1. PICK c \in Core, a \in Addr : Load(c, a) \/ Store(c, a)
      BY <2>2 DEF Next
    <3>2. CASE Load(c, a)
      <4>1. HasLines(s)' /\ Dir!Access(c, a, "RD")
        BY <2>1, <3>2 DEF Load, Op
      <4>2. QED
        BY <4>1 DEF Dir!Next, Dir!Read
    <3>3. CASE Store(c, a)
      <4>1. HasLines(s)' /\ Dir!Access(c, a, "WR")
        BY <2>1, <3>3 DEF Store, Op
      <4>2. QED
        BY <4>1 DEF Dir!Next, Dir!Write
    <3>4. QED
      BY <3>1, <3>2, <3>3
  <2>3. CASE UNCHANGED vars
    BY <2>3 DEF vars, HasLines, Dir!vars
  <2>4. QED
    BY <2>2, <2>3
<1>3. Dir!Spec => Mesi!Spec
  <2>1. Dir!Init => Mesi!Init
    BY DEF Mesi!Init, Mesi!Invalid, Dir!Init, Dir!Invalid
  <2>2. [Dir!Next]_Dir!vars => [Mesi!Next]_Mesi!vars
    BY DEF Mesi!Next, Mesi!vars, Mesi!Read, Mesi!Write, Mesi!Access, Mesi!Grant,
           Mesi!DirReplace, Mesi!L2Replace, Mesi!L1Replace, Mesi!L1Evict,
           Mesi!L1Room, Mesi!L2Room, Mesi!DirRoom, Mesi!InL1, Mesi!InL2,
           Mesi!InDir, Mesi!Persist, Mesi!Flush, Mesi!BarrierFlush,
           Mesi!OwnedBy, Mesi!Owners, Mesi!Children, Mesi!WriteBack,
           Mesi!DirWriteBack, Mesi!L2Evict, Mesi!DirEvict, Mesi!LeavesL1,
           Mesi!Op, Mesi!Fill, Mesi!WriteFill, Mesi!ReadFill, Mesi!Frame,
           Mesi!DirRead, Mesi!DirWrite, Mesi!Inval, Mesi!InvalChildren,
           Mesi!ShareChildren, Mesi!Share, Mesi!Targets, Mesi!Owner, Mesi!Owned,
           Mesi!Cardinality, Dir!Next, Dir!vars, Dir!Read, Dir!Write,
           Dir!Access, Dir!Grant, Dir!DirReplace, Dir!L2Replace, Dir!L1Replace,
           Dir!L1Evict, Dir!L1Room, Dir!L2Room, Dir!DirRoom, Dir!InL1, Dir!InL2,
           Dir!InDir, Dir!Persist, Dir!Flush, Dir!BarrierFlush, Dir!OwnedBy,
           Dir!Owners, Dir!Children, Dir!WriteBack, Dir!DirWriteBack,
           Dir!L2Evict, Dir!DirEvict, Dir!LeavesL1, Dir!Op, Dir!Fill,
           Dir!WriteFill, Dir!ReadFill, Dir!Frame, Dir!DirRead, Dir!DirWrite,
           Dir!Inval, Dir!InvalChildren, Dir!ShareChildren, Dir!Share,
           Dir!Targets, Dir!Owner, Dir!Owned, Dir!Cardinality
  <2>3. QED
    BY <2>1, <2>2, PTL DEF Dir!Spec, Mesi!Spec
<1>4. QED
  BY <1>1, <1>2, <1>3, PTL DEF Spec, Coherent, Dir!Spec
----------------------------------------------------------------------------
(***************************************************************************)
(* The sync maps.                                                          *)
(***************************************************************************)
LEMMA SameLists ==
  /\ \A m : Map!Entries(m) = Entries(m)
  /\ \A m, w, e : Map!addSyncLine(m, w, e) = addSyncLine(m, w, e)
  /\ \A m, W : Map!deleteFromSyncMap(m, W) = deleteFromSyncMap(m, W)
  /\ \A m, e : Map!deleteLowerFromSyncMap(m, e) = deleteLowerFromSyncMap(m, e)
<1>1. \A m : Map!Entries(m) = Entries(m)
  BY DEF Map!Entries, Entries, Map!Range, Range
<1>2. \A m, w, e : Map!addSyncLine(m, w, e) = addSyncLine(m, w, e)
  BY DEF Map!addSyncLine, addSyncLine
<1>3. \A n, D : Map!Sweep(n, D) = Sweep(n, D)
  BY DEF Map!Sweep, Sweep, Map!UnlinkStep, UnlinkStep
<1>4. \A list, head, next : Map!Follow(list, head, next) = Follow(list, head, next)
  BY DEF Map!Follow, Follow, Map!FollowStep, FollowStep
<1>5. \A list, D : Map!Survivors(list, D) = Survivors(list, D)
  BY <1>3, <1>4 DEF Map!Survivors, Survivors
<1>6. \A m, D : Map!Unlink(m, D) = Unlink(m, D)
  BY <1>5 DEF Map!Unlink, Unlink, Map!Cardinality, Cardinality
<1>7. \A m, W : Map!deleteFromSyncMap(m, W) = deleteFromSyncMap(m, W)
  BY <1>6 DEF Map!deleteFromSyncMap, deleteFromSyncMap
<1>8. \A m, e : Map!deleteLowerFromSyncMap(m, e) = deleteLowerFromSyncMap(m, e)
  BY <1>6 DEF Map!deleteLowerFromSyncMap, deleteLowerFromSyncMap
<1>9. QED
  BY <1>1, <1>2, <1>7, <1>8

SyncEntry == [addr : Addr, epoch : 0..MaxEpoch]

GoodSync(m) == Map!Sound(m, SyncEntry)

\* A list in good order holds entries of the right type.
LEMMA GoodSyncEntries ==
  ASSUME NEW m, GoodSync(m)
  PROVE  Entries(m) \subseteq SyncEntry
<1>1. MaxEpoch \in Nat
  BY EngineAssumption
<1>2. m \in [list : Seq(SyncEntry), size : Int]
  BY DEF GoodSync, Map!Sound
<1>3. QED
  BY <1>1, <1>2, Map!EntriesOf, SameLists

LEMMA EmptySync == GoodSync(EmptyMap)
<1>1. MaxEpoch \in Nat
  BY EngineAssumption
<1>2. EmptyMap \in [list : Seq(SyncEntry), size : Int] /\ EmptyMap.list = <<>> /\ EmptyMap.size = 0
  BY DEF EmptyMap
<1>3. Map!Entries(EmptyMap) = {}
  <2>1. Map!Entries(EmptyMap) = {EmptyMap.list[i] : i \in DOMAIN EmptyMap.list}
    BY <1>1, <1>2, Map!EntriesOf
  <2>2. QED
    BY <1>2, <2>1
<1>4. Map!WordsIn(EmptyMap) = {}
  BY <1>3 DEF Map!WordsIn
<1>5. QED
  BY <1>2, <1>4, FS_EmptySet DEF GoodSync, Map!Sound, Map!OnePerWord, Map!Cardinality, Cardinality

\* A block's entry that neither deletion asks for survives both.
LEMMA DeletedSync ==
  ASSUME NEW m, GoodSync(m), NEW a, NEW e
  PROVE  LET u == deleteLowerFromSyncMap(deleteFromSyncMap(m, {a}), e) IN
         /\ GoodSync(u)
         /\ Entries(u) \subseteq Entries(m)
         /\ \A x \in Entries(m) : x.addr # a /\ ~(x.epoch < e) => x \in Entries(u)
<1> DEFINE d == deleteFromSyncMap(m, {a})
<1>1. MaxEpoch \in Nat
  BY EngineAssumption
<1>2. /\ Map!Sound(d, SyncEntry) /\ Entries(d) \subseteq Entries(m)
      /\ \A x \in Entries(m) : x.addr \notin {a} => x \in Entries(d)
  BY <1>1, Map!DeleteWordsFacts, SameLists DEF GoodSync
<1> HIDE DEF d
<1>3. /\ Map!Sound(deleteLowerFromSyncMap(d, e), SyncEntry)
      /\ Entries(deleteLowerFromSyncMap(d, e)) \subseteq Entries(d)
      /\ \A x \in Entries(d) : ~(x.epoch < e) => x \in Entries(deleteLowerFromSyncMap(d, e))
  BY <1>1, <1>2, Map!DeleteLowerFacts, SameLists
<1>4. QED
  BY <1>2, <1>3 DEF GoodSync, d

\* SYNCMAP_SIZE leaves room for every block.
Roomy == IsFiniteSet(Addr) /\ SyncmapSize \in Nat /\ Cardinality(Addr) <= SyncmapSize

\* addSyncLine replaces the entry of its word, if there is room for one more.
LEMMA AddedSync ==
  ASSUME NEW m, GoodSync(m), NEW a \in Addr, NEW e \in 0..MaxEpoch
  PROVE  LET u == addSyncLine(m, a, e) IN
         /\ GoodSync(u)
         /\ Roomy => \A x : x \in Entries(u) <=>
                       (x \in Entries(m) /\ x.addr # a) \/ x = [addr |-> a, epoch |-> e]
<1> DEFINE u == addSyncLine(m, a, e)
<1>1. MaxEpoch \in Nat
  BY EngineAssumption
<1>2. /\ Map!Sound(u, SyncEntry)
      /\ a \in Map!WordsIn(m) \/ m.size < SyncmapSize => Map!Registers(m, u, a, e)
  <2>1. Map!Sound(m, [addr : Addr, epoch : 0..MaxEpoch])
    BY DEF GoodSync, SyncEntry
  <2>2. Map!addSyncLine(m, a, e) = u
    BY SameLists
  <2> HIDE DEF u
  <2>3. QED
    BY <1>1, <2>1, <2>2, Map!AddFacts DEF SyncEntry
<1>3. Roomy => a \in Map!WordsIn(m) \/ m.size < SyncmapSize
  <2>1. Map!Sound(m, [addr : Addr, epoch : 0..MaxEpoch])
    BY DEF GoodSync, SyncEntry
  <2>2. QED
    BY <1>1, <2>1, Map!RoomLeft DEF Roomy, Map!Cardinality, Cardinality, Map!IsFiniteSet, IsFiniteSet
<1> HIDE DEF u
<1>4. Map!Registers(m, u, a, e) =>
        \A x : x \in Entries(u) <=>
                 (x \in Entries(m) /\ x.addr # a) \/ x = [addr |-> a, epoch |-> e]
  BY SameLists DEF Map!Registers
<1>5. QED
  BY <1>2, <1>3, <1>4 DEF GoodSync, u

\* searchSyncMap answers with the newest entry of a word.
LEMMA AnswerNewest ==
  ASSUME NEW m, NEW b, NEW e \in searchSyncMap(m, {b}), NEW x \in Entries(m), x.addr = b
  PROVE  x.epoch <= e
BY DEF searchSyncMap

LEMMA NewestAnswers ==
  ASSUME NEW m, NEW b, NEW x \in Entries(m), x.addr = b,
         \A y \in Entries(m) : y.addr = b => y.epoch <= x.epoch
  PROVE  x.epoch \in searchSyncMap(m, {b})
BY DEF searchSyncMap
----------------------------------------------------------------------------
(***************************************************************************)
(* What is true of the engine's state between any two stages of an access. *)
(***************************************************************************)
Fields == [atom : Atom, min : 0..MaxEpoch, max : 0..MaxEpoch]

SyncType == [list : Seq(SyncEntry), size : Int]

EngineType ==
  [lines : [Addr -> LineState], meta : [Core -> [Addr -> Fields]], sync : [Core -> SyncType],
   older : [Core -> [Addr -> SUBSET Addr]], before : [Core -> SUBSET Addr],
   overtaken : SUBSET {"conflict", "flush", "merged"}]

\* Only dirty lines have epochs and older lines, which are dirty themselves.
Tidy(t) == \A c \in Core :
  /\ \A b \in Addr : b \notin Dirty(t, c) => t.meta[c][b].max = 0 /\ t.older[c][b] = {}
  /\ \A b \in Addr : t.older[c][b] \subseteq Dirty(t, c) \ {b}
  /\ t.before[c] \subseteq Dirty(t, c)

Engine(t) ==
  /\ t \in EngineType
  /\ Dir!GoodLines(t.lines)
  /\ \A c \in Core : GoodSync(t.sync[c])
  /\ Tidy(t)

LEMMA CleanType == Clean \in Fields
BY EngineAssumption DEF Clean, Fields, Atom

\* The types of the fields of a state record.
LEMMA EngineFields ==
  ASSUME NEW t \in EngineType
  PROVE  /\ HasLines(t)
         /\ t.lines \in [Addr -> LineState]
         /\ t.meta \in [Core -> [Addr -> Fields]]
         /\ t.sync \in [Core -> SyncType]
         /\ t.older \in [Core -> [Addr -> SUBSET Addr]]
         /\ t.before \in [Core -> SUBSET Addr]
         /\ t.overtaken \in SUBSET {"conflict", "flush", "merged"}
BY DEF EngineType, HasLines

\* In u, the lines F of core c have left the cache they had in t.
Departed(t, u, c, F) ==
  /\ u \in EngineType
  /\ u.sync = t.sync
  /\ \A d \in Core, b \in Addr :
       u.meta[d][b] = IF d = c /\ b \in F THEN Clean ELSE t.meta[d][b]
  /\ \A d \in Core, b \in Addr :
       u.older[d][b] = IF d # c THEN t.older[d][b]
                       ELSE IF b \in F THEN {} ELSE t.older[d][b] \ F
  /\ \A d \in Core : u.before[d] = IF d # c THEN t.before[d] ELSE t.before[d] \ F

LEMMA DepartFields ==
  ASSUME NEW t \in EngineType, NEW c \in Core, NEW F, NEW how \in {"conflict", "flush"}
  PROVE  LET u == Depart(t, c, F, how) IN
         /\ Departed(t, u, c, F)
         /\ u.lines = t.lines
         /\ u.overtaken = t.overtaken \cup {h \in {how} : \E a \in F : t.older[c][a] \ F # {}}
<1> DEFINE M == [t.meta EXCEPT ![c] = [a \in Addr |-> IF a \in F THEN Clean ELSE @[a]]]
           O == [t.older EXCEPT ![c] = [a \in Addr |-> IF a \in F THEN {} ELSE @[a] \ F]]
           B == [t.before EXCEPT ![c] = @ \ F]
           V == t.overtaken \cup {h \in {how} : \E a \in F : t.older[c][a] \ F # {}}
           u == [t EXCEPT !.meta = M, !.older = O, !.before = B, !.overtaken = V]
<1>1. M \in [Core -> [Addr -> Fields]]
  BY EngineFields, CleanType
<1>2. O \in [Core -> [Addr -> SUBSET Addr]] /\ B \in [Core -> SUBSET Addr]
  BY EngineFields
<1>3. V \in SUBSET {"conflict", "flush", "merged"}
  BY EngineFields
<1> DEFINE older(d, b) == IF d # c THEN t.older[d][b]
                          ELSE IF b \in F THEN {} ELSE t.older[d][b] \ F
           before(d) == IF d # c THEN t.before[d] ELSE t.before[d] \ F
<1>4. \A d \in Core, b \in Addr :
        M[d][b] = IF d = c /\ b \in F THEN Clean ELSE t.meta[d][b]
  BY EngineFields
<1>5. \A d \in Core, b \in Addr : O[d][b] = older(d, b)
  BY EngineFields
<1>6. \A d \in Core : B[d] = before(d)
  BY EngineFields
<1>7. Depart(t, c, F, how) = u
  BY DEF Depart
<1> HIDE DEF M, O, B, V
<1>8. u \in EngineType /\ u.lines = t.lines /\ u.sync = t.sync
  BY <1>1, <1>2, <1>3 DEF EngineType
<1>9. u.meta = M /\ u.older = O /\ u.before = B /\ u.overtaken = V
  BY DEF EngineType
<1> HIDE DEF u
<1>10. Departed(t, u, c, F)
  <2>1. \A d \in Core, b \in Addr :
          u.meta[d][b] = IF d = c /\ b \in F THEN Clean ELSE t.meta[d][b]
    BY <1>4, <1>9
  <2>2. \A d \in Core, b \in Addr : u.older[d][b] = older(d, b)
    BY <1>5, <1>9
  <2>3. \A d \in Core : u.before[d] = before(d)
    BY <1>6, <1>9
  <2>4. QED
    BY <1>8, <2>1, <2>2, <2>3, Zenon DEF Departed
<1>11. QED
  BY <1>7, <1>8, <1>9, <1>10, Zenon DEF V

\* In u, block a has the copies x, and who has lost the block has cleared it.
Settled(t, u, a, x) ==
  /\ u \in EngineType
  /\ u.lines = [t.lines EXCEPT ![a] = x] /\ u.sync = t.sync
  /\ \A d \in Core, b \in Addr :
       u.meta[d][b] = IF b = a /\ t.lines[b].l1[d] # x.l1[d] THEN Clean ELSE t.meta[d][b]
  /\ \A d \in Core, b \in Addr :
       u.older[d][b] = IF ~(t.lines[a].l1[d] = "M" /\ x.l1[d] # "M") THEN t.older[d][b]
                       ELSE IF b = a THEN {} ELSE t.older[d][b] \ {a}
  /\ \A d \in Core :
       u.before[d] = IF ~(t.lines[a].l1[d] = "M" /\ x.l1[d] # "M") THEN t.before[d]
                     ELSE t.before[d] \ {a}
  /\ "flush" \in u.overtaken => "flush" \in t.overtaken
  /\ "conflict" \in u.overtaken =>
       \/ "conflict" \in t.overtaken
       \/ \E d \in Core : t.lines[a].l1[d] = "M" /\ x.l1[d] # "M" /\ t.older[d][a] # {}

LEMMA SettleFields ==
  ASSUME NEW t \in EngineType, NEW a \in Addr, NEW x \in LineState
  PROVE  Settled(t, Settle(t, a, x), a, x)
<1> DEFINE lost == {c \in Core : t.lines[a].l1[c] = "M" /\ x.l1[c] # "M"}
           stale(c) == {a} \cap {b \in Addr : t.lines[b].l1[c] # x.l1[c]}
           L == [t.lines EXCEPT ![a] = x]
           M == [c \in Core |-> [b \in Addr |-> IF b \in stale(c) THEN Clean ELSE t.meta[c][b]]]
           O == [c \in Core |-> IF c \notin lost THEN t.older[c]
                   ELSE [b \in Addr |-> IF b = a THEN {} ELSE t.older[c][b] \ {a}]]
           B == [c \in Core |-> IF c \in lost THEN t.before[c] \ {a} ELSE t.before[c]]
           V == t.overtaken \cup {h \in {"conflict"} : \E c \in lost : t.older[c][a] # {}}
           u == [t EXCEPT !.lines = L, !.meta = M, !.older = O, !.before = B, !.overtaken = V]
           out(d) == t.lines[a].l1[d] = "M" /\ x.l1[d] # "M"
           older(d, b) == IF ~out(d) THEN t.older[d][b]
                          ELSE IF b = a THEN {} ELSE t.older[d][b] \ {a}
           before(d) == IF ~out(d) THEN t.before[d] ELSE t.before[d] \ {a}
<1>1. L \in [Addr -> LineState] /\ M \in [Core -> [Addr -> Fields]]
  BY EngineFields, CleanType
<1>2. O \in [Core -> [Addr -> SUBSET Addr]] /\ B \in [Core -> SUBSET Addr]
  BY EngineFields
<1>3. V \in SUBSET {"conflict", "flush", "merged"}
  BY EngineFields
<1>4. \A d \in Core, b \in Addr :
        M[d][b] = IF b = a /\ t.lines[b].l1[d] # x.l1[d] THEN Clean ELSE t.meta[d][b]
  OBVIOUS
<1>5. \A d \in Core, b \in Addr : O[d][b] = older(d, b)
  BY EngineFields
<1>6. \A d \in Core : B[d] = before(d)
  BY EngineFields
<1>7. Settle(t, a, x) = u
  BY DEF Settle
<1>8. /\ "flush" \in V => "flush" \in t.overtaken
      /\ "conflict" \in V =>
           "conflict" \in t.overtaken \/ \E d \in Core : out(d) /\ t.older[d][a] # {}
  OBVIOUS
<1> HIDE DEF L, M, O, B, V
<1>9. u \in EngineType /\ u.sync = t.sync
  BY <1>1, <1>2, <1>3 DEF EngineType
<1>10. u.lines = L /\ u.meta = M /\ u.older = O /\ u.before = B /\ u.overtaken = V
  BY DEF EngineType
<1> HIDE DEF u
<1>11. \A d \in Core, b \in Addr :
        u.meta[d][b] = IF b = a /\ t.lines[b].l1[d] # x.l1[d] THEN Clean ELSE t.meta[d][b]
  BY <1>4, <1>10
<1>12. \A d \in Core, b \in Addr : u.older[d][b] = older(d, b)
  BY <1>5, <1>10
<1>13. \A d \in Core : u.before[d] = before(d)
  BY <1>6, <1>10
<1>14. /\ "flush" \in u.overtaken => "flush" \in t.overtaken
       /\ "conflict" \in u.overtaken =>
            "conflict" \in t.overtaken \/ \E d \in Core : out(d) /\ t.older[d][a] # {}
  BY <1>8, <1>10
<1>15. u.lines = [t.lines EXCEPT ![a] = x]
  BY <1>10 DEF L
<1>16. Settled(t, u, a, x)
  BY <1>9, <1>11, <1>12, <1>13, <1>14, <1>15, Zenon DEF Settled
<1>17. QED
  BY <1>7, <1>16
----------------------------------------------------------------------------
(***************************************************************************)
(* Flushes.                                                                *)
(***************************************************************************)
LEMMA InstanceAssumed ==
  /\ (L1Ways \in Nat \ {0} /\ L2Ways \in Nat \ {0} /\ DirWays \in Nat \ {0})
  /\ TRUE \in BOOLEAN
  /\ LimitedPtr \in BOOLEAN /\ KeepDirOnWB \in BOOLEAN /\ MaxSharers \in Nat
  /\ Parent \in [Core -> Cache] /\ Cache0 \in Cache
BY TopologyAssumption, PolicyAssumption, EngineAssumption

LEMMA GoodLinesType ==
  ASSUME NEW L, Dir!GoodLines(L)
  PROVE  L \in [Addr -> LineState]
BY DEF Dir!GoodLines, LineState, Dir!LineState, St, Dir!St, DirSt, Dir!DirSt

LEMMA WriteBackLevel0 ==
  ASSUME NEW x \in LineState, NEW c \in Core
  PROVE  WriteBack(x, c).l1 = [x.l1 EXCEPT ![c] = "I"]
BY DEF LineState, WriteBack, DirWriteBack

\* Line c of the cache shrinks from t to u: it keeps the fields of the dirty
\* lines it keeps, and what else is dirty it has just been granted.
Shrinks(t, u) == \A c \in Core :
  /\ \A b \in Dirty(u, c) :
       \/ b \in Dirty(t, c) /\ u.meta[c][b] = t.meta[c][b]
       \/ b \notin Dirty(t, c) /\ u.meta[c][b].min = 0 /\ u.meta[c][b].max = 0
  /\ \A b \in Addr : u.older[c][b] \subseteq t.older[c][b]
  /\ u.before[c] \subseteq t.before[c]

\* Lines F of core c have been written back.
Flushed(t, u, c, F) ==
  /\ Departed(t, u, c, F)
  /\ \A b \in Addr \ F : u.lines[b] = t.lines[b]
  /\ \A d \in Core : Dirty(u, d) = IF d = c THEN Dirty(t, d) \ F ELSE Dirty(t, d)
  /\ "conflict" \in u.overtaken => "conflict" \in t.overtaken
  /\ "flush" \in u.overtaken =>
       "flush" \in t.overtaken \/ \E b \in F : t.older[c][b] \ F # {}

\* Writing back a set of lines of one core keeps the engine in good order.
LEMMA FlushStep ==
  ASSUME NEW t, Engine(t), NEW c \in Core, NEW F \in SUBSET Dirty(t, c)
  PROVE  LET u == WriteBackAll(t, c, F) IN Engine(u) /\ Flushed(t, u, c, F) /\ Shrinks(t, u)
<1> DEFINE v == Depart(t, c, F, "flush")
           L == [a \in Addr |-> IF a \in F THEN WriteBack(v.lines[a], c) ELSE v.lines[a]]
           u == [v EXCEPT !.lines = L]
<1>1. t \in EngineType /\ Dir!GoodLines(t.lines) /\ Tidy(t)
  BY DEF Engine
<1>2. /\ Departed(t, v, c, F) /\ v.lines = t.lines
      /\ v.overtaken = t.overtaken \cup {h \in {"flush"} : \E a \in F : t.older[c][a] \ F # {}}
  BY <1>1, DepartFields
<1>3. WriteBackAll(t, c, F) = u
  BY DEF WriteBackAll
<1>4. v \in EngineType /\ v.sync = t.sync
  BY <1>2 DEF Departed
<1> HIDE DEF v
<1>5. L = Dir!Flush(t.lines, c, F)
  BY <1>2, SameRoutines DEF Dir!Flush
<1>6. Dir!GoodLines(L)
  <2>1. F \in SUBSET Dir!OwnedBy(t.lines, c)
    BY DEF Dirty, Dir!OwnedBy, Dir!Owned
  <2> HIDE DEF L
  <2>2. QED
    BY <1>1, <1>5, <2>1, InstanceAssumed, Dir!FlushGood
<1>7. L \in [Addr -> LineState]
  BY <1>6, GoodLinesType
<1>8. \A b \in Addr : L[b] = IF b \in F THEN WriteBack(t.lines[b], c) ELSE t.lines[b]
  BY <1>2
<1> HIDE DEF L
<1>9. /\ u \in EngineType /\ u.lines = L /\ u.sync = t.sync /\ u.meta = v.meta
      /\ u.older = v.older /\ u.before = v.before /\ u.overtaken = v.overtaken
  BY <1>4, <1>7 DEF EngineType
<1> HIDE DEF u
<1>10. Departed(t, u, c, F)
  <2>1. \A d \in Core, b \in Addr :
          v.meta[d][b] = IF d = c /\ b \in F THEN Clean ELSE t.meta[d][b]
    BY <1>2 DEF Departed
  <2>2. \A d \in Core, b \in Addr :
          v.older[d][b] = IF d # c THEN t.older[d][b]
                          ELSE IF b \in F THEN {} ELSE t.older[d][b] \ F
    BY <1>2 DEF Departed
  <2>3. \A d \in Core : v.before[d] = IF d # c THEN t.before[d] ELSE t.before[d] \ F
    BY <1>2 DEF Departed
  <2>4. u.meta = v.meta /\ u.older = v.older /\ u.before = v.before
    BY <1>9
  <2>5. \A d \in Core, b \in Addr :
          u.meta[d][b] = IF d = c /\ b \in F THEN Clean ELSE t.meta[d][b]
    BY <2>1, <2>4
  <2>6. \A d \in Core, b \in Addr :
          u.older[d][b] = IF d # c THEN t.older[d][b]
                          ELSE IF b \in F THEN {} ELSE t.older[d][b] \ F
    BY <2>2, <2>4
  <2>7. \A d \in Core : u.before[d] = IF d # c THEN t.before[d] ELSE t.before[d] \ F
    BY <2>3, <2>4
  <2>8. QED
    BY <1>9, <2>5, <2>6, <2>7, Zenon DEF Departed
<1>11. \A d \in Core, b \in Addr :
         u.lines[b].l1[d] = IF b \in F /\ d = c THEN "I" ELSE t.lines[b].l1[d]
  <2> SUFFICES ASSUME NEW d \in Core, NEW b \in Addr
               PROVE  u.lines[b].l1[d] = IF b \in F /\ d = c THEN "I" ELSE t.lines[b].l1[d]
    OBVIOUS
  <2>1. t.lines[b] \in LineState
    BY <1>1, EngineFields
  <2>2. t.lines[b].l1 \in [Core -> St] /\ WriteBack(t.lines[b], c).l1 = [t.lines[b].l1 EXCEPT ![c] = "I"]
    BY <2>1, WriteBackLevel0 DEF LineState
  <2>3. QED
    BY <1>8, <1>9, <2>2
<1>12. \A d \in Core : Dirty(u, d) = IF d = c THEN Dirty(t, d) \ F ELSE Dirty(t, d)
  BY <1>11 DEF Dirty
<1>13. Flushed(t, u, c, F)
  <2>1. \A b \in Addr \ F : u.lines[b] = t.lines[b]
    BY <1>8, <1>9
  <2>2. "conflict" \in u.overtaken => "conflict" \in t.overtaken
    BY <1>2, <1>9
  <2>3. "flush" \in u.overtaken =>
          "flush" \in t.overtaken \/ \E b \in F : t.older[c][b] \ F # {}
    BY <1>2, <1>9
  <2>4. QED
    BY <1>10, <1>12, <2>1, <2>2, <2>3 DEF Flushed
<1>14. Shrinks(t, u)
  <2> SUFFICES ASSUME NEW d \in Core
               PROVE  /\ \A b \in Dirty(u, d) : b \in Dirty(t, d) /\ u.meta[d][b] = t.meta[d][b]
                      /\ \A b \in Addr : u.older[d][b] \subseteq t.older[d][b]
                      /\ u.before[d] \subseteq t.before[d]
    BY DEF Shrinks
  <2>1. \A b \in Addr : u.meta[d][b] = IF d = c /\ b \in F THEN Clean ELSE t.meta[d][b]
    BY <1>10 DEF Departed
  <2>2. \A b \in Dirty(u, d) : b \in Addr /\ b \in Dirty(t, d) /\ ~(d = c /\ b \in F)
    BY <1>12 DEF Dirty
  <2>3. ASSUME NEW b \in Addr PROVE u.older[d][b] \subseteq t.older[d][b]
    <3>1. u.older[d][b] = IF d # c THEN t.older[d][b]
                          ELSE IF b \in F THEN {} ELSE t.older[d][b] \ F
      BY <1>10 DEF Departed
    <3>2. QED
      BY <3>1
  <2>4. u.before[d] \subseteq t.before[d]
    <3>1. u.before[d] = IF d # c THEN t.before[d] ELSE t.before[d] \ F
      BY <1>10 DEF Departed
    <3>2. QED
      BY <3>1
  <2>5. QED
    BY <2>1, <2>2, <2>3, <2>4
<1>15. Tidy(u)
  <2> SUFFICES ASSUME NEW d \in Core
               PROVE  /\ \A b \in Addr : b \notin Dirty(u, d) => u.meta[d][b].max = 0 /\ u.older[d][b] = {}
                      /\ \A b \in Addr : u.older[d][b] \subseteq Dirty(u, d) \ {b}
                      /\ u.before[d] \subseteq Dirty(u, d)
    BY DEF Tidy
  <2>1. \A b \in Addr : u.meta[d][b] = IF d = c /\ b \in F THEN Clean ELSE t.meta[d][b]
    BY <1>10 DEF Departed
  <2>2. \A b \in Addr : u.older[d][b] = IF d # c THEN t.older[d][b]
                                        ELSE IF b \in F THEN {} ELSE t.older[d][b] \ F
    BY <1>10 DEF Departed
  <2>3. u.before[d] = IF d # c THEN t.before[d] ELSE t.before[d] \ F
    BY <1>10 DEF Departed
  <2>4. /\ \A b \in Addr : b \notin Dirty(t, d) => t.meta[d][b].max = 0 /\ t.older[d][b] = {}
        /\ \A b \in Addr : t.older[d][b] \subseteq Dirty(t, d) \ {b}
        /\ t.before[d] \subseteq Dirty(t, d)
    BY <1>1 DEF Tidy
  <2>5. Dirty(u, d) = IF d = c THEN Dirty(t, d) \ F ELSE Dirty(t, d)
    BY <1>12
  <2>6. ASSUME NEW b \in Addr, b \notin Dirty(u, d)
        PROVE  u.meta[d][b].max = 0 /\ u.older[d][b] = {}
    <3>1. b \notin Dirty(t, d) \/ (d = c /\ b \in F)
      BY <2>5, <2>6
    <3>2. Clean.max = 0
      BY DEF Clean
    <3>3. u.meta[d][b].max = 0
      BY <2>1, <2>4, <3>1, <3>2
    <3>4. u.older[d][b] = IF d # c THEN t.older[d][b]
                          ELSE IF b \in F THEN {} ELSE t.older[d][b] \ F
      BY <2>2
    <3>5. b \notin Dirty(t, d) => t.older[d][b] = {}
      BY <2>4
    <3>6. QED
      BY <3>1, <3>3, <3>4, <3>5
  <2>7. ASSUME NEW b \in Addr PROVE u.older[d][b] \subseteq Dirty(u, d) \ {b}
    BY <2>2, <2>4, <2>5
  <2>8. u.before[d] \subseteq Dirty(u, d)
    BY <2>3, <2>4, <2>5
  <2>9. QED
    BY <2>6, <2>7, <2>8
<1>16. Engine(u)
  BY <1>6, <1>9, <1>15 DEF Engine
<1>17. QED
  BY <1>3, <1>13, <1>14, <1>16

\* So does any change of one block that leaves the copies of it good.
LEMMA SettleStep ==
  ASSUME NEW t, Engine(t), NEW a \in Addr, NEW x,
         Dir!GoodLines([t.lines EXCEPT ![a] = x])
  PROVE  LET u == Settle(t, a, x) IN Engine(u) /\ Settled(t, u, a, x) /\ Shrinks(t, u)
<1> DEFINE u == Settle(t, a, x)
           out(d) == t.lines[a].l1[d] = "M" /\ x.l1[d] # "M"
<1>1. t \in EngineType /\ Dir!GoodLines(t.lines) /\ Tidy(t)
  BY DEF Engine
<1>2. t.lines \in [Addr -> LineState] /\ t.meta \in [Core -> [Addr -> Fields]]
  BY <1>1, EngineFields
<1>3. x \in LineState
  <2>1. [t.lines EXCEPT ![a] = x] \in [Addr -> LineState]
    BY GoodLinesType
  <2>2. [t.lines EXCEPT ![a] = x][a] = x
    BY <1>2
  <2>3. QED
    BY <2>1, <2>2
<1>4. Settled(t, u, a, x)
  BY <1>1, <1>3, SettleFields
<1> HIDE DEF u
<1>5. u \in EngineType /\ u.lines = [t.lines EXCEPT ![a] = x] /\ u.sync = t.sync
  BY <1>4 DEF Settled
<1>6. ASSUME NEW d \in Core
      PROVE  \A b \in Addr : b \in Dirty(u, d) <=> IF b = a THEN x.l1[d] = "M" ELSE b \in Dirty(t, d)
  BY <1>2, <1>5 DEF Dirty
<1>7. Clean.min = 0 /\ Clean.max = 0
  BY DEF Clean
<1>8. ASSUME NEW d \in Core
      PROVE  /\ \A b \in Dirty(u, d) :
                  \/ b \in Dirty(t, d) /\ u.meta[d][b] = t.meta[d][b]
                  \/ b \notin Dirty(t, d) /\ u.meta[d][b].min = 0 /\ u.meta[d][b].max = 0
             /\ \A b \in Addr : u.older[d][b] \subseteq t.older[d][b]
             /\ u.before[d] \subseteq t.before[d]
             /\ \A b \in Addr : b \notin Dirty(u, d) => u.meta[d][b].max = 0 /\ u.older[d][b] = {}
             /\ \A b \in Addr : u.older[d][b] \subseteq Dirty(u, d) \ {b}
             /\ u.before[d] \subseteq Dirty(u, d)
  <2>1. /\ \A b \in Addr : b \notin Dirty(t, d) => t.meta[d][b].max = 0 /\ t.older[d][b] = {}
        /\ \A b \in Addr : t.older[d][b] \subseteq Dirty(t, d) \ {b}
        /\ t.before[d] \subseteq Dirty(t, d)
    BY <1>1 DEF Tidy
  <2>2. \A b \in Addr :
          u.meta[d][b] = IF b = a /\ t.lines[b].l1[d] # x.l1[d] THEN Clean ELSE t.meta[d][b]
    BY <1>4 DEF Settled
  <2>3. \A b \in Addr :
          u.older[d][b] = IF ~out(d) THEN t.older[d][b]
                          ELSE IF b = a THEN {} ELSE t.older[d][b] \ {a}
    BY <1>4 DEF Settled
  <2>4. u.before[d] = IF ~out(d) THEN t.before[d] ELSE t.before[d] \ {a}
    BY <1>4 DEF Settled
  <2>5. /\ Dirty(u, d) \subseteq Addr /\ Dirty(t, d) \subseteq Addr
        /\ a \in Dirty(t, d) <=> t.lines[a].l1[d] = "M"
        /\ a \in Dirty(u, d) <=> x.l1[d] = "M"
        /\ \A b \in Addr \ {a} : b \in Dirty(u, d) <=> b \in Dirty(t, d)
        /\ out(d) <=> a \in Dirty(t, d) /\ a \notin Dirty(u, d)
    BY <1>6 DEF Dirty
  <2>6. ASSUME NEW b \in Dirty(u, d)
        PROVE  \/ b \in Dirty(t, d) /\ u.meta[d][b] = t.meta[d][b]
               \/ b \notin Dirty(t, d) /\ u.meta[d][b].min = 0 /\ u.meta[d][b].max = 0
    BY <1>7, <2>2, <2>5
  <2>7. ASSUME NEW b \in Addr PROVE u.older[d][b] \subseteq t.older[d][b]
    BY <2>3
  <2>8. u.before[d] \subseteq t.before[d]
    BY <2>4
  <2>9. ASSUME NEW b \in Addr, b \notin Dirty(u, d)
        PROVE  u.meta[d][b].max = 0 /\ u.older[d][b] = {}
    <3>1. CASE b \in Dirty(t, d)
      <4>1. b = a /\ out(d)
        BY <2>5, <2>9, <3>1
      <4>2. u.meta[d][b] = Clean
        BY <2>2, <4>1
      <4>3. QED
        BY <1>7, <2>3, <4>1, <4>2
    <3>2. CASE b \notin Dirty(t, d)
      <4>1. t.meta[d][b].max = 0 /\ t.older[d][b] = {}
        BY <2>1, <3>2
      <4>2. u.meta[d][b] = Clean \/ u.meta[d][b] = t.meta[d][b]
        BY <2>2
      <4>3. QED
        BY <1>7, <2>7, <4>1, <4>2
    <3>3. QED
      BY <3>1, <3>2
  <2>10. ASSUME NEW b \in Addr PROVE u.older[d][b] \subseteq Dirty(u, d) \ {b}
    <3>1. t.older[d][b] \subseteq Dirty(t, d) \ {b}
      BY <2>1
    <3>2. CASE ~out(d)
      <4>1. u.older[d][b] = t.older[d][b] /\ Dirty(t, d) \subseteq Dirty(u, d)
        BY <2>3, <2>5, <3>2
      <4>2. QED
        BY <3>1, <4>1
    <3>3. CASE out(d)
      <4>1. u.older[d][b] \subseteq t.older[d][b] \ {a}
        BY <2>3, <2>7, <3>3
      <4>2. Dirty(t, d) \ {a} \subseteq Dirty(u, d)
        BY <2>5
      <4>3. QED
        BY <3>1, <4>1, <4>2
    <3>4. QED
      BY <3>2, <3>3
  <2>11. u.before[d] \subseteq Dirty(u, d)
    <3>1. CASE ~out(d)
      BY <2>1, <2>4, <2>5, <3>1
    <3>2. CASE out(d)
      BY <2>1, <2>4, <2>5, <3>2
    <3>3. QED
      BY <3>1, <3>2
  <2>12. QED
    BY <2>6, <2>7, <2>8, <2>9, <2>10, <2>11
<1>9. Shrinks(t, u)
  BY <1>8 DEF Shrinks
<1>10. Tidy(u)
  BY <1>8 DEF Tidy
<1>11. \A d \in Core : GoodSync(u.sync[d])
  BY <1>5 DEF Engine
<1>12. QED
  BY <1>4, <1>5, <1>9, <1>10, <1>11 DEF Engine, u
----------------------------------------------------------------------------
(***************************************************************************)
(* The order of the lines.                                                 *)
(***************************************************************************)
\* The epochs on the dirty lines of a core are not beyond its epoch n[c].
Dated(t, n) == \A c \in Core : \A b \in Dirty(t, c) :
  t.meta[c][b].min <= n[c] /\ t.meta[c][b].max <= n[c]

\* Buffered epochs: an older line has a smaller epoch, and what was dirty at
\* the last barrier a smaller one than anything written since.
EpochOrdered(t, n) ==
  /\ "flush" \notin t.overtaken
  /\ \A c \in Core : \A b \in Addr : \A x \in t.older[c][b] :
       t.meta[c][x].max < t.meta[c][b].max
  /\ \A c \in Core : \A x \in t.before[c] : t.meta[c][x].max < n[c]

\* Release persistency: a release is written after the first store to each line
\* it comes after, also when its line has been written since.
Spanned(t) ==
  /\ "flush" \notin t.overtaken
  /\ \A c \in Core : \A b \in Addr : \A x \in t.older[c][b] :
       t.meta[c][x].min <= t.meta[c][b].max

\* Releases: the flush of line b finds its entry, and with it every older line.
RegisteredAt(t, c, b, e) ==
  /\ t.meta[c][b].atom # "NON"
  /\ e \in searchSyncMap(t.sync[c], {b})
  /\ \A x \in t.older[c][b] : t.meta[c][x].min <= e

Registered(t, c, b) == \E e \in searchSyncMap(t.sync[c], {b}) : RegisteredAt(t, c, b, e)

\* A core of O may have lost the entry of a line that is younger than the
\* lines X only: those are leaving.
Listed(t, O, X) == \A c \in Core, b \in Addr :
  t.older[c][b] # {} /\ ~(c \in O /\ t.older[c][b] \subseteq X) => Registered(t, c, b)

\* The order holds but for the blocks X, which are about to leave the cores O.
TimedBut(t, n, O, X) ==
  /\ Dated(t, n)
  /\ pmodel = "BEPB" => EpochOrdered(t, n)
  /\ pmodel # "BEPB" => Spanned(t)
  /\ pmodel # "BEPB" /\ Roomy => Listed(t, O, X)
  /\ pmodel = "BEPB" \/ Roomy =>
       (\A c \in O : \A b \in X : t.older[c][b] = {}) /\ "conflict" \notin t.overtaken

Timed(t, n) == TimedBut(t, n, {}, {})

\* What comparing two epochs needs.
LEMMA MetaNat ==
  ASSUME NEW t, Engine(t), NEW c \in Core, NEW b \in Addr
  PROVE  /\ t.meta[c][b].min \in Nat /\ t.meta[c][b].max \in Nat
         /\ t.meta[c][b].atom \in Atom
<1>1. t.meta[c][b] \in Fields
  BY EngineFields DEF Engine
<1>2. QED
  BY <1>1, EngineAssumption DEF Fields

LEMMA TidyFacts ==
  ASSUME NEW t, Engine(t), NEW c \in Core
  PROVE  /\ Dirty(t, c) \subseteq Addr
         /\ \A b \in Addr : b \notin Dirty(t, c) => t.meta[c][b].max = 0 /\ t.older[c][b] = {}
         /\ \A b \in Addr : t.older[c][b] \subseteq Dirty(t, c) \ {b}
         /\ t.before[c] \subseteq Dirty(t, c)
BY DEF Engine, Tidy, Dirty

LEMMA ShrinkDated ==
  ASSUME NEW t, NEW u, NEW n \in [Core -> Nat], Shrinks(t, u), Dated(t, n)
  PROVE  Dated(u, n)
<1> SUFFICES ASSUME NEW c \in Core, NEW b \in Dirty(u, c)
             PROVE  u.meta[c][b].min <= n[c] /\ u.meta[c][b].max <= n[c]
  BY DEF Dated
<1>1. \/ b \in Dirty(t, c) /\ u.meta[c][b] = t.meta[c][b]
      \/ u.meta[c][b].min = 0 /\ u.meta[c][b].max = 0
  BY DEF Shrinks
<1>2. n[c] \in Nat
  OBVIOUS
<1>3. QED
  BY <1>1, <1>2 DEF Dated

\* A line that still has an older one has kept its fields, and so has the other.
LEMMA ShrinkOlder ==
  ASSUME NEW t, NEW u, Engine(t), Engine(u), Shrinks(t, u),
         NEW c \in Core, NEW b \in Addr, NEW x \in u.older[c][b]
  PROVE  /\ x \in t.older[c][b] /\ x \in Addr /\ x # b
         /\ u.meta[c][x] = t.meta[c][x] /\ u.meta[c][b] = t.meta[c][b]
<1>1. x \in t.older[c][b]
  BY DEF Shrinks
<1>2. x \in Dirty(u, c) /\ b \in Dirty(u, c) /\ x \in Addr /\ x # b
  BY TidyFacts
<1>3. x \in Dirty(t, c) /\ b \in Dirty(t, c)
  BY <1>1, TidyFacts
<1>4. u.meta[c][x] = t.meta[c][x] /\ u.meta[c][b] = t.meta[c][b]
  BY <1>2, <1>3 DEF Shrinks
<1>5. QED
  BY <1>1, <1>2, <1>4

\* With fewer dirty lines and fewer older ones, the epochs stay in order.
LEMMA ShrinkEpochs ==
  ASSUME NEW t, NEW u, NEW n, Engine(t), Engine(u), Shrinks(t, u), EpochOrdered(t, n),
         "flush" \notin u.overtaken
  PROVE  EpochOrdered(u, n)
<1>1. ASSUME NEW c \in Core, NEW b \in Addr, NEW x \in u.older[c][b]
      PROVE  u.meta[c][x].max < u.meta[c][b].max
  BY <1>1, ShrinkOlder DEF EpochOrdered
<1>2. ASSUME NEW c \in Core, NEW x \in u.before[c]
      PROVE  u.meta[c][x].max < n[c]
  <2>1. x \in t.before[c]
    BY <1>2 DEF Shrinks
  <2>2. x \in Dirty(u, c) /\ x \in Dirty(t, c)
    BY <1>2, <2>1, TidyFacts
  <2>3. u.meta[c][x] = t.meta[c][x]
    BY <2>2 DEF Shrinks
  <2>4. QED
    BY <2>1, <2>3 DEF EpochOrdered
<1>3. QED
  BY <1>1, <1>2 DEF EpochOrdered

LEMMA ShrinkSpanned ==
  ASSUME NEW t, NEW u, Engine(t), Engine(u), Shrinks(t, u), Spanned(t),
         "flush" \notin u.overtaken
  PROVE  Spanned(u)
<1>1. ASSUME NEW c \in Core, NEW b \in Addr, NEW x \in u.older[c][b]
      PROVE  u.meta[c][x].min <= u.meta[c][b].max
  BY <1>1, ShrinkOlder DEF Spanned
<1>2. QED
  BY <1>1 DEF Spanned

LEMMA ShrinkRegistered ==
  ASSUME NEW t, NEW u, Engine(t), Engine(u), Shrinks(t, u), NEW c \in Core, NEW b \in Addr,
         u.older[c][b] # {}, NEW e, RegisteredAt(t, c, b, e),
         e \in searchSyncMap(u.sync[c], {b})
  PROVE  Registered(u, c, b)
<1>1. u.meta[c][b] = t.meta[c][b]
  BY ShrinkOlder
<1>2. ASSUME NEW x \in u.older[c][b]
      PROVE  u.meta[c][x].min <= e
  BY <1>2, ShrinkOlder DEF RegisteredAt
<1>3. QED
  BY <1>1, <1>2 DEF RegisteredAt, Registered

\* So do the entries that are still needed.
LEMMA ShrinkListed ==
  ASSUME NEW t, NEW u, Engine(t), Engine(u), Shrinks(t, u), NEW O, NEW X,
         Listed(t, O, X), u.sync = t.sync
  PROVE  Listed(u, O, X)
<1> SUFFICES ASSUME NEW c \in Core, NEW b \in Addr, u.older[c][b] # {},
                    ~(c \in O /\ u.older[c][b] \subseteq X)
             PROVE  Registered(u, c, b)
  BY DEF Listed
<1>1. u.older[c][b] \subseteq t.older[c][b]
  BY DEF Shrinks
<1>2. Registered(t, c, b)
  BY <1>1 DEF Listed
<1>3. QED
  BY <1>2, ShrinkRegistered DEF Registered
----------------------------------------------------------------------------
(***************************************************************************)
(* System::persist.                                                        *)
(***************************************************************************)
\* Core c has written lines back, the line of block a excepted.
Persisted(t, u, a) ==
  /\ Engine(u) /\ Shrinks(t, u)
  /\ u.lines[a] = t.lines[a]
  /\ \A d \in Core : a \in Dirty(u, d) <=> a \in Dirty(t, d)
  /\ \A d \in Core : Dirty(u, d) \subseteq Dirty(t, d)
  /\ "conflict" \in u.overtaken => "conflict" \in t.overtaken

LEMMA ShrinksToItself == ASSUME NEW t PROVE Shrinks(t, t)
BY DEF Shrinks

LEMMA FlushPersisted ==
  ASSUME NEW t, Engine(t), NEW c \in Core, NEW a \in Addr, NEW F \in SUBSET (Dirty(t, c) \ {a})
  PROVE  Persisted(t, WriteBackAll(t, c, F), a)
<1> DEFINE u == WriteBackAll(t, c, F)
<1>1. Engine(u) /\ Flushed(t, u, c, F) /\ Shrinks(t, u)
  BY FlushStep
<1> HIDE DEF u
<1>2. u.lines[a] = t.lines[a]
  BY <1>1 DEF Flushed
<1>3. \A d \in Core : a \in Dirty(u, d) <=> a \in Dirty(t, d)
  BY <1>1 DEF Flushed
<1>4. "conflict" \in u.overtaken => "conflict" \in t.overtaken
  BY <1>1 DEF Flushed
<1>5. \A d \in Core : Dirty(u, d) \subseteq Dirty(t, d)
  BY <1>1 DEF Flushed
<1>6. QED
  BY <1>1, <1>2, <1>3, <1>4, <1>5 DEF Persisted, u

\* A flush of whole epochs overtakes nothing, and lets go of all that the line
\* of block a waits for.
LEMMA EpochPersistStep ==
  ASSUME NEW t, Engine(t), NEW c \in Core, NEW a \in Addr, NEW n
  PROVE  LET u == epochPersist(t, c, a) IN
         /\ Persisted(t, u, a)
         /\ EpochOrdered(t, n) => EpochOrdered(u, n) /\ u.older[c][a] = {}
<1> DEFINE F == {b \in Dirty(t, c) \ {a} : t.meta[c][b].max < t.meta[c][a].max}
           u == WriteBackAll(t, c, F)
<1>1. epochPersist(t, c, a) = u
  BY DEF epochPersist
<1>2. Persisted(t, u, a)
  BY FlushPersisted
<1>3. Engine(u) /\ Flushed(t, u, c, F) /\ Shrinks(t, u)
  BY FlushStep
<1> HIDE DEF u
<1>4. ASSUME EpochOrdered(t, n), NEW b \in Addr, NEW x \in t.older[c][b],
             t.meta[c][b].max <= t.meta[c][a].max
      PROVE  x \in F
  <2>1. x \in Dirty(t, c) /\ x \in Addr
    BY TidyFacts
  <2>2. t.meta[c][x].max < t.meta[c][b].max
    BY <1>4 DEF EpochOrdered
  <2>3. t.meta[c][x].max < t.meta[c][a].max /\ x # a
    BY <1>4, <2>1, <2>2, MetaNat
  <2>4. QED
    BY <2>1, <2>3
<1>5. ASSUME EpochOrdered(t, n) PROVE EpochOrdered(u, n)
  <2>1. ASSUME NEW b \in F PROVE t.older[c][b] \ F = {}
    <3>1. b \in Addr /\ t.meta[c][b].max <= t.meta[c][a].max
      BY TidyFacts, MetaNat
    <3>2. QED
      BY <1>4, <1>5, <3>1
  <2>2. "flush" \notin u.overtaken
    BY <1>3, <1>5, <2>1 DEF Flushed, EpochOrdered
  <2>3. QED
    BY <1>3, <1>5, <2>2, ShrinkEpochs
<1>6. ASSUME EpochOrdered(t, n) PROVE u.older[c][a] = {}
  <2>1. u.older[c][a] = IF a \in F THEN {} ELSE t.older[c][a] \ F
    BY <1>3 DEF Flushed, Departed
  <2>2. t.older[c][a] \subseteq F
    BY <1>4, <1>6, MetaNat
  <2>3. QED
    BY <2>1, <2>2
<1>7. QED
  BY <1>1, <1>2, <1>5, <1>6

\* The history of what was overtaken is nothing the engine depends on.
LEMMA Recorded ==
  ASSUME NEW t, Engine(t), NEW X \in SUBSET {"conflict", "flush", "merged"}
  PROVE  LET u == [t EXCEPT !.overtaken = X] IN
         /\ Engine(u)
         /\ u.lines = t.lines /\ u.meta = t.meta /\ u.sync = t.sync
         /\ u.older = t.older /\ u.before = t.before /\ u.overtaken = X
         /\ \A d \in Core : Dirty(u, d) = Dirty(t, d)
<1> DEFINE u == [t EXCEPT !.overtaken = X]
<1>1. t \in EngineType
  BY DEF Engine
<1>2. /\ u \in EngineType
      /\ u.lines = t.lines /\ u.meta = t.meta /\ u.sync = t.sync
      /\ u.older = t.older /\ u.before = t.before /\ u.overtaken = X
  BY <1>1 DEF EngineType
<1> HIDE DEF u
<1>3. \A d \in Core : Dirty(u, d) = Dirty(t, d)
  BY <1>2 DEF Dirty
<1>4. Tidy(u)
  BY <1>2, <1>3 DEF Engine, Tidy
<1>5. Engine(u)
  BY <1>2, <1>4 DEF Engine
<1>6. QED
  BY <1>2, <1>3, <1>5 DEF u

\* releaseFlush takes along every line it must, unless a line it takes along
\* has a store of its own that is newer than the release.
LEMMA ReleaseFlushed ==
  ASSUME NEW t, Engine(t), NEW c \in Core, NEW a \in Addr, NEW e \in Nat
  PROVE  LET v == releaseFlush(t, c, a, e) IN
         /\ Persisted(t, v, a)
         /\ v.sync = t.sync
         /\ \A x \in Dirty(v, c) \ {a} : ~(t.meta[c][x].min <= e)
         /\ Spanned(t) => Spanned(v)
<1> DEFINE F == {b \in Dirty(t, c) \ {a} : t.meta[c][b].min <= e}
           w == WriteBackAll(t, c, F)
           X == t.overtaken \cup Overtakes(t, c, F, a, e)
           v == [w EXCEPT !.overtaken = X]
<1>1. releaseFlush(t, c, a, e) = v
  BY DEF releaseFlush
<1>2. Persisted(t, w, a)
  BY FlushPersisted
<1>3. Engine(w) /\ Flushed(t, w, c, F) /\ Shrinks(t, w)
  BY FlushStep
<1>4. Overtakes(t, c, F, a, e) \subseteq {"flush", "merged"}
  BY DEF Overtakes
<1> HIDE DEF w
<1>5. X \in SUBSET {"conflict", "flush", "merged"}
  BY <1>4, EngineFields DEF Engine
<1> HIDE DEF X
<1>6. /\ Engine(v)
      /\ v.lines = w.lines /\ v.meta = w.meta /\ v.sync = w.sync
      /\ v.older = w.older /\ v.before = w.before /\ v.overtaken = X
      /\ \A d \in Core : Dirty(v, d) = Dirty(w, d)
  BY <1>3, <1>5, Recorded
<1> HIDE DEF v
<1>7. Shrinks(t, v)
  BY <1>3, <1>6 DEF Shrinks
<1>8. Persisted(t, v, a)
  <2>1. "conflict" \in v.overtaken => "conflict" \in t.overtaken
    BY <1>4, <1>6 DEF X
  <2>2. /\ v.lines[a] = t.lines[a]
        /\ \A d \in Core : a \in Dirty(v, d) <=> a \in Dirty(t, d)
        /\ \A d \in Core : Dirty(v, d) \subseteq Dirty(t, d)
    BY <1>2, <1>6 DEF Persisted
  <2>3. QED
    BY <1>6, <1>7, <2>1, <2>2 DEF Persisted
<1>9. v.sync = t.sync
  BY <1>3, <1>6 DEF Flushed, Departed
<1>10. ASSUME NEW x \in Dirty(v, c) \ {a} PROVE ~(t.meta[c][x].min <= e)
  <2>1. Dirty(v, c) = Dirty(t, c) \ F
    BY <1>3, <1>6 DEF Flushed
  <2>2. QED
    BY <1>10, <2>1
<1>11. ASSUME Spanned(t) PROVE Spanned(v)
  <2>1. ASSUME NEW b \in F, ~(t.meta[c][b].max > e) PROVE t.older[c][b] \subseteq F \cup {a}
    <3>1. b \in Addr /\ t.meta[c][b].max \in Nat
      BY TidyFacts, MetaNat
    <3>2. SUFFICES ASSUME NEW x \in t.older[c][b] PROVE x \in F \cup {a}
      OBVIOUS
    <3>3. x \in Dirty(t, c) /\ x \in Addr
      BY <3>1, TidyFacts
    <3>4. t.meta[c][x].min <= t.meta[c][b].max /\ t.meta[c][x].min \in Nat
      BY <1>11, <3>1, <3>3, MetaNat DEF Spanned
    <3>5. t.meta[c][x].min <= e
      BY <2>1, <3>1, <3>4
    <3>6. QED
      BY <3>3, <3>5
  <2>2. "flush" \notin Overtakes(t, c, F, a, e)
    <3>1. \A b \in F : t.older[c][b] \ (F \cup {a}) # {} => t.meta[c][b].max > e
      BY <2>1
    <3> HIDE DEF F
    <3>2. QED
      BY <3>1 DEF Overtakes
  <2>3. "flush" \notin v.overtaken
    BY <1>6, <1>11, <2>2 DEF X, Spanned
  <2>4. QED
    BY <1>6, <1>7, <1>11, <2>3, ShrinkSpanned
<1>12. QED
  BY <1>1, <1>8, <1>9, <1>10, <1>11 DEF v

\* searchSyncMap has at most one answer.
LEMMA OneAnswer ==
  ASSUME NEW m, GoodSync(m), NEW b, NEW e \in searchSyncMap(m, {b}), NEW f \in searchSyncMap(m, {b})
  PROVE  e = f /\ e \in Nat
<1>1. Entries(m) \subseteq SyncEntry
  BY GoodSyncEntries
<1>2. PICK x \in Entries(m) : x.addr = b /\ x.epoch = e
  BY DEF searchSyncMap
<1>3. PICK y \in Entries(m) : y.addr = b /\ y.epoch = f
  BY DEF searchSyncMap
<1>4. e \in Nat /\ f \in Nat
  BY <1>1, <1>2, <1>3, EngineAssumption DEF SyncEntry
<1>5. e <= f
  BY <1>2, AnswerNewest
<1>6. f <= e
  BY <1>3, AnswerNewest
<1>7. QED
  BY <1>4, <1>5, <1>6

\* releasePersist with an entry of epoch e for the block.
LEMMA ReleaseFlushStep ==
  ASSUME NEW t, Engine(t), NEW c \in Core, NEW a \in Addr,
         NEW e \in searchSyncMap(t.sync[c], {a})
  PROVE  LET v == releaseFlush(t, c, a, e)
             m == deleteLowerFromSyncMap(deleteFromSyncMap(t.sync[c], {a}), e)
             u == [v EXCEPT !.sync[c] = deleteLowerFromSyncMap(deleteFromSyncMap(@, {a}), e)]
         IN  /\ Persisted(t, u, a)
             /\ u.sync = [t.sync EXCEPT ![c] = m]
             /\ \A x \in Dirty(u, c) \ {a} : ~(t.meta[c][x].min <= e)
             /\ Spanned(t) => Spanned(u)
<1> DEFINE v == releaseFlush(t, c, a, e)
           m == deleteLowerFromSyncMap(deleteFromSyncMap(t.sync[c], {a}), e)
           u == [v EXCEPT !.sync[c] = deleteLowerFromSyncMap(deleteFromSyncMap(@, {a}), e)]
<1>1. e \in Nat
  BY OneAnswer DEF Engine
<1>2. /\ Persisted(t, v, a) /\ v.sync = t.sync
      /\ \A x \in Dirty(v, c) \ {a} : ~(t.meta[c][x].min <= e)
      /\ Spanned(t) => Spanned(v)
  BY <1>1, ReleaseFlushed
<1> HIDE DEF v
<1>3. Engine(v)
  BY <1>2 DEF Persisted
<1>4. v \in EngineType /\ v.sync = t.sync /\ t.sync \in [Core -> SyncType]
  BY <1>2, <1>3, EngineFields DEF Engine
<1>5. GoodSync(m) /\ m \in SyncType
  <2>1. GoodSync(t.sync[c])
    BY DEF Engine
  <2>2. GoodSync(m)
    BY <2>1, DeletedSync
  <2> HIDE DEF m
  <2>3. QED
    BY <2>2 DEF GoodSync, Map!Sound, SyncType
<1>6. u = [v EXCEPT !.sync = [t.sync EXCEPT ![c] = m]]
  BY <1>4 DEF EngineType
<1> HIDE DEF m
<1>7. /\ u \in EngineType /\ u.lines = v.lines /\ u.meta = v.meta /\ u.older = v.older
      /\ u.before = v.before /\ u.overtaken = v.overtaken
      /\ u.sync = [t.sync EXCEPT ![c] = m]
  <2> DEFINE Y == [t.sync EXCEPT ![c] = m]
  <2>1. Y \in [Core -> SyncType]
    BY <1>4, <1>5
  <2>2. u = [v EXCEPT !.sync = Y]
    BY <1>6
  <2> HIDE DEF Y, u
  <2>3. QED
    BY <1>4, <2>1, <2>2 DEF EngineType, Y
<1> HIDE DEF u
<1>8. \A d \in Core : Dirty(u, d) = Dirty(v, d)
  BY <1>7 DEF Dirty
<1>9. Tidy(u)
  BY <1>3, <1>7, <1>8 DEF Engine, Tidy
<1>10. Engine(u)
  <2>1. \A d \in Core : GoodSync(u.sync[d])
    BY <1>4, <1>5, <1>7 DEF Engine
  <2>2. QED
    BY <1>3, <1>7, <1>9, <2>1 DEF Engine
<1>11. Shrinks(t, u)
  BY <1>2, <1>7, <1>8 DEF Persisted, Shrinks
<1>12. Persisted(t, u, a)
  BY <1>2, <1>7, <1>8, <1>10, <1>11 DEF Persisted
<1>13. \A x \in Dirty(u, c) \ {a} : ~(t.meta[c][x].min <= e)
  BY <1>2, <1>8
<1>14. Spanned(t) => Spanned(u)
  BY <1>2, <1>7 DEF Spanned
<1>15. QED
  BY <1>7, <1>12, <1>13, <1>14 DEF m, u, v

\* Before a line leaves: whether it has older lines or not, its semantics say
\* so, or it is not dirty at all.
Telling(t, c, a, atom) == atom = t.meta[c][a].atom \/ a \notin Dirty(t, c)

\* Nothing older than block a is left behind, and whoever loses its entry has
\* nothing older than itself left but block a.
LEMMA ReleasePersistStep ==
  ASSUME NEW t, Engine(t), NEW c \in Core, NEW a \in Addr, NEW O
  PROVE  LET u == releasePersist(t, c, a) IN
         /\ Persisted(t, u, a)
         /\ Listed(t, O, {a}) => Listed(u, O \cup {c}, {a}) /\ u.older[c][a] = {}
         /\ Spanned(t) => Spanned(u)
<1> DEFINE found == searchSyncMap(t.sync[c], {a})
           e == CHOOSE f \in found : TRUE
           v == releaseFlush(t, c, a, e)
           m == deleteLowerFromSyncMap(deleteFromSyncMap(t.sync[c], {a}), e)
           w == [v EXCEPT !.sync[c] = deleteLowerFromSyncMap(deleteFromSyncMap(@, {a}), e)]
           u == releasePersist(t, c, a)
<1>1. u = IF found = {} THEN t ELSE w
  BY DEF releasePersist
<1>2. GoodSync(t.sync[c]) /\ t.sync \in [Core -> SyncType]
  BY EngineFields DEF Engine
<1>3. Listed(t, O, {a}) /\ t.older[c][a] # {} => Registered(t, c, a)
  <2>1. t.older[c][a] \subseteq Dirty(t, c) \ {a}
    BY TidyFacts
  <2>2. t.older[c][a] # {} => ~(t.older[c][a] \subseteq {a})
    BY <2>1
  <2>3. QED
    BY <2>2 DEF Listed
<1>4. CASE found = {}
  <2>1. u = t
    BY <1>1, <1>4
  <2>2. Listed(t, O, {a}) => t.older[c][a] = {}
    BY <1>3, <1>4 DEF Registered
  <2>3. Listed(t, O, {a}) => Listed(t, O \cup {c}, {a})
    BY DEF Listed
  <2>4. Persisted(t, t, a)
    BY ShrinksToItself DEF Persisted
  <2> HIDE DEF u
  <2>5. QED
    BY <2>1, <2>2, <2>3, <2>4 DEF u
<1>5. CASE found # {}
  <2>1. e \in found
    BY <1>5
  <2>2. u = w
    BY <1>1, <1>5
  <2> HIDE DEF e
  <2>3. /\ Persisted(t, w, a)
        /\ w.sync = [t.sync EXCEPT ![c] = m]
        /\ \A x \in Dirty(w, c) \ {a} : ~(t.meta[c][x].min <= e)
        /\ Spanned(t) => Spanned(w)
    BY <2>1, ReleaseFlushStep
  <2> HIDE DEF w, v
  <2>4. Engine(w) /\ Shrinks(t, w)
    BY <2>3 DEF Persisted
  <2>5. e \in Nat
    BY <1>2, <2>1, OneAnswer
  <2>6. Listed(t, O, {a}) => w.older[c][a] = {}
    <3> SUFFICES ASSUME Listed(t, O, {a}), NEW y \in w.older[c][a] PROVE FALSE
      OBVIOUS
    <3>1. y \in t.older[c][a] /\ y \in Dirty(w, c) \ {a}
      BY <2>4, ShrinkOlder, TidyFacts
    <3>2. PICK f \in found : RegisteredAt(t, c, a, f)
      BY <1>3, <3>1 DEF Registered
    <3>3. f = e
      BY <1>2, <2>1, OneAnswer
    <3>4. t.meta[c][y].min <= e
      BY <3>1, <3>2, <3>3 DEF RegisteredAt
    <3>5. QED
      BY <2>3, <3>1, <3>4
  <2>7. Listed(t, O, {a}) => Listed(w, O \cup {c}, {a})
    <3> SUFFICES ASSUME Listed(t, O, {a}), NEW d \in Core, NEW b \in Addr, w.older[d][b] # {},
                        ~(d \in O \cup {c} /\ w.older[d][b] \subseteq {a})
                 PROVE  Registered(w, d, b)
      BY DEF Listed
    <3>1. w.older[d][b] \subseteq t.older[d][b]
      BY <2>4 DEF Shrinks
    <3>2. Registered(t, d, b)
      BY <3>1 DEF Listed
    <3>3. PICK f \in searchSyncMap(t.sync[d], {b}) : RegisteredAt(t, d, b, f)
      BY <3>2 DEF Registered
    <3>4. CASE d # c
      <4>1. w.sync[d] = t.sync[d]
        BY <1>2, <2>3, <3>4
      <4>2. QED
        BY <2>4, <3>3, <4>1, ShrinkRegistered
    <3>5. CASE d = c
      <4>1. b # a
        BY <2>6, <3>5
      <4>2. PICK y \in w.older[c][b] : y # a
        BY <3>5
      <4>3. y \in Dirty(w, c) /\ y \in t.older[c][b] /\ y \in Addr
        BY <2>4, <4>2, ShrinkOlder, TidyFacts
      <4>4. ~(t.meta[c][y].min <= e)
        BY <2>3, <4>2, <4>3
      <4>5. t.meta[c][y].min <= f
        BY <3>3, <3>5, <4>3 DEF RegisteredAt
      <4>6. f \in Nat
        BY <1>2, <3>3, <3>5, OneAnswer
      <4>7. ~(f < e)
        BY <2>5, <4>3, <4>4, <4>5, <4>6, MetaNat
      <4>8. /\ Entries(m) \subseteq Entries(t.sync[c])
            /\ \A x \in Entries(t.sync[c]) : x.addr # a /\ ~(x.epoch < e) => x \in Entries(m)
        BY <1>2, DeletedSync
      <4>9. w.sync[c] = m
        BY <1>2, <2>3
      <4> HIDE DEF m
      <4>10. f \in searchSyncMap(m, {b})
        <5>1. PICK x \in Entries(t.sync[c]) : x.addr = b /\ x.epoch = f
          BY <3>3, <3>5 DEF searchSyncMap
        <5>2. \A z \in Entries(m) : z.addr = b => z.epoch <= x.epoch
          BY <3>3, <3>5, <4>8, <5>1, AnswerNewest
        <5>3. x \in Entries(m)
          BY <4>1, <4>7, <4>8, <5>1
        <5>4. QED
          BY <5>1, <5>2, <5>3, NewestAnswers
      <4>11. QED
        BY <2>4, <3>3, <3>5, <4>9, <4>10, ShrinkRegistered
    <3>6. QED
      BY <3>4, <3>5
  <2> HIDE DEF u
  <2>8. QED
    BY <2>2, <2>3, <2>6, <2>7 DEF u
<1>6. QED
  BY <1>4, <1>5

\* Once core c has persisted what is older than block a, its line may go.
LEMMA PersistedTimed ==
  ASSUME NEW t, NEW u, NEW c \in Core, NEW a \in Addr, NEW n \in [Core -> Nat], NEW O \in SUBSET Core,
         Persisted(t, u, a),
         pmodel = "BEPB" /\ EpochOrdered(t, n) => EpochOrdered(u, n) /\ u.older[c][a] = {},
         pmodel # "BEPB" /\ Listed(t, O, {a}) => Listed(u, O \cup {c}, {a}) /\ u.older[c][a] = {},
         pmodel # "BEPB" /\ Spanned(t) => Spanned(u),
         TimedBut(t, n, O, {a})
  PROVE  TimedBut(u, n, O \cup {c}, {a})
<1>1. Dated(u, n)
  BY ShrinkDated DEF Persisted, TimedBut
<1>2. pmodel = "BEPB" => EpochOrdered(u, n)
  BY DEF TimedBut
<1>3. pmodel # "BEPB" /\ Roomy => Listed(u, O \cup {c}, {a})
  BY DEF TimedBut
<1>4. ASSUME pmodel = "BEPB" \/ Roomy, NEW d \in O \cup {c}, NEW b \in {a}
      PROVE  u.older[d][b] = {}
  <2>1. d = c => u.older[d][b] = {}
    BY <1>4 DEF TimedBut
  <2>2. d \in O => t.older[d][b] = {}
    BY <1>4 DEF TimedBut
  <2>3. d \in Core => u.older[d][b] \subseteq t.older[d][b]
    BY DEF Persisted, Shrinks
  <2>4. QED
    BY <2>1, <2>2, <2>3
<1>5. pmodel = "BEPB" \/ Roomy => "conflict" \notin u.overtaken
  <2>1. "conflict" \in u.overtaken => "conflict" \in t.overtaken
    BY DEF Persisted
  <2>2. QED
    BY <2>1 DEF TimedBut
<1>6. pmodel # "BEPB" => Spanned(u)
  BY DEF TimedBut
<1>7. QED
  BY <1>1, <1>2, <1>3, <1>4, <1>5, <1>6 DEF TimedBut

\* System::persist keeps the order and leaves no line older than block a.
LEMMA PersistStep ==
  ASSUME NEW t, Engine(t), NEW c \in Core, NEW a \in Addr, NEW atom, Telling(t, c, a, atom),
         NEW n \in [Core -> Nat], NEW O \in SUBSET Core
  PROVE  LET u == Persist(t, c, a, atom) IN
         /\ Persisted(t, u, a)
         /\ TimedBut(t, n, O, {a}) => TimedBut(u, n, O \cup {c}, {a})
<1>1. CASE pmodel = "BEPB"
  <2> DEFINE u == epochPersist(t, c, a)
  <2>1. Persist(t, c, a, atom) = u
    BY <1>1 DEF Persist
  <2>2. Persisted(t, u, a) /\ (EpochOrdered(t, n) => EpochOrdered(u, n) /\ u.older[c][a] = {})
    BY EpochPersistStep
  <2> HIDE DEF u
  <2>3. QED
    BY <1>1, <2>1, <2>2, PersistedTimed
<1>2. CASE pmodel # "BEPB" /\ atom # "NON"
  <2> DEFINE u == releasePersist(t, c, a)
  <2>1. Persist(t, c, a, atom) = u
    BY <1>2 DEF Persist
  <2>2. /\ Persisted(t, u, a)
        /\ Listed(t, O, {a}) => Listed(u, O \cup {c}, {a}) /\ u.older[c][a] = {}
        /\ Spanned(t) => Spanned(u)
    BY ReleasePersistStep
  <2> HIDE DEF u
  <2>3. QED
    BY <1>2, <2>1, <2>2, PersistedTimed
<1>3. CASE pmodel # "BEPB" /\ atom = "NON"
  <2>1. Persist(t, c, a, atom) = t
    BY <1>3 DEF Persist
  <2>2. Persisted(t, t, a)
    BY ShrinksToItself DEF Persisted
  <2>3. ASSUME Listed(t, O, {a}) PROVE t.older[c][a] = {}
    <3>1. /\ t.older[c][a] \subseteq Dirty(t, c) \ {a}
          /\ a \notin Dirty(t, c) => t.older[c][a] = {}
      BY TidyFacts
    <3>2. t.older[c][a] # {} => Registered(t, c, a)
      BY <2>3, <3>1 DEF Listed
    <3>3. QED
      BY <1>3, <3>1, <3>2 DEF Registered, RegisteredAt, Telling
  <2>4. Listed(t, O, {a}) => Listed(t, O \cup {c}, {a})
    BY DEF Listed
  <2>5. QED
    BY <1>3, <2>1, <2>2, <2>3, <2>4, PersistedTimed
<1>4. QED
  BY <1>1, <1>2, <1>3

\* At most one core owns a block.
LEMMA OneOwner ==
  ASSUME NEW t, Engine(t), NEW a \in Addr, NEW c \in Owners(t.lines[a]), NEW d \in Owners(t.lines[a])
  PROVE  c = d
<1>1. Dir!LineInv(t.lines[a])
  BY DEF Engine, Dir!GoodLines
<1>2. Dir!L1OwnerBacked(t.lines[a])
  BY <1>1 DEF Dir!LineInv
<1>3. QED
  BY <1>2 DEF Dir!L1OwnerBacked, Owners, Dir!Owned, Owned

LEMMA PersistOwnersStep ==
  ASSUME NEW t, Engine(t), NEW a \in Addr, NEW O \in SUBSET Owners(t.lines[a]),
         NEW n \in [Core -> Nat]
  PROVE  LET u == PersistOwners(t, O, a) IN
         /\ Persisted(t, u, a)
         /\ Timed(t, n) => TimedBut(u, n, O, {a})
<1>0. Timed(t, n) => TimedBut(t, n, {}, {a})
  BY DEF Timed, TimedBut, Listed
<1>1. CASE O = {}
  <2>1. PersistOwners(t, O, a) = t
    BY <1>1 DEF PersistOwners
  <2>2. Persisted(t, t, a)
    BY ShrinksToItself DEF Persisted
  <2>3. QED
    BY <1>0, <1>1, <2>1, <2>2
<1>2. CASE O # {}
  <2> DEFINE c == CHOOSE c \in O : TRUE
             u == Persist(t, c, a, t.meta[c][a].atom)
  <2>1. c \in O
    BY <1>2
  <2>2. PersistOwners(t, O, a) = u
    BY <1>2 DEF PersistOwners
  <2> HIDE DEF c
  <2>3. c \in Core /\ O = {c}
    <3>1. c \in Owners(t.lines[a]) /\ c \in Core
      BY <2>1 DEF Owners
    <3>2. \A d \in O : d = c
      BY <3>1, OneOwner
    <3>3. QED
      BY <2>1, <3>1, <3>2
  <2>4. Telling(t, c, a, t.meta[c][a].atom)
    BY DEF Telling
  <2>5. Persisted(t, u, a) /\ (TimedBut(t, n, {}, {a}) => TimedBut(u, n, {} \cup {c}, {a}))
    BY <2>3, <2>4, PersistStep
  <2> HIDE DEF u
  <2>6. {} \cup {c} = O
    BY <2>3
  <2>7. QED
    BY <1>0, <2>2, <2>5, <2>6
<1>3. QED
  BY <1>1, <1>2

\* All who lose block a as its copies become x are in O, and no one in O keeps it.
Losers(t, a, x, O) ==
  /\ \A d \in Core : t.lines[a].l1[d] = "M" /\ x.l1[d] # "M" => d \in O
  /\ \A d \in Core : d \in O => x.l1[d] # "M" \/ t.lines[a].l1[d] # "M"

LEMMA SettleTimed ==
  ASSUME NEW t, Engine(t), NEW a \in Addr, NEW x, Dir!GoodLines([t.lines EXCEPT ![a] = x]),
         NEW O, NEW n \in [Core -> Nat], TimedBut(t, n, O, {a}), Losers(t, a, x, O)
  PROVE  Timed(Settle(t, a, x), n)
<1> DEFINE u == Settle(t, a, x)
<1>1. Engine(u) /\ Settled(t, u, a, x) /\ Shrinks(t, u)
  BY SettleStep
<1> HIDE DEF u
<1>2. Dated(u, n)
  BY <1>1, ShrinkDated DEF TimedBut
<1>3. pmodel = "BEPB" => EpochOrdered(u, n)
  <2>1. "flush" \in u.overtaken => "flush" \in t.overtaken
    BY <1>1 DEF Settled
  <2>2. EpochOrdered(t, n) => EpochOrdered(u, n)
    BY <1>1, <2>1, ShrinkEpochs DEF EpochOrdered
  <2>3. QED
    BY <2>2 DEF TimedBut
<1>4. ASSUME pmodel # "BEPB" /\ Roomy PROVE Listed(u, {}, {})
  <2> SUFFICES ASSUME NEW c \in Core, NEW b \in Addr, u.older[c][b] # {}
               PROVE  Registered(u, c, b)
    BY DEF Listed
  <2>1. u.sync = t.sync /\ t.lines \in [Addr -> LineState] /\ u.lines = [t.lines EXCEPT ![a] = x]
    BY <1>1, EngineFields DEF Settled, Engine
  <2>2. PICK y \in u.older[c][b] : TRUE
    OBVIOUS
  <2>3. y \in t.older[c][b] /\ y \in Dirty(u, c) /\ y \in Dirty(t, c)
    BY <1>1, ShrinkOlder, TidyFacts
  <2>4. c \in O => y # a
    BY <2>1, <2>3 DEF Dirty, Losers
  <2>5. ~(c \in O /\ t.older[c][b] \subseteq {a})
    BY <2>3, <2>4
  <2>6. Registered(t, c, b)
    BY <1>4, <2>3, <2>5 DEF TimedBut, Listed
  <2>7. QED
    BY <1>1, <2>1, <2>6, ShrinkRegistered DEF Registered
<1>5. pmodel = "BEPB" \/ Roomy => "conflict" \notin u.overtaken
  <2>1. "conflict" \in u.overtaken =>
          \/ "conflict" \in t.overtaken
          \/ \E d \in Core : t.lines[a].l1[d] = "M" /\ x.l1[d] # "M" /\ t.older[d][a] # {}
    BY <1>1 DEF Settled
  <2>2. QED
    BY <2>1 DEF TimedBut, Losers
<1>6. pmodel # "BEPB" => Spanned(u)
  <2>1. "flush" \in u.overtaken => "flush" \in t.overtaken
    BY <1>1 DEF Settled
  <2>2. Spanned(t) => Spanned(u)
    BY <1>1, <2>1, ShrinkSpanned DEF Spanned
  <2>3. QED
    BY <2>2 DEF TimedBut
<1>7. QED
  BY <1>2, <1>3, <1>4, <1>5, <1>6 DEF TimedBut, Timed, u
----------------------------------------------------------------------------
(***************************************************************************)
(* The replacements.                                                       *)
(***************************************************************************)
\* From t to u lines have left, in an order the clock n allows.
Stepped(t, u, n) ==
  /\ Engine(u)
  /\ \A d \in Core : Dirty(u, d) \subseteq Dirty(t, d)
  /\ Timed(t, n) => Timed(u, n)

\* The owners of a victim persist, and then it has the copies x.
LEMMA EvictStep ==
  ASSUME NEW t, Engine(t), NEW v \in Addr, NEW O \in SUBSET Owners(t.lines[v]),
         NEW n \in [Core -> Nat], NEW x, Dir!Good(x),
         \A d \in Core : t.lines[v].l1[d] = "M" /\ x.l1[d] # "M" => d \in O,
         \A d \in O : x.l1[d] # "M",
         \A d \in Core : x.l1[d] = "M" => t.lines[v].l1[d] = "M"
  PROVE  Stepped(t, Settle(PersistOwners(t, O, v), v, x), n)
<1> DEFINE u == PersistOwners(t, O, v)
           w == Settle(u, v, x)
<1>1. Persisted(t, u, v) /\ (Timed(t, n) => TimedBut(u, n, O, {v}))
  BY PersistOwnersStep
<1> HIDE DEF u
<1>2. Engine(u) /\ u.lines[v] = t.lines[v] /\ \A d \in Core : Dirty(u, d) \subseteq Dirty(t, d)
  BY <1>1 DEF Persisted
<1>3. Dir!GoodLines([u.lines EXCEPT ![v] = x])
  BY <1>2, InstanceAssumed, Dir!GoodUpdate DEF Engine
<1>4. Engine(w) /\ Settled(u, w, v, x)
  BY <1>2, <1>3, SettleStep
<1>5. Timed(t, n) => Timed(w, n)
  <2>1. \A d \in Core : u.lines[v].l1[d] = "M" /\ x.l1[d] # "M" => d \in O
    BY <1>2
  <2>2. \A d \in Core : d \in O => x.l1[d] # "M" \/ u.lines[v].l1[d] # "M"
    OBVIOUS
  <2>3. TimedBut(u, n, O, {v}) => Timed(w, n)
    BY <1>2, <1>3, <2>1, <2>2, SettleTimed DEF Losers
  <2>4. QED
    BY <1>1, <2>3
<1> HIDE DEF w
<1>6. ASSUME NEW d \in Core PROVE Dirty(w, d) \subseteq Dirty(t, d)
  <2>1. w.lines = [u.lines EXCEPT ![v] = x] /\ u.lines \in [Addr -> LineState]
    BY <1>2, <1>4, EngineFields DEF Settled, Engine
  <2>2. \A b \in Dirty(w, d) : b = v \/ b \in Dirty(u, d)
    BY <2>1 DEF Dirty
  <2>3. v \in Dirty(w, d) => v \in Dirty(t, d)
    BY <2>1 DEF Dirty
  <2>4. QED
    BY <1>2, <2>2, <2>3
<1>7. QED
  BY <1>4, <1>5, <1>6 DEF Stepped, w, u

LEMMA GoodLine ==
  ASSUME NEW t, Engine(t), NEW a \in Addr
  PROVE  /\ Dir!Good(t.lines[a]) /\ t.lines[a] \in LineState
         /\ t.lines[a] \in Dir!LineState
<1>1. Dir!Good(t.lines[a])
  BY Dir!GoodLinesGood, InstanceAssumed DEF Engine
<1>2. QED
  BY <1>1 DEF Dir!Good, LineState, Dir!LineState, St, Dir!St, DirSt, Dir!DirSt

LEMMA EmptyClock == [c \in Core |-> 0] \in [Core -> Nat]
OBVIOUS

LEMMA NothingToDo ==
  ASSUME NEW t, Engine(t), NEW n
  PROVE  Stepped(t, t, n)
BY DEF Stepped

\* The eviction from level 0.
LEMMA L1ReplaceStep ==
  ASSUME NEW t, Engine(t), NEW c \in Core, NEW a \in Addr, NEW p \in L1Replace(t, c, a),
         NEW n \in [Core -> Nat]
  PROVE  Stepped(t, p.s, n) /\ p.frame \in St
<1> DEFINE held == {b \in Addr : t.lines[b].l1[c] # "I"}
           stay == t.lines[a].l1[c] # "I" \/ Cardinality(held) < L1Ways
           u(v) == PersistOwners(t, {c}, v)
           out(v) == Settle(u(v), v, WriteBack(u(v).lines[v], c))
           rest(v) == [t.lines[v] EXCEPT !.l1[c] = "I"]
           drop(v) == Settle(t, v, rest(v))
<1>1. CASE stay
  <2>1. p = [s |-> t, frame |-> "I"]
    BY <1>1 DEF L1Replace
  <2>2. QED
    BY <2>1, NothingToDo DEF St
<1>2. CASE ~stay
  <2>1. PICK v \in held : p = IF t.lines[v].l1[c] = "M"
                              THEN [s |-> out(v), frame |-> "I"]
                              ELSE [s |-> drop(v), frame |-> t.lines[v].l1[c]]
    BY <1>2 DEF L1Replace
  <2>2. v \in Addr
    OBVIOUS
  <2>3. Dir!Good(t.lines[v]) /\ t.lines[v] \in LineState
    BY <2>2, GoodLine
  <2>4. t.lines[v].l1 \in [Core -> St] /\ t.lines[v].l1[c] \in St
    BY <2>3 DEF LineState
  <2> HIDE DEF held, stay
  <2>5. CASE t.lines[v].l1[c] = "M"
    <3> DEFINE x == WriteBack(t.lines[v], c)
    <3>1. {c} \in SUBSET Owners(t.lines[v])
      BY <2>5 DEF Owners, Owned
    <3>2. Persisted(t, u(v), v)
      BY <2>2, <3>1, EmptyClock, PersistOwnersStep
    <3>3. out(v) = Settle(u(v), v, x)
      BY <3>2 DEF Persisted
    <3>4. x.l1 = [t.lines[v].l1 EXCEPT ![c] = "I"]
      BY <2>3, WriteBackLevel0
    <3>5. Dir!Good(x)
      BY <2>3, <2>5, InstanceAssumed, SameRoutines, SameHelpers, Dir!WriteBackGood DEF Owned
    <3> HIDE DEF x, out
    <3>6. Stepped(t, Settle(u(v), v, x), n)
      BY <2>2, <2>4, <3>1, <3>4, <3>5, EvictStep
    <3>7. QED
      BY <2>1, <2>5, <3>3, <3>6 DEF St
  <2>6. CASE t.lines[v].l1[c] # "M"
    <3>1. rest(v).l1 = [t.lines[v].l1 EXCEPT ![c] = "I"]
      BY <2>3 DEF LineState
    <3>2. Dir!Good(rest(v))
      BY <2>3, InstanceAssumed, Dir!DropGood
    <3>3. PersistOwners(t, {}, v) = t
      BY DEF PersistOwners
    <3> HIDE DEF rest
    <3>4. Stepped(t, Settle(PersistOwners(t, {}, v), v, rest(v)), n)
      BY <2>2, <2>4, <2>6, <3>1, <3>2, EvictStep
    <3>5. QED
      BY <2>1, <2>4, <2>6, <3>3, <3>4
  <2>7. QED
    BY <2>5, <2>6
<1>3. QED
  BY <1>1, <1>2

\* What the eviction of a last-level line takes from its children.
LEMMA L2EvictLevel0 ==
  ASSUME NEW x, Dir!Good(x), x \in LineState, NEW k \in Cache, NEW d \in Core
  PROVE  /\ L2Evict(x, k).l1[d] =
              IF x.l2[k] \in Owned /\ Parent[d] = k THEN "I" ELSE x.l1[d]
         /\ x.l1[d] \in Owned /\ Parent[d] = k => x.l2[k] \in Owned
<1>1. Dir!L1OwnerBacked(x)
  BY DEF Dir!Good, Dir!LineInv
<1>2. x.l1[d] \in Owned /\ Parent[d] = k => x.l2[k] \in Owned
  BY <1>1 DEF Dir!L1OwnerBacked, Dir!Owned, Owned
<1>3. CASE x.l2[k] \in Owned
  <2> DEFINE y == InvalChildren(x, k)
             z == DirWriteBack(y)
  <2>1. y \in LineState /\ \A e \in Core : y.l1[e] = IF Parent[e] = k THEN "I" ELSE x.l1[e]
    BY DEF InvalChildren, LineState, St
  <2> HIDE DEF y
  <2>2. z \in LineState /\ z.l1 = y.l1
    BY <2>1 DEF DirWriteBack, LineState, DirSt, St
  <2> HIDE DEF z
  <2>3. [z EXCEPT !.l2[k] = "I"].l1 = z.l1
    BY <2>2 DEF LineState
  <2>4. L2Evict(x, k) = [z EXCEPT !.l2[k] = "I"]
    BY <1>3 DEF L2Evict, y, z
  <2>5. QED
    BY <1>2, <1>3, <2>1, <2>2, <2>3, <2>4
<1>4. CASE x.l2[k] \notin Owned
  <2>1. L2Evict(x, k) = [x EXCEPT !.l2[k] = "I"]
    BY <1>4 DEF L2Evict
  <2>2. [x EXCEPT !.l2[k] = "I"].l1 = x.l1
    BY DEF LineState
  <2>3. QED
    BY <1>2, <1>4, <2>1, <2>2
<1>5. QED
  BY <1>3, <1>4

\* The eviction from level 1, which takes the children's copies along.
LEMMA L2ReplaceStep ==
  ASSUME NEW t, Engine(t), NEW k \in Cache, NEW a \in Addr, NEW q \in L2Replace(t, k, a),
         NEW n \in [Core -> Nat]
  PROVE  Stepped(t, q.s, n) /\ q.frame \in St
<1> DEFINE held == {b \in Addr : t.lines[b].l2[k] # "I"}
           stay == t.lines[a].l2[k] # "I" \/ Cardinality(held) < L2Ways
           O(v) == Owners(t.lines[v]) \cap Children(k)
           u(v) == PersistOwners(t, O(v), v)
           out(v) == Settle(u(v), v, L2Evict(u(v).lines[v], k))
<1>1. CASE stay
  <2>1. q = [s |-> t, frame |-> "I"]
    BY <1>1 DEF L2Replace
  <2>2. QED
    BY <2>1, NothingToDo DEF St
<1>2. CASE ~stay
  <2>1. PICK v \in held : q = [s |-> out(v), frame |-> t.lines[v].l2[k]]
    BY <1>2 DEF L2Replace
  <2>2. v \in Addr /\ t.lines[v].l2[k] # "I"
    OBVIOUS
  <2>3. Dir!Good(t.lines[v]) /\ t.lines[v] \in LineState
    BY <2>2, GoodLine
  <2>4. t.lines[v].l2[k] \in St
    BY <2>3 DEF LineState
  <2> DEFINE x == L2Evict(t.lines[v], k)
  <2>5. O(v) \in SUBSET Owners(t.lines[v])
    OBVIOUS
  <2>6. Persisted(t, u(v), v)
    BY <2>2, <2>5, EmptyClock, PersistOwnersStep
  <2>7. out(v) = Settle(u(v), v, x)
    BY <2>6 DEF Persisted
  <2>8. Dir!Good(x)
    BY <2>2, <2>3, InstanceAssumed, SameRoutines, Dir!L2EvictGood
  <2>9. \A d \in Core : x.l1[d] = IF t.lines[v].l2[k] \in Owned /\ Parent[d] = k THEN "I"
                                  ELSE t.lines[v].l1[d]
    BY <2>3, L2EvictLevel0
  <2>10. \A d \in O(v) : t.lines[v].l2[k] \in Owned /\ Parent[d] = k /\ d \in Core
    BY <2>3, L2EvictLevel0 DEF Owners, Children
  <2>11. \A d \in Core : t.lines[v].l1[d] = "M" /\ Parent[d] = k => d \in O(v)
    BY DEF Owners, Children, Owned
  <2> HIDE DEF x, out, held, stay, O
  <2>12. Stepped(t, Settle(u(v), v, x), n)
    BY <2>2, <2>5, <2>8, <2>9, <2>10, <2>11, EvictStep
  <2>13. QED
    BY <2>1, <2>4, <2>7, <2>12
<1>3. QED
  BY <1>1, <1>2

\* Nobody owns a block that has no entry, or a shared one.
LEMMA EntryOwned ==
  ASSUME NEW x, Dir!Good(x), x.dir \notin Owned, NEW d \in Core
  PROVE  x.l1[d] \notin Owned
BY InstanceAssumed, SameHelpers, Dir!SharedHasNoOwner

LEMMA InvalLevel0 ==
  ASSUME NEW x \in LineState, NEW K, NEW d \in Core
  PROVE  Inval(x, K).l1[d] = "I" \/ Inval(x, K).l1[d] = x.l1[d]
BY DEF Inval, LineState

\* The eviction from the directory, which takes every copy along.
LEMMA DirReplaceStep ==
  ASSUME NEW t, Engine(t), NEW a \in Addr, NEW e \in DirReplace(t, a), NEW n \in [Core -> Nat]
  PROVE  Stepped(t, e, n)
<1> DEFINE held == {b \in Addr : t.lines[b].dir # "I"}
           stay == t.lines[a].dir # "I" \/ Cardinality(held) < DirWays
           O(v) == Owners(t.lines[v])
           u(v) == PersistOwners(t, O(v), v)
           out(v) == Settle(u(v), v, DirEvict(u(v).lines[v]))
<1>1. CASE stay
  <2>1. e = t
    BY <1>1 DEF DirReplace
  <2>2. QED
    BY <2>1, NothingToDo
<1>2. CASE ~stay
  <2>1. PICK v \in held : e = out(v)
    BY <1>2 DEF DirReplace
  <2>2. v \in Addr
    OBVIOUS
  <2>3. Dir!Good(t.lines[v]) /\ t.lines[v] \in LineState
    BY <2>2, GoodLine
  <2> DEFINE x == DirEvict(t.lines[v])
             y == Inval(t.lines[v], Targets(t.lines[v]))
  <2>4. Persisted(t, u(v), v)
    BY <2>2, EmptyClock, PersistOwnersStep
  <2>5. out(v) = Settle(u(v), v, x)
    BY <2>4 DEF Persisted
  <2>6. Dir!Good(x)
    BY <2>3, InstanceAssumed, SameDirectory, Dir!DirEvictGood
  <2>7. x.dir = "I" /\ x.l1 = y.l1
    BY <2>3 DEF DirEvict, Inval, LineState
  <2>8. \A d \in Core : y.l1[d] = "I" \/ y.l1[d] = t.lines[v].l1[d]
    BY <2>3, InvalLevel0
  <2> HIDE DEF x, y
  <2>9. \A d \in Core : x.l1[d] \notin Owned
    BY <2>6, <2>7, EntryOwned DEF Owned
  <2>10. \A d \in O(v) : d \in Core /\ x.l1[d] # "M"
    BY <2>9 DEF Owners, Owned
  <2>11. \A d \in Core : t.lines[v].l1[d] = "M" => d \in O(v)
    BY DEF Owners, Owned
  <2>12. \A d \in Core : x.l1[d] = "M" => t.lines[v].l1[d] = "M"
    BY <2>9 DEF Owned
  <2> HIDE DEF out, held, stay
  <2>13. Stepped(t, Settle(u(v), v, x), n)
    BY <2>2, <2>6, <2>10, <2>11, <2>12, EvictStep
  <2>14. QED
    BY <2>1, <2>5, <2>13
<1>3. QED
  BY <1>1, <1>2
----------------------------------------------------------------------------
(***************************************************************************)
(* The grant.                                                              *)
(***************************************************************************)
LEMMA SameLineState == Dir!LineState = LineState
BY DEF LineState, Dir!LineState, St, Dir!St, DirSt, Dir!DirSt

LEMMA DirReadType ==
  ASSUME NEW x \in LineState, NEW k \in Cache
  PROVE  DirRead(x, k) \in LineState
<1>1. x \in Dir!LineState /\ x.dir \in DirSt
  BY SameLineState DEF LineState
<1>2. CASE x.dir = "I"
  BY <1>1, <1>2, InstanceAssumed, SameDirectory, SameLineState, Dir!DirReadMiss
<1>3. CASE x.dir \in {"E", "M"}
  <2>1. x.dir \in Dir!Owned
    BY <1>3 DEF Dir!Owned
  <2>2. QED
    BY <1>1, <2>1, InstanceAssumed, SameDirectory, SameLineState, Dir!DirReadOwned
<1>4. CASE x.dir \in {"S", "B"}
  BY <1>1, <1>4, InstanceAssumed, SameDirectory, SameLineState, Dir!DirReadShared
<1>5. QED
  BY <1>1, <1>2, <1>3, <1>4 DEF DirSt, St

LEMMA FrameType ==
  ASSUME NEW x \in LineState, NEW c \in Core, NEW ph \in St
  PROVE  Frame(x, c, ph) \in LineState
BY TopologyAssumption DEF Frame, LineState, St

LEMMA FilledLevel0 ==
  ASSUME NEW z \in LineState, NEW c \in Core, NEW k \in Cache, NEW st \in St
  PROVE  LET y == [z EXCEPT !.l1[c] = st, !.l2[k] = st] IN y.l1[c] = st /\ y.l2[k] = st
BY DEF LineState

\* The requester of a write is the only owner of what it is given; nobody
\* modifies what a reader is given.
LEMMA FillLevel0 ==
  ASSUME NEW x, Dir!Good(x), x \in LineState, NEW c \in Core, NEW op \in Op, NEW ph \in St
  PROVE  LET y == Fill(x, c, op, ph) IN
         /\ Dir!Good(y)
         /\ op = "WR" => y.l1[c] = "M"
         /\ op = "RD" => y.l1[c] # "M"
         /\ \A d \in Core \ {c} : y.l1[d] \notin Owned
<1> DEFINE k == Parent[c]
           f == Frame(x, c, ph)
           y == Fill(x, c, op, ph)
<1>1. k \in Cache /\ f \in LineState
  BY FrameType, TopologyAssumption
<1> HIDE DEF f
<1>2. CASE op = "WR"
  <2> DEFINE z == IF x.l2[k] \in Owned THEN InvalChildren(f, k) ELSE DirWrite(f, k)
  <2>1. y = [z EXCEPT !.l1[c] = "M", !.l2[k] = "M"]
    BY <1>2 DEF Fill, WriteFill, f
  <2>2. Dir!Good(y)
    BY <1>2, InstanceAssumed, SameRoutines, Dir!WriteFillGood DEF Dir!Fill, Dir!St, St
  <2>3. InvalChildren(f, k) \in LineState
    BY <1>1 DEF InvalChildren, LineState, St
  <2>4. DirWrite(f, k) \in LineState
    <3>1. Inval(f, Targets(f)) \in LineState
      BY <1>1 DEF Inval, LineState, St
    <3>2. QED
      BY <1>1, <3>1 DEF DirWrite, LineState, DirSt, St
  <2>5. z \in LineState
    BY <2>3, <2>4
  <2> HIDE DEF z, y
  <2>6. y.l1[c] = "M"
    BY <1>1, <2>1, <2>5, FilledLevel0 DEF St
  <2>7. Dir!L1OwnerBacked(y)
    BY <2>2 DEF Dir!Good, Dir!LineInv
  <2>8. \A d \in Core \ {c} : y.l1[d] \notin Owned
    BY <2>6, <2>7 DEF Dir!L1OwnerBacked, Dir!Owned, Owned
  <2>9. QED
    BY <1>2, <2>2, <2>6, <2>8 DEF y
<1>3. CASE op = "RD"
  <2> DEFINE z == IF x.l2[k] \in Owned THEN DirRead(ShareChildren(f, k), k)
                  ELSE IF x.l2[k] = "S" THEN f ELSE DirRead(f, k)
             st == IF x.l2[k] = "I" /\ z.dir = "E" THEN "E" ELSE "S"
  <2>1. y = [z EXCEPT !.l1[c] = st, !.l2[k] = st]
    BY <1>3 DEF Fill, ReadFill, f
  <2>2. Dir!Good(y)
    BY <1>3, InstanceAssumed, SameRoutines, Dir!ReadFillGood DEF Dir!Fill, Dir!St, St
  <2>3. ShareChildren(f, k) \in LineState
    BY <1>1 DEF ShareChildren, LineState, St
  <2>4. z \in LineState
    BY <1>1, <2>3, DirReadType
  <2>5. st \in {"E", "S"}
    OBVIOUS
  <2> HIDE DEF z, st, y
  <2>6. y.l1[c] = st /\ y.l2[k] = st
    BY <1>1, <2>1, <2>4, <2>5, FilledLevel0 DEF St
  <2>7. Dir!L1OwnerBacked(y) /\ Dir!L2SharerTracked(y)
    BY <2>2 DEF Dir!Good, Dir!LineInv
  <2>8. \A d \in Core \ {c} : y.l1[d] \notin Owned
    <3>1. CASE st = "E"
      BY <2>6, <2>7, <3>1 DEF Dir!L1OwnerBacked, Dir!Owned, Owned
    <3>2. CASE st = "S"
      <4>1. y.dir \notin Owned
        BY <1>1, <2>6, <2>7, <3>2 DEF Dir!L2SharerTracked, Owned
      <4>2. QED
        BY <2>2, <4>1, EntryOwned
    <3>3. QED
      BY <2>5, <3>1, <3>2
  <2>9. QED
    BY <1>3, <2>2, <2>5, <2>6, <2>8 DEF y
<1>4. QED
  BY <1>2, <1>3 DEF Op

\* The history knows nothing of block a in the cache of core c.
Fresh(t, c, a) ==
  /\ t.older[c][a] = {} /\ a \notin t.before[c]
  /\ \A b \in Addr : a \notin t.older[c][b]

LEMMA NotDirtyFresh ==
  ASSUME NEW t, Engine(t), NEW u, Shrinks(t, u), NEW c \in Core, NEW a \in Addr,
         a \notin Dirty(t, c)
  PROVE  Fresh(u, c, a)
<1>1. /\ t.older[c][a] = {} /\ a \notin t.before[c]
      /\ \A b \in Addr : a \notin t.older[c][b]
  BY TidyFacts
<1>2. /\ \A b \in Addr : u.older[c][b] \subseteq t.older[c][b]
      /\ u.before[c] \subseteq t.before[c]
  BY DEF Shrinks
<1>3. QED
  BY <1>1, <1>2 DEF Fresh

\* The requester gets the block: others persist and lose it first, so that its
\* own line is new.
LEMMA GrantStep ==
  ASSUME NEW t, Engine(t), NEW c \in Core, NEW a \in Addr, NEW op \in Op, NEW ins,
         NEW ph1, NEW ph2 \in St, a \notin Dirty(t, c), NEW n \in [Core -> Nat]
  PROVE  LET g == Grant(t, c, a, op, ins, ph1, ph2).s IN
         /\ Engine(g) /\ Fresh(g, c, a)
         /\ Timed(t, n) => Timed(g, n)
         /\ a \in Dirty(g, c) <=> op = "WR"
         /\ \A d \in Core : Dirty(g, d) \subseteq Dirty(t, d) \cup {a}
<1> DEFINE x == t.lines[a]
           y == Fill(x, c, op, ph2)
           other == Owners(x) \ {c}
           self == ph1 = "E" /\ ReachesSelf(x, c, op, ph2)
           u == PersistOwners(t, other, a)
           v == Persist(u, c, a, ins.atom)
           w == IF self THEN v ELSE u
           g == Settle(w, a, Fill(w.lines[a], c, op, ph2))
<1>1. Grant(t, c, a, op, ins, ph1, ph2).s = g
  BY DEF Grant
<1>2. other \in SUBSET Owners(x) /\ other \in SUBSET Core /\ other \cup {c} \in SUBSET Core
  BY DEF Owners
<1>3. x \in LineState /\ Dir!Good(x) /\ x.l1[c] # "M" /\ a \notin Dirty(t, c)
  BY GoodLine DEF Dirty
<1>4. /\ Dir!Good(y)
      /\ y.l1[c] = "M" <=> op = "WR"
      /\ \A d \in Core \ {c} : y.l1[d] \notin Owned
  BY <1>3, FillLevel0 DEF Op
<1>5. Persisted(t, u, a) /\ (Timed(t, n) => TimedBut(u, n, other, {a}))
  BY <1>2, PersistOwnersStep
<1> HIDE DEF u, y
<1>6. /\ Engine(u) /\ u.lines[a] = x /\ a \notin Dirty(u, c)
      /\ \A d \in Core : Dirty(u, d) \subseteq Dirty(t, d)
  BY <1>3, <1>5 DEF Persisted
<1>7. Persisted(u, v, a) /\ (TimedBut(u, n, other, {a}) => TimedBut(v, n, other \cup {c}, {a}))
  <2>1. Telling(u, c, a, ins.atom)
    BY <1>6 DEF Telling
  <2>2. QED
    BY <1>2, <1>6, <2>1, PersistStep
<1> HIDE DEF v, other
<1>8. /\ Engine(v) /\ v.lines[a] = x
      /\ \A d \in Core : Dirty(v, d) \subseteq Dirty(t, d)
  BY <1>6, <1>7 DEF Persisted
<1> HIDE DEF self
<1>9. /\ Engine(w) /\ w.lines[a] = x
      /\ \A d \in Core : Dirty(w, d) \subseteq Dirty(t, d)
  BY <1>6, <1>8
<1>10. Timed(t, n) => TimedBut(w, n, other, {a}) \/ TimedBut(w, n, other \cup {c}, {a})
  BY <1>5, <1>7
<1> HIDE DEF w, x
<1>11. g = Settle(w, a, y) /\ Dir!GoodLines([w.lines EXCEPT ![a] = y])
  <2>1. Dir!GoodLines([w.lines EXCEPT ![a] = y])
    BY <1>4, <1>9, InstanceAssumed, Dir!GoodUpdate DEF Engine
  <2>2. QED
    BY <1>9, <2>1 DEF y
<1> HIDE DEF g
<1>12. Engine(g) /\ Settled(w, g, a, y) /\ Shrinks(w, g)
  BY <1>9, <1>11, SettleStep
<1>13. Fresh(g, c, a)
  <2>1. a \notin Dirty(w, c)
    BY <1>3, <1>9 DEF Dirty
  <2>2. QED
    BY <1>9, <1>12, <2>1, NotDirtyFresh
<1>14. g.lines = [w.lines EXCEPT ![a] = y] /\ w.lines \in [Addr -> LineState]
  BY <1>9, <1>12, EngineFields DEF Settled, Engine
<1>15. a \in Dirty(g, c) <=> op = "WR"
  BY <1>4, <1>14 DEF Dirty
<1>16. \A d \in Core : Dirty(g, d) \subseteq Dirty(t, d) \cup {a}
  <2>1. \A d \in Core : Dirty(g, d) \subseteq Dirty(w, d) \cup {a}
    BY <1>14 DEF Dirty
  <2>2. QED
    BY <1>9, <2>1
<1>17. ASSUME Timed(t, n) PROVE Timed(g, n)
  <2>0. Engine(w) /\ Dir!GoodLines([w.lines EXCEPT ![a] = y])
    BY <1>9, <1>11
  <2>1. PICK P : TimedBut(w, n, P, {a}) /\ (P = other \/ P = other \cup {c})
    BY <1>10, <1>17
  <2>2. \A d \in Core : w.lines[a].l1[d] = "M" /\ y.l1[d] # "M" => d \in P
    <3>1. \A d \in Core : w.lines[a].l1[d] = "M" => d \in other
      BY <1>3, <1>9 DEF other, Owners, Owned, x
    <3>2. QED
      BY <2>1, <3>1
  <2>3. \A d \in Core : d \in P => y.l1[d] # "M" \/ w.lines[a].l1[d] # "M"
    BY <1>3, <1>4, <1>9 DEF Owned, x
  <2>4. TimedBut(w, n, P, {a})
    BY <2>1
  <2>5. Timed(Settle(w, a, y), n)
    <3>1. Losers(w, a, y, P)
      BY <2>2, <2>3 DEF Losers
    <3>2. QED
      BY <2>0, <2>4, <3>1, SettleTimed
  <2>6. QED
    BY <1>11, <2>5
<1>18. QED
  BY <1>1, <1>12, <1>13, <1>15, <1>16, <1>17
----------------------------------------------------------------------------
(***************************************************************************)
(* The flushes before a store.                                             *)
(***************************************************************************)
\* The same-block conflict of buffered epochs: the line starts anew.
Merged(t, c, a) ==
  [t EXCEPT !.older[c] = [b \in Addr |-> IF b = a THEN {} ELSE @[b] \ {a}],
            !.before[c] = @ \ {a},
            !.overtaken = @ \cup {h \in {"conflict"} : t.older[c][a] # {}}]

LEMMA MergeStep ==
  ASSUME NEW t, Engine(t), NEW c \in Core, NEW a \in Addr
  PROVE  LET u == Merged(t, c, a) IN
             /\ Engine(u) /\ Shrinks(t, u) /\ Fresh(u, c, a)
             /\ u.lines = t.lines
             /\ t.older[c][a] = {} => u.overtaken = t.overtaken
<1> DEFINE P == [t.older EXCEPT ![c] = [b \in Addr |-> IF b = a THEN {} ELSE @[b] \ {a}]]
           B == [t.before EXCEPT ![c] = @ \ {a}]
           V == t.overtaken \cup {h \in {"conflict"} : t.older[c][a] # {}}
           u == [t EXCEPT !.older = P, !.before = B, !.overtaken = V]
           w == Merged(t, c, a)
<1>1. t \in EngineType /\ Dir!GoodLines(t.lines) /\ \A d \in Core : GoodSync(t.sync[d])
  BY DEF Engine
<1>2. P \in [Core -> [Addr -> SUBSET Addr]] /\ B \in [Core -> SUBSET Addr]
  BY <1>1, EngineFields
<1>3. V \in SUBSET {"conflict", "flush", "merged"}
  BY <1>1, EngineFields
<1>4. \A d \in Core, b \in Addr :
        P[d][b] = IF d # c THEN t.older[d][b] ELSE IF b = a THEN {} ELSE t.older[d][b] \ {a}
  BY <1>1, EngineFields
<1>5. \A d \in Core : B[d] = IF d # c THEN t.before[d] ELSE t.before[d] \ {a}
  BY <1>1, EngineFields
<1>6. t.older[c][a] = {} => V = t.overtaken
  OBVIOUS
<1>7. w = u
  BY DEF Merged
<1> HIDE DEF w, P, B, V
<1>8. /\ u \in EngineType /\ u.lines = t.lines /\ u.sync = t.sync /\ u.meta = t.meta
      /\ u.older = P /\ u.before = B /\ u.overtaken = V
  BY <1>1, <1>2, <1>3 DEF EngineType
<1> HIDE DEF u
<1>9. \A d \in Core : Dirty(u, d) = Dirty(t, d)
  BY <1>8 DEF Dirty
<1>10. ASSUME NEW d \in Core, NEW b \in Addr
       PROVE  u.older[d][b] \subseteq t.older[d][b] /\ (d = c => a \notin u.older[d][b])
  BY <1>4, <1>8
<1>11. \A d \in Core : u.before[d] \subseteq t.before[d]
  BY <1>5, <1>8
<1>12. Shrinks(t, u)
  BY <1>8, <1>9, <1>10, <1>11 DEF Shrinks
<1>13. Fresh(u, c, a)
  <2>1. u.older[c][a] = {}
    BY <1>4, <1>8
  <2>2. a \notin u.before[c]
    BY <1>5, <1>8
  <2>3. QED
    BY <1>10, <2>1, <2>2 DEF Fresh
<1>14. Tidy(u)
  <2>1. ASSUME NEW d \in Core, NEW b \in Addr
        PROVE  /\ b \notin Dirty(u, d) => u.meta[d][b].max = 0 /\ u.older[d][b] = {}
               /\ u.older[d][b] \subseteq Dirty(u, d) \ {b}
    <3>1. /\ b \notin Dirty(t, d) => t.meta[d][b].max = 0 /\ t.older[d][b] = {}
          /\ t.older[d][b] \subseteq Dirty(t, d) \ {b}
      BY TidyFacts
    <3>2. u.older[d][b] \subseteq t.older[d][b]
      BY <1>10
    <3>3. QED
      BY <1>8, <1>9, <3>1, <3>2
  <2>2. ASSUME NEW d \in Core PROVE u.before[d] \subseteq Dirty(u, d)
    <3>1. t.before[d] \subseteq Dirty(t, d)
      BY TidyFacts
    <3>2. QED
      BY <1>9, <1>11, <3>1
  <2>3. QED
    BY <2>1, <2>2 DEF Tidy
<1>15. Engine(u)
  BY <1>1, <1>8, <1>14 DEF Engine
<1>16. QED
  BY <1>6, <1>7, <1>8, <1>12, <1>13, <1>15 DEF w

\* Lines may be let go of in any order that overtakes nothing.
LEMMA ShrinkTimed ==
  ASSUME NEW t, NEW u, Engine(t), Engine(u), Shrinks(t, u), NEW n \in [Core -> Nat],
         Timed(t, n),
         "conflict" \in u.overtaken => "conflict" \in t.overtaken,
         "flush" \notin u.overtaken,
         pmodel # "BEPB" => u.sync = t.sync
  PROVE  Timed(u, n)
<1>1. Dated(u, n)
  BY ShrinkDated DEF Timed, TimedBut
<1>2. pmodel = "BEPB" => EpochOrdered(u, n)
  BY ShrinkEpochs DEF Timed, TimedBut
<1>3. pmodel # "BEPB" /\ Roomy => Listed(u, {}, {})
  BY ShrinkListed DEF Timed, TimedBut
<1>4. pmodel = "BEPB" \/ Roomy => "conflict" \notin u.overtaken
  BY DEF Timed, TimedBut
<1>5. pmodel # "BEPB" => Spanned(u)
  BY ShrinkSpanned DEF Timed, TimedBut
<1>6. QED
  BY <1>1, <1>2, <1>3, <1>4, <1>5 DEF Timed, TimedBut

\* The clock of core c is behind the epoch of a full barrier it asks for.
Ahead(c, op, ins, n) == op = "WR" /\ ins.atom = "FULL" => n[c] < ins.ins

\* The flush before a store: with BEPB a line of an earlier epoch is then as
\* good as new, with FBRP a full barrier finds nothing dirty.
LEMMA BarrierFlushStep ==
  ASSUME NEW t, Engine(t), NEW c \in Core, NEW a \in Addr, NEW op \in Op, NEW ins,
         ins.ins \in Nat, NEW n \in [Core -> Nat]
  PROVE  LET u == BarrierFlush(t, c, a, op, ins) IN
         /\ Engine(u)
         /\ \A d \in Core : Dirty(u, d) \subseteq Dirty(t, d)
         /\ Ahead(c, op, ins, n) /\ Timed(t, n) => Timed(u, n)
         /\ pmodel = "BEPB" /\ op = "WR" /\ a \in Dirty(u, c) =>
              Fresh(u, c, a) \/ ~(ins.ins > u.meta[c][a].max)
         /\ pmodel = "FBRP" /\ op = "WR" /\ ins.atom = "FULL"
            /\ (\A b \in Dirty(t, c) : t.meta[c][b].max < ins.ins) => Dirty(u, c) = {}
<1> DEFINE full  == pmodel = "FBRP" /\ op = "WR" /\ ins.atom = "FULL"
           merge == pmodel = "BEPB" /\ op = "WR" /\ a \in Dirty(t, c) /\ ins.ins > t.meta[c][a].max
           F == {b \in Dirty(t, c) : t.meta[c][b].max < ins.ins}
           u == BarrierFlush(t, c, a, op, ins)
<1>1. CASE full
  <2> DEFINE w == WriteBackAll(t, c, F)
  <2>1. u = w
    BY <1>1 DEF BarrierFlush
  <2>2. Engine(w) /\ Flushed(t, w, c, F) /\ Shrinks(t, w)
    BY FlushStep
  <2> HIDE DEF w, F
  <2>3. ASSUME Ahead(c, op, ins, n), Timed(t, n) PROVE Timed(w, n)
    <3>1. "conflict" \in w.overtaken => "conflict" \in t.overtaken
      BY <2>2 DEF Flushed
    <3>2. w.sync = t.sync
      BY <2>2 DEF Flushed, Departed
    <3>3. Dirty(t, c) \subseteq F
      <4>1. SUFFICES ASSUME NEW b \in Dirty(t, c) PROVE b \in F
        OBVIOUS
      <4>2. t.meta[c][b].max <= n[c]
        BY <2>3 DEF Timed, TimedBut, Dated
      <4>3. t.meta[c][b].max \in Nat
        BY TidyFacts, MetaNat
      <4>4. n[c] < ins.ins /\ n[c] \in Nat
        BY <1>1, <2>3 DEF Ahead
      <4>5. t.meta[c][b].max < ins.ins
        BY <4>2, <4>3, <4>4
      <4>6. QED
        BY <4>5 DEF F
    <3>4. \A b \in Addr : t.older[c][b] \subseteq Dirty(t, c)
      BY TidyFacts
    <3>5. F \subseteq Addr
      BY TidyFacts DEF F
    <3>6. "flush" \in w.overtaken => "flush" \in t.overtaken
      BY <2>2, <3>3, <3>4, <3>5 DEF Flushed
    <3>7. "flush" \notin t.overtaken
      BY <1>1, <2>3 DEF Timed, TimedBut, Spanned
    <3>8. QED
      BY <1>1, <2>2, <2>3, <3>1, <3>2, <3>6, <3>7, ShrinkTimed
  <2>4. \A d \in Core : Dirty(w, d) \subseteq Dirty(t, d)
    BY <2>2 DEF Flushed
  <2>5. (\A b \in Dirty(t, c) : t.meta[c][b].max < ins.ins) => Dirty(w, c) = {}
    BY <2>2 DEF Flushed, F
  <2> HIDE DEF u
  <2>6. /\ Engine(u)
        /\ \A d \in Core : Dirty(u, d) \subseteq Dirty(t, d)
        /\ Ahead(c, op, ins, n) /\ Timed(t, n) => Timed(u, n)
        /\ (\A b \in Dirty(t, c) : t.meta[c][b].max < ins.ins) => Dirty(u, c) = {}
    BY <2>1, <2>2, <2>3, <2>4, <2>5
  <2>7. pmodel # "BEPB"
    BY <1>1
  <2>8. QED
    BY <2>6, <2>7 DEF u
<1>2. CASE merge
  <2> DEFINE v == epochPersist(t, c, a)
             w == Merged(v, c, a)
  <2>1. u = w
    BY <1>2 DEF BarrierFlush, Merged
  <2>2. /\ Persisted(t, v, a)
        /\ EpochOrdered(t, n) => EpochOrdered(v, n) /\ v.older[c][a] = {}
    BY EpochPersistStep
  <2> HIDE DEF v
  <2>3. Engine(v) /\ Shrinks(t, v) /\ \A d \in Core : Dirty(v, d) \subseteq Dirty(t, d)
    BY <2>2 DEF Persisted
  <2>4. /\ Engine(w) /\ Shrinks(v, w) /\ Fresh(w, c, a) /\ w.lines = v.lines
        /\ v.older[c][a] = {} => w.overtaken = v.overtaken
    BY <2>3, MergeStep
  <2> HIDE DEF w
  <2>5. ASSUME Timed(t, n) PROVE Timed(w, n)
    <3>1. EpochOrdered(t, n)
      BY <1>2, <2>5 DEF Timed, TimedBut
    <3>2. EpochOrdered(v, n) /\ w.overtaken = v.overtaken
      BY <2>2, <2>4, <3>1
    <3>3. Timed(v, n)
      <4>1. "conflict" \in v.overtaken => "conflict" \in t.overtaken
        BY <2>2 DEF Persisted
      <4>2. "flush" \notin v.overtaken
        BY <3>2 DEF EpochOrdered
      <4>3. QED
        BY <1>2, <2>3, <2>5, <4>1, <4>2, ShrinkTimed
    <3>4. "flush" \notin w.overtaken
      BY <3>2 DEF EpochOrdered
    <3>5. QED
      BY <1>2, <2>3, <2>4, <3>2, <3>3, <3>4, ShrinkTimed
  <2>6. \A d \in Core : Dirty(w, d) \subseteq Dirty(t, d)
    BY <2>3, <2>4 DEF Dirty
  <2> HIDE DEF u
  <2>7. QED
    BY <1>2, <2>1, <2>4, <2>5, <2>6 DEF u
<1>3. CASE ~full /\ ~merge
  <2>1. u = t
    BY <1>3 DEF BarrierFlush
  <2> HIDE DEF u
  <2>2. QED
    BY <1>3, <2>1 DEF u
<1> HIDE DEF full, merge
<1>4. QED
  BY <1>1, <1>2, <1>3
----------------------------------------------------------------------------
(***************************************************************************)
(* The line after a store.                                                 *)
(***************************************************************************)
\* A registration answers for its own block, and changes no other answer.
LEMMA AddedAnswers ==
  ASSUME Roomy, NEW m, GoodSync(m), NEW a \in Addr, NEW e \in 0..MaxEpoch
  PROVE  LET u == addSyncLine(m, a, e) IN
         /\ e \in searchSyncMap(u, {a})
         /\ \A b : b # a => \A f \in searchSyncMap(m, {b}) : f \in searchSyncMap(u, {b})
<1> DEFINE u == addSyncLine(m, a, e)
           new == [addr |-> a, epoch |-> e]
<1>1. \A x : x \in Entries(u) <=> (x \in Entries(m) /\ x.addr # a) \/ x = new
  BY AddedSync
<1> HIDE DEF u
<1>2. new.addr = a /\ new.epoch = e /\ e \in Nat
  BY EngineAssumption
<1>3. new \in Entries(u) /\ \A y \in Entries(u) : y.addr = a => y.epoch = e
  BY <1>1, <1>2
<1> HIDE DEF new
<1>4. e \in searchSyncMap(u, {a})
  BY <1>2, <1>3 DEF searchSyncMap
<1>5. ASSUME NEW b, b # a, NEW f \in searchSyncMap(m, {b}) PROVE f \in searchSyncMap(u, {b})
  <2>1. PICK x \in Entries(m) : x.addr = b /\ x.epoch = f
    BY <1>5 DEF searchSyncMap
  <2>2. \A y \in Entries(m) : y.addr = b => y.epoch <= x.epoch
    BY <1>5, <2>1, AnswerNewest
  <2>3. x \in Entries(u) /\ \A y \in Entries(u) : y.addr = b => y.epoch <= x.epoch
    BY <1>1, <1>2, <1>5, <2>1, <2>2
  <2>4. QED
    BY <2>1, <2>3, NewestAnswers
<1>6. QED
  BY <1>4, <1>5 DEF u

\* The epochs of a store.
LEMMA StoredFields ==
  ASSUME NEW old \in Fields, NEW st, NEW ins, ins.atom \in Atom, ins.ins \in 0..MaxEpoch
  PROVE  LET f == Stored(old, st = "M", st # "I", ins) IN
         /\ f \in Fields
         /\ f.atom = IF ins.atom = "NON" /\ st # "I" THEN old.atom ELSE ins.atom
         /\ f.min <= ins.ins /\ ins.ins <= f.max
         /\ st = "M" => f.min <= old.min /\ old.max <= f.max
         /\ f.max = ins.ins \/ (st = "M" /\ f.max = old.max)
         /\ st = "M" /\ ~(ins.ins > old.max) => f.max = old.max
<1>1. old.min \in 0..MaxEpoch /\ old.max \in 0..MaxEpoch /\ old.atom \in Atom
  BY DEF Fields
<1> DEFINE f == Stored(old, st = "M", st # "I", ins)
           at == IF ins.atom = "NON" /\ st # "I" THEN old.atom ELSE ins.atom
           mn == IF st = "M" THEN Min2(old.min, ins.ins) ELSE ins.ins
           mx == IF st = "M" THEN Max2(old.max, ins.ins) ELSE ins.ins
<1>2. f = [atom |-> at, min |-> mn, max |-> mx]
  BY DEF Stored
<1>3. mn \in 0..MaxEpoch /\ mn <= ins.ins /\ (st = "M" => mn <= old.min)
  BY <1>1, EngineAssumption DEF Min2
<1>4. /\ mx \in 0..MaxEpoch /\ ins.ins <= mx
      /\ mx = ins.ins \/ (st = "M" /\ mx = old.max)
      /\ st = "M" => old.max <= mx
      /\ st = "M" /\ ~(ins.ins > old.max) => mx = old.max
  BY <1>1, EngineAssumption DEF Max2
<1>5. at \in Atom
  BY <1>1
<1>6. f.atom = at /\ f.min = mn /\ f.max = mx
  BY <1>2
<1> HIDE DEF mn, mx
<1>7. f \in Fields
  BY <1>2, <1>3, <1>4, <1>5 DEF Fields
<1> HIDE DEF f
<1>8. QED
  BY <1>3, <1>4, <1>6, <1>7 DEF f

\* In u, core c has written block a: fields f, older lines P, lines B dirty at
\* the last barrier, sync map m.
Written(t, u, c, a, f, P, B, m) ==
  /\ u \in EngineType /\ u.lines = t.lines /\ u.overtaken = t.overtaken
  /\ \A d \in Core, b \in Addr : u.meta[d][b] = IF d = c /\ b = a THEN f ELSE t.meta[d][b]
  /\ \A d \in Core, b \in Addr : u.older[d][b] = IF d = c /\ b = a THEN P ELSE t.older[d][b]
  /\ \A d \in Core : u.before[d] = IF d = c THEN B ELSE t.before[d]
  /\ \A d \in Core : u.sync[d] = IF d = c THEN m ELSE t.sync[d]

Foremost(t, c, a, atom) == IF atom \in {"RELEASE", "FULL"} THEN Dirty(t, c) \ {a} ELSE t.before[c]

OlderThan(t, c, a, ins, st) ==
  (IF st = "M" THEN t.older[c][a] ELSE {})
  \cup (IF ins.atom \in {"RELEASE", "FULL"} \/ pmodel = "BEPB"
        THEN Foremost(t, c, a, ins.atom) \ {a} ELSE {})

BeforeNext(t, c, a, ins) == IF pmodel = "BEPB" THEN Foremost(t, c, a, ins.atom) ELSE {}

SyncNext(t, c, a, ins) ==
  IF ins.atom # "NON" /\ pmodel # "BEPB" THEN addSyncLine(t.sync[c], a, ins.ins) ELSE t.sync[c]

LEMMA AfterWriteFields ==
  ASSUME NEW t, Engine(t), NEW c \in Core, NEW a \in Addr, NEW ins, ins.atom \in Atom,
         ins.ins \in 0..MaxEpoch, NEW old \in Fields, NEW st
  PROVE  LET m == SyncNext(t, c, a, ins) IN
         /\ GoodSync(m)
         /\ Written(t, AfterWrite(t, c, a, ins, old, st), c, a,
                    Stored(old, st = "M", st # "I", ins), OlderThan(t, c, a, ins, st),
                    BeforeNext(t, c, a, ins), m)
<1> DEFINE f == Stored(old, st = "M", st # "I", ins)
           P == OlderThan(t, c, a, ins, st)
           B == BeforeNext(t, c, a, ins)
           m == SyncNext(t, c, a, ins)
           sync == ins.atom # "NON" /\ pmodel # "BEPB"
           MM == [t.meta EXCEPT ![c][a] = f]
           OO == [t.older EXCEPT ![c][a] = P]
           BB == [t.before EXCEPT ![c] = B]
           SS == [t.sync EXCEPT ![c] = m]
           v == [t EXCEPT !.before = BB, !.older = OO, !.meta = MM]
           w == [v EXCEPT !.sync = SS]
<1>1. t \in EngineType /\ Dirty(t, c) \subseteq Addr
  BY TidyFacts DEF Engine
<1>2. f \in Fields
  BY StoredFields
<1>3. t.older[c][a] \in SUBSET Addr /\ t.before[c] \in SUBSET Addr
  BY <1>1, EngineFields
<1>4. P \in SUBSET Addr /\ B \in SUBSET Addr
  BY <1>1, <1>3 DEF OlderThan, BeforeNext, Foremost
<1>5. GoodSync(m) /\ m \in SyncType
  <2>1. GoodSync(t.sync[c])
    BY DEF Engine
  <2>2. GoodSync(m)
    BY <2>1, AddedSync DEF SyncNext
  <2> HIDE DEF m
  <2>3. QED
    BY <2>2 DEF GoodSync, Map!Sound, SyncType
<1>6. Ordered(t, c, a, st = "M", ins.atom) = [t EXCEPT !.before = BB, !.older = OO]
  BY DEF Ordered, OlderThan, BeforeNext, Foremost
<1>7. v = [Ordered(t, c, a, st = "M", ins.atom) EXCEPT !.meta[c][a] = f]
  <2> DEFINE o == Ordered(t, c, a, st = "M", ins.atom)
  <2>1. o.meta = t.meta
    BY <1>1, <1>6 DEF EngineType
  <2>2. [o EXCEPT !.meta[c][a] = f] = [o EXCEPT !.meta = MM]
    BY <2>1
  <2> HIDE DEF o, MM, OO, BB, f
  <2>3. o = [t EXCEPT !.before = BB, !.older = OO]
    BY <1>6 DEF o
  <2>4. [o EXCEPT !.meta = MM] = [t EXCEPT !.before = BB, !.older = OO, !.meta = MM]
    BY <2>3
  <2>5. QED
    BY <2>2, <2>4 DEF o
<1>8. MM \in [Core -> [Addr -> Fields]] /\ OO \in [Core -> [Addr -> SUBSET Addr]]
  <2> HIDE DEF f, P
  <2>1. QED
    BY <1>1, <1>2, <1>4, EngineFields
<1>9. BB \in [Core -> SUBSET Addr] /\ SS \in [Core -> SyncType]
  <2> HIDE DEF m, B
  <2>1. QED
    BY <1>1, <1>4, <1>5, EngineFields
<1>10. AfterWrite(t, c, a, ins, old, st) = IF sync THEN w ELSE v
  <2> DEFINE z == [Ordered(t, c, a, st = "M", ins.atom) EXCEPT !.meta[c][a] = f]
  <2>1. AfterWrite(t, c, a, ins, old, st) =
          IF sync THEN [z EXCEPT !.sync[c] = addSyncLine(@, a, ins.ins)] ELSE z
    BY DEF AfterWrite
  <2>2. z = v
    BY <1>7
  <2> HIDE DEF z, MM, OO, BB, f
  <2>3. v.sync = t.sync
    BY <1>1 DEF EngineType
  <2>4. sync => [v EXCEPT !.sync[c] = addSyncLine(@, a, ins.ins)] = w
    <3>1. sync => m = addSyncLine(t.sync[c], a, ins.ins)
      BY DEF SyncNext
    <3> HIDE DEF sync, m, v
    <3>2. QED
      BY <2>3, <3>1
  <2>5. QED
    BY <2>1, <2>2, <2>4
<1> HIDE DEF MM, OO, BB, SS
<1>11. v = [v EXCEPT !.sync = t.sync] /\ (~sync => m = t.sync[c])
  <2>1. ~sync => m = t.sync[c]
    BY DEF SyncNext
  <2>2. v = [v EXCEPT !.sync = t.sync]
    BY <1>1, <1>8, <1>9 DEF EngineType
  <2>3. QED
    BY <2>1, <2>2
<1> DEFINE u == AfterWrite(t, c, a, ins, old, st)
<1>12. u = w
  <2>1. ~sync => SS = t.sync
    <3>1. t.sync \in [Core -> SyncType]
      BY <1>1, EngineFields
    <3>2. ~sync => SS = [t.sync EXCEPT ![c] = t.sync[c]]
      BY <1>11 DEF SS
    <3>3. QED
      BY <3>1, <3>2
  <2>2. QED
    BY <1>10, <1>11, <2>1
<1> HIDE DEF u
<1>13. /\ w \in EngineType /\ w.lines = t.lines /\ w.overtaken = t.overtaken
       /\ w.meta = MM /\ w.older = OO /\ w.before = BB /\ w.sync = SS
  BY <1>1, <1>8, <1>9 DEF EngineType
<1> HIDE DEF w, v, f, P, B, m
<1>14. \A d \in Core, b \in Addr : MM[d][b] = IF d = c /\ b = a THEN f ELSE t.meta[d][b]
  BY <1>1, EngineFields DEF MM
<1>15. \A d \in Core, b \in Addr : OO[d][b] = IF d = c /\ b = a THEN P ELSE t.older[d][b]
  BY <1>1, EngineFields DEF OO
<1>16. \A d \in Core : BB[d] = IF d = c THEN B ELSE t.before[d]
  BY <1>1, EngineFields DEF BB
<1>17. \A d \in Core : SS[d] = IF d = c THEN m ELSE t.sync[d]
  BY <1>1, EngineFields DEF SS
<1>18. Written(t, w, c, a, f, P, B, m)
  BY <1>13, <1>14, <1>15, <1>16, <1>17, Zenon DEF Written
<1>19. QED
  BY <1>5, <1>12, <1>18 DEF u, f, P, B, m

\* What a store finds: the line is dirty, and if it was not so before, the
\* history knows nothing of it.
Finds(t, c, a, ins, old, st) ==
  /\ a \in Dirty(t, c) /\ old \in Fields /\ st \in St
  /\ ins.atom \in Atom /\ ins.ins \in 0..MaxEpoch
  /\ st = "M" => old = t.meta[c][a]
  /\ st # "M" => Fresh(t, c, a)

LEMMA OlderDirty ==
  ASSUME NEW t, Engine(t), NEW c \in Core, NEW a \in Addr, NEW ins, NEW st
  PROVE  /\ OlderThan(t, c, a, ins, st) \subseteq Dirty(t, c) \ {a}
         /\ BeforeNext(t, c, a, ins) \subseteq Dirty(t, c)
<1>1. t.older[c][a] \subseteq Dirty(t, c) \ {a} /\ t.before[c] \subseteq Dirty(t, c)
  BY TidyFacts
<1>2. QED
  BY <1>1 DEF OlderThan, BeforeNext, Foremost

\* The store keeps the engine in good order.
LEMMA AfterWriteStep ==
  ASSUME NEW t, Engine(t), NEW c \in Core, NEW a \in Addr, NEW ins, NEW old, NEW st,
         Finds(t, c, a, ins, old, st)
  PROVE  LET u == AfterWrite(t, c, a, ins, old, st) IN
         /\ Engine(u)
         /\ \A d \in Core : Dirty(u, d) = Dirty(t, d)
<1> DEFINE u == AfterWrite(t, c, a, ins, old, st)
           f == Stored(old, st = "M", st # "I", ins)
           P == OlderThan(t, c, a, ins, st)
           B == BeforeNext(t, c, a, ins)
           m == SyncNext(t, c, a, ins)
<1>1. GoodSync(m) /\ Written(t, u, c, a, f, P, B, m)
  BY AfterWriteFields DEF Finds
<1>2. P \subseteq Dirty(t, c) \ {a} /\ B \subseteq Dirty(t, c) /\ a \in Dirty(t, c)
  BY OlderDirty DEF Finds
<1> HIDE DEF u, f, P, B, m
<1>3. u \in EngineType /\ u.lines = t.lines
  BY <1>1 DEF Written
<1>4. \A d \in Core : Dirty(u, d) = Dirty(t, d)
  BY <1>3 DEF Dirty
<1>5. \A d \in Core : GoodSync(u.sync[d])
  <2>1. \A d \in Core : u.sync[d] = IF d = c THEN m ELSE t.sync[d]
    BY <1>1 DEF Written
  <2>2. QED
    BY <1>1, <2>1 DEF Engine
<1>6. ASSUME NEW d \in Core, NEW b \in Addr
      PROVE  /\ b \notin Dirty(u, d) => u.meta[d][b].max = 0 /\ u.older[d][b] = {}
             /\ u.older[d][b] \subseteq Dirty(u, d) \ {b}
  <2>1. /\ b \notin Dirty(t, d) => t.meta[d][b].max = 0 /\ t.older[d][b] = {}
        /\ t.older[d][b] \subseteq Dirty(t, d) \ {b}
    BY TidyFacts
  <2>2. u.meta[d][b] = IF d = c /\ b = a THEN f ELSE t.meta[d][b]
    BY <1>1 DEF Written
  <2>3. u.older[d][b] = IF d = c /\ b = a THEN P ELSE t.older[d][b]
    BY <1>1 DEF Written
  <2>4. CASE d = c /\ b = a
    BY <1>2, <1>4, <2>3, <2>4
  <2>5. CASE ~(d = c /\ b = a)
    BY <1>4, <2>1, <2>2, <2>3, <2>5
  <2>6. QED
    BY <2>4, <2>5
<1>7. ASSUME NEW d \in Core PROVE u.before[d] \subseteq Dirty(u, d)
  <2>1. u.before[d] = IF d = c THEN B ELSE t.before[d]
    BY <1>1 DEF Written
  <2>2. t.before[d] \subseteq Dirty(t, d)
    BY TidyFacts
  <2>3. QED
    BY <1>2, <1>4, <2>1, <2>2
<1>8. Tidy(u)
  BY <1>6, <1>7 DEF Tidy
<1>9. QED
  BY <1>3, <1>4, <1>5, <1>8 DEF Engine, u

\* The clock moves on, and the stamp of the store is between old and new.
Clocked(c, ins, n, n2) ==
  /\ n \in [Core -> Nat] /\ n2 \in [Core -> Nat]
  /\ \A d \in Core : n[d] <= n2[d]
  /\ ins.ins <= n2[c]
  /\ ins.atom # "NON" \/ pmodel = "BEPB" => n[c] <= ins.ins
  /\ ins.atom \in {"RELEASE", "FULL"} => n[c] < ins.ins

Ticks(c, a, t, ins, n, n2) ==
  /\ Clocked(c, ins, n, n2)
  /\ pmodel = "BEPB" => Fresh(t, c, a) \/ ~(ins.ins > t.meta[c][a].max)

\* All that is older than the store, or before the next one, has a smaller
\* epoch than the line has now, and one the new clock exceeds.
LEMMA EpochStore ==
  ASSUME NEW t, Engine(t), NEW c \in Core, NEW a \in Addr, NEW ins, NEW old, NEW st,
         Finds(t, c, a, ins, old, st), NEW n, NEW n2, Ticks(c, a, t, ins, n, n2),
         pmodel = "BEPB", Dated(t, n), EpochOrdered(t, n)
  PROVE  EpochOrdered(AfterWrite(t, c, a, ins, old, st), n2)
<1> DEFINE u == AfterWrite(t, c, a, ins, old, st)
           f == Stored(old, st = "M", st # "I", ins)
           P == OlderThan(t, c, a, ins, st)
           B == BeforeNext(t, c, a, ins)
           m == SyncNext(t, c, a, ins)
<1>1. Written(t, u, c, a, f, P, B, m)
  BY AfterWriteFields DEF Finds
<1>2. /\ f \in Fields /\ ins.ins <= f.max
      /\ st = "M" /\ ~(ins.ins > old.max) => f.max = old.max
  BY StoredFields DEF Finds
<1>3. P \subseteq Dirty(t, c) \ {a} /\ B \subseteq Dirty(t, c)
  BY OlderDirty
<1> HIDE DEF u, f, m
<1>4. /\ \A d \in Core : n[d] \in Nat /\ n2[d] \in Nat /\ n[d] <= n2[d]
      /\ n[c] <= ins.ins /\ ins.ins <= n2[c]
      /\ ins.atom \in {"RELEASE", "FULL"} => n[c] < ins.ins
      /\ ins.ins \in Nat /\ f.max \in Nat
  <2>1. \A d \in Core : n[d] \in Nat /\ n2[d] \in Nat /\ n[d] <= n2[d]
    BY DEF Ticks, Clocked
  <2>2. /\ n[c] <= ins.ins /\ ins.ins <= n2[c]
        /\ ins.atom \in {"RELEASE", "FULL"} => n[c] < ins.ins
    BY DEF Ticks, Clocked
  <2>3. ins.ins \in Nat /\ f.max \in Nat
    BY <1>2, EngineAssumption DEF Finds, Fields
  <2>4. QED
    BY <2>1, <2>2, <2>3
<1>5. \A x \in Dirty(t, c) : t.meta[c][x].max <= n[c] /\ t.meta[c][x].max \in Nat /\ x \in Addr
  BY TidyFacts, MetaNat DEF Dated
<1>6. \A d \in Core, b \in Addr : u.meta[d][b] = IF d = c /\ b = a THEN f ELSE t.meta[d][b]
  BY <1>1 DEF Written
<1>7. \/ Fresh(t, c, a)
      \/ st = "M" /\ f.max = t.meta[c][a].max /\ ins.atom \notin {"RELEASE", "FULL"}
  <2>1. CASE ~Fresh(t, c, a)
    <3>1. st = "M" /\ old = t.meta[c][a]
      BY <2>1 DEF Finds
    <3>2. ~(ins.ins > old.max)
      BY <2>1, <3>1 DEF Ticks, Clocked
    <3>3. a \in Dirty(t, c)
      BY DEF Finds
    <3>4. old.max <= n[c] /\ old.max \in Nat
      BY <1>5, <3>1, <3>3
    <3>5. ~(n[c] < ins.ins)
      BY <1>4, <3>2, <3>4
    <3>6. QED
      BY <1>2, <1>4, <3>1, <3>2, <3>5
  <2>2. QED
    BY <2>1
<1>8. ASSUME NEW x \in Foremost(t, c, a, ins.atom)
      PROVE  /\ x \in Dirty(t, c)
             /\ t.meta[c][x].max < ins.ins
             /\ t.meta[c][x].max < n2[c]
  <2>1. CASE ins.atom \in {"RELEASE", "FULL"}
    <3>1. x \in Dirty(t, c)
      BY <2>1 DEF Foremost
    <3>2. QED
      BY <1>4, <1>5, <2>1, <3>1
  <2>2. CASE ins.atom \notin {"RELEASE", "FULL"}
    <3>1. x \in t.before[c]
      BY <2>2 DEF Foremost
    <3>2. x \in Dirty(t, c)
      BY <3>1, TidyFacts
    <3>3. t.meta[c][x].max < n[c]
      BY <3>1 DEF EpochOrdered
    <3>4. QED
      BY <1>4, <1>5, <3>2, <3>3
  <2>3. QED
    BY <2>1, <2>2
<1>9. ASSUME NEW x \in P PROVE x # a /\ x \in Addr /\ t.meta[c][x].max < f.max
  <2>1. x # a /\ x \in Dirty(t, c) /\ x \in Addr
    BY <1>3, <1>5
  <2>2. CASE st = "M" /\ x \in t.older[c][a]
    <3>1. ~Fresh(t, c, a)
      BY <2>2 DEF Fresh
    <3>2. t.meta[c][x].max < t.meta[c][a].max
      BY <2>2 DEF EpochOrdered
    <3>3. QED
      BY <1>7, <2>1, <3>1, <3>2
  <2>3. CASE x \in Foremost(t, c, a, ins.atom)
    <3>1. t.meta[c][x].max < ins.ins
      BY <1>8, <2>3
    <3>2. QED
      BY <1>2, <1>4, <1>5, <2>1, <3>1
  <2>4. QED
    BY <2>2, <2>3 DEF OlderThan
<1>10. ASSUME NEW d \in Core, NEW b \in Addr, NEW x \in u.older[d][b]
       PROVE  u.meta[d][x].max < u.meta[d][b].max
  <2>1. u.older[d][b] = IF d = c /\ b = a THEN P ELSE t.older[d][b]
    BY <1>1 DEF Written
  <2> HIDE DEF P
  <2>2. CASE d = c /\ b = a
    <3>1. x \in P
      BY <2>1, <2>2
    <3>2. QED
      BY <1>6, <1>9, <2>2, <3>1
  <2>3. CASE ~(d = c /\ b = a)
    <3>1. x \in t.older[d][b] /\ x \in Addr
      BY <2>1, <2>3, TidyFacts
    <3>2. t.meta[d][x].max < t.meta[d][b].max
      BY <3>1 DEF EpochOrdered
    <3>3. u.meta[d][b] = t.meta[d][b]
      BY <1>6, <2>3
    <3>4. CASE d = c /\ x = a
      <4>1. ~Fresh(t, c, a)
        BY <3>1, <3>4 DEF Fresh
      <4>2. QED
        BY <1>6, <1>7, <3>2, <3>3, <3>4, <4>1
    <3>5. CASE ~(d = c /\ x = a)
      BY <1>6, <3>1, <3>2, <3>3, <3>5
    <3>6. QED
      BY <3>4, <3>5
  <2>4. QED
    BY <2>2, <2>3
<1>11. ASSUME NEW d \in Core, NEW x \in u.before[d]
       PROVE  u.meta[d][x].max < n2[d]
  <2>1. u.before[d] = IF d = c THEN B ELSE t.before[d]
    BY <1>1 DEF Written
  <2>2. CASE d = c
    <3>1. x \in Foremost(t, c, a, ins.atom)
      BY <2>1, <2>2 DEF BeforeNext
    <3>2. t.meta[c][x].max < n2[c] /\ x \in Addr /\ x \in Dirty(t, c)
      BY <1>5, <1>8, <3>1
    <3>3. CASE x = a
      <4>1. a \in t.before[c]
        BY <3>1, <3>3 DEF Foremost
      <4>2. ~Fresh(t, c, a)
        BY <4>1 DEF Fresh
      <4>3. QED
        BY <1>6, <1>7, <2>2, <3>2, <3>3, <4>2
    <3>4. CASE x # a
      BY <1>6, <2>2, <3>2, <3>4
    <3>5. QED
      BY <3>3, <3>4
  <2>3. CASE d # c
    <3>1. x \in t.before[d] /\ x \in Dirty(t, d) /\ x \in Addr
      BY <2>1, <2>3, TidyFacts
    <3>2. t.meta[d][x].max < n[d] /\ u.meta[d][x] = t.meta[d][x]
      BY <1>6, <2>3, <3>1 DEF EpochOrdered
    <3>3. t.meta[d][x].max \in Nat
      BY <3>1, MetaNat
    <3>4. QED
      BY <1>4, <3>2, <3>3
  <2>4. QED
    BY <2>2, <2>3
<1>12. "flush" \notin u.overtaken
  BY <1>1 DEF Written, EpochOrdered
<1>13. EpochOrdered(u, n2)
  BY <1>10, <1>11, <1>12, Zenon DEF EpochOrdered
<1>14. QED
  BY <1>13 DEF u

\* A release is newer than the first store of every line that is still dirty.
LEMMA SpannedStore ==
  ASSUME NEW t, Engine(t), NEW c \in Core, NEW a \in Addr, NEW ins, NEW old, NEW st,
         Finds(t, c, a, ins, old, st), NEW n, NEW n2, Ticks(c, a, t, ins, n, n2),
         pmodel # "BEPB", Dated(t, n), Spanned(t)
  PROVE  Spanned(AfterWrite(t, c, a, ins, old, st))
<1> DEFINE u == AfterWrite(t, c, a, ins, old, st)
           f == Stored(old, st = "M", st # "I", ins)
           P == OlderThan(t, c, a, ins, st)
           B == BeforeNext(t, c, a, ins)
           m == SyncNext(t, c, a, ins)
<1>1. Written(t, u, c, a, f, P, B, m)
  BY AfterWriteFields DEF Finds
<1>2. /\ f \in Fields /\ ins.ins <= f.max
      /\ st = "M" => f.min <= old.min /\ old.max <= f.max
      /\ st = "M" => old = t.meta[c][a]
  BY StoredFields DEF Finds
<1>3. P \subseteq Dirty(t, c) \ {a}
  BY OlderDirty
<1> HIDE DEF u, f, B, m
<1>4. /\ n[c] \in Nat /\ ins.ins \in Nat /\ f.max \in Nat /\ f.min \in Nat
      /\ ins.atom \in {"RELEASE", "FULL"} => n[c] < ins.ins
  <2>1. n[c] \in Nat /\ (ins.atom \in {"RELEASE", "FULL"} => n[c] < ins.ins)
    BY DEF Ticks, Clocked
  <2>2. ins.ins \in Nat /\ f.max \in Nat /\ f.min \in Nat
    BY <1>2, EngineAssumption DEF Finds, Fields
  <2>3. QED
    BY <2>1, <2>2
<1>5. \A d \in Core, b \in Addr : u.meta[d][b] = IF d = c /\ b = a THEN f ELSE t.meta[d][b]
  BY <1>1 DEF Written
<1>6. \A d \in Core, b \in Addr : u.older[d][b] = IF d = c /\ b = a THEN P ELSE t.older[d][b]
  BY <1>1 DEF Written
<1>7. ASSUME NEW x \in P PROVE x \in Addr /\ x # a /\ t.meta[c][x].min <= f.max
  <2>1. x \in Dirty(t, c) /\ x # a /\ x \in Addr
    BY <1>3, TidyFacts
  <2>2. t.meta[c][x].min \in Nat
    BY <2>1, MetaNat
  <2>3. CASE st = "M" /\ x \in t.older[c][a]
    <3>1. t.meta[c][x].min <= t.meta[c][a].max
      BY <2>3 DEF Spanned
    <3>2. t.meta[c][a].max \in Nat
      BY MetaNat
    <3>3. QED
      BY <1>2, <1>4, <2>1, <2>2, <2>3, <3>1, <3>2
  <2>4. CASE ins.atom \in {"RELEASE", "FULL"}
    <3>1. t.meta[c][x].min <= n[c]
      BY <2>1 DEF Dated
    <3>2. QED
      BY <1>2, <1>4, <2>1, <2>2, <2>4, <3>1
  <2>5. QED
    BY <2>3, <2>4 DEF OlderThan
<1> HIDE DEF P
<1>8. ASSUME NEW d \in Core, NEW b \in Addr, NEW x \in u.older[d][b]
      PROVE  u.meta[d][x].min <= u.meta[d][b].max
  <2>1. CASE d = c /\ b = a
    <3>1. x \in P
      BY <1>6, <2>1
    <3>2. QED
      BY <1>5, <1>7, <2>1, <3>1
  <2>2. CASE ~(d = c /\ b = a)
    <3>1. x \in t.older[d][b] /\ x \in Addr
      BY <1>6, <2>2, TidyFacts
    <3>2. t.meta[d][x].min <= t.meta[d][b].max
      BY <3>1 DEF Spanned
    <3>3. u.meta[d][b] = t.meta[d][b]
      BY <1>5, <2>2
    <3>4. CASE d = c /\ x = a
      <4>1. st = "M"
        BY <3>1, <3>4 DEF Finds, Fresh
      <4>2. f.min <= t.meta[c][a].min
        BY <1>2, <4>1
      <4>3. t.meta[c][a].min \in Nat /\ t.meta[d][b].max \in Nat
        BY MetaNat
      <4>4. u.meta[d][x] = f
        BY <1>5, <3>4
      <4>5. QED
        BY <1>4, <3>2, <3>3, <3>4, <4>2, <4>3, <4>4
    <3>5. CASE ~(d = c /\ x = a)
      BY <1>5, <3>1, <3>2, <3>3, <3>5
    <3>6. QED
      BY <3>4, <3>5
  <2>3. QED
    BY <2>1, <2>2
<1>9. "flush" \notin u.overtaken
  BY <1>1 DEF Written, Spanned
<1>10. Spanned(u)
  BY <1>8, <1>9, Zenon DEF Spanned
<1>11. QED
  BY <1>10 DEF u

\* A release is registered under an epoch no older line is beyond, and what
\* was registered stays so.
LEMMA ReleaseStore ==
  ASSUME NEW t, Engine(t), NEW c \in Core, NEW a \in Addr, NEW ins, NEW old, NEW st,
         Finds(t, c, a, ins, old, st), NEW n, NEW n2, Ticks(c, a, t, ins, n, n2),
         pmodel # "BEPB", Roomy, Dated(t, n), Listed(t, {}, {})
  PROVE  Listed(AfterWrite(t, c, a, ins, old, st), {}, {})
<1> DEFINE u == AfterWrite(t, c, a, ins, old, st)
           f == Stored(old, st = "M", st # "I", ins)
           P == OlderThan(t, c, a, ins, st)
           B == BeforeNext(t, c, a, ins)
           m == SyncNext(t, c, a, ins)
<1>1. Written(t, u, c, a, f, P, B, m)
  BY AfterWriteFields DEF Finds
<1>2. /\ f.atom = IF ins.atom = "NON" /\ st # "I" THEN old.atom ELSE ins.atom
      /\ st = "M" => f.min <= old.min
      /\ f \in Fields
  BY StoredFields DEF Finds
<1>3. P \subseteq Dirty(t, c) \ {a} /\ a \in Dirty(t, c)
  BY OlderDirty DEF Finds
<1>4. /\ \A d \in Core : n[d] \in Nat
      /\ ins.atom # "NON" => n[c] <= ins.ins
      /\ ins.ins \in Nat
  <2>1. \A d \in Core : n[d] \in Nat
    BY DEF Ticks, Clocked
  <2>2. ins.atom # "NON" => n[c] <= ins.ins
    BY DEF Ticks, Clocked
  <2>3. ins.ins \in Nat
    BY EngineAssumption DEF Finds
  <2>4. QED
    BY <2>1, <2>2, <2>3
<1>5. \A x \in Dirty(t, c) : t.meta[c][x].min <= n[c] /\ t.meta[c][x].min \in Nat /\ x \in Addr
  BY TidyFacts, MetaNat DEF Dated
<1>6. ins.atom = "NON" => m = t.sync[c] /\ P = IF st = "M" THEN t.older[c][a] ELSE {}
  <2> SUFFICES ASSUME ins.atom = "NON"
               PROVE  m = t.sync[c] /\ P = IF st = "M" THEN t.older[c][a] ELSE {}
    OBVIOUS
  <2>1. m = t.sync[c]
    BY DEF SyncNext
  <2>2. ~(ins.atom \in {"RELEASE", "FULL"} \/ pmodel = "BEPB")
    OBVIOUS
  <2>3. P = (IF st = "M" THEN t.older[c][a] ELSE {}) \cup {}
    BY <2>2 DEF OlderThan
  <2>4. QED
    BY <2>1, <2>3
<1>7. ins.atom # "NON" =>
        /\ ins.ins \in searchSyncMap(m, {a})
        /\ \A b : b # a => \A e \in searchSyncMap(t.sync[c], {b}) : e \in searchSyncMap(m, {b})
  <2>1. ins.ins \in 0..MaxEpoch /\ GoodSync(t.sync[c])
    BY DEF Finds, Engine
  <2>2. QED
    BY <2>1, AddedAnswers DEF SyncNext
<1> HIDE DEF u, f, P, B, m
<1>8. \A d \in Core, b \in Addr : u.meta[d][b] = IF d = c /\ b = a THEN f ELSE t.meta[d][b]
  BY <1>1 DEF Written
<1>9. \A d \in Core : u.sync[d] = IF d = c THEN m ELSE t.sync[d]
  BY <1>1 DEF Written
<1> SUFFICES ASSUME NEW d \in Core, NEW b \in Addr, u.older[d][b] # {} PROVE Registered(u, d, b)
  BY DEF Listed, u
<1>10. u.older[d][b] = IF d = c /\ b = a THEN P ELSE t.older[d][b]
  BY <1>1 DEF Written
<1>11. CASE d = c /\ b = a
  <2>1. \A x \in u.older[d][b] : x \in Dirty(t, c) /\ x \in Addr /\ u.meta[d][x] = t.meta[c][x]
    BY <1>3, <1>5, <1>8, <1>10, <1>11
  <2>2. u.meta[d][b] = f /\ u.sync[d] = m
    BY <1>8, <1>9, <1>11
  <2>3. CASE ins.atom # "NON"
    <3>1. f.atom # "NON"
      BY <1>2, <2>3
    <3>2. \A x \in u.older[d][b] : u.meta[d][x].min <= ins.ins
      BY <1>4, <1>5, <2>1, <2>3
    <3>3. ins.ins \in searchSyncMap(u.sync[d], {b})
      BY <1>7, <1>11, <2>2, <2>3
    <3>4. RegisteredAt(u, d, b, ins.ins)
      BY <2>2, <3>1, <3>2, <3>3 DEF RegisteredAt
    <3>5. QED
      BY <3>3, <3>4 DEF Registered
  <2>4. CASE ins.atom = "NON"
    <3>1. st = "M" /\ u.older[d][b] = t.older[c][a]
      BY <1>6, <1>10, <1>11, <2>4
    <3>2. old = t.meta[c][a] /\ f.atom = old.atom
      BY <1>2, <2>4, <3>1 DEF Finds
    <3>3. Registered(t, c, a)
      BY <3>1 DEF Listed
    <3>4. PICK e \in searchSyncMap(t.sync[c], {a}) : RegisteredAt(t, c, a, e)
      BY <3>3 DEF Registered
    <3>5. e \in searchSyncMap(u.sync[d], {b})
      BY <1>6, <1>11, <2>2, <2>4, <3>4
    <3>6. u.meta[d][b].atom # "NON"
      BY <2>2, <3>2, <3>4 DEF RegisteredAt
    <3>7. \A x \in u.older[d][b] : u.meta[d][x].min <= e
      BY <2>1, <3>1, <3>4 DEF RegisteredAt
    <3>8. RegisteredAt(u, d, b, e)
      BY <3>5, <3>6, <3>7 DEF RegisteredAt
    <3>9. QED
      BY <3>5, <3>8 DEF Registered
  <2>5. QED
    BY <2>3, <2>4
<1>12. CASE ~(d = c /\ b = a)
  <2>1. u.older[d][b] = t.older[d][b] /\ u.meta[d][b] = t.meta[d][b]
    BY <1>8, <1>10, <1>12
  <2>2. Registered(t, d, b)
    BY <2>1 DEF Listed
  <2>3. PICK e \in searchSyncMap(t.sync[d], {b}) : RegisteredAt(t, d, b, e)
    BY <2>2 DEF Registered
  <2>4. e \in searchSyncMap(u.sync[d], {b})
    BY <1>6, <1>7, <1>9, <1>12, <2>3
  <2>5. ASSUME NEW x \in u.older[d][b] PROVE u.meta[d][x].min <= e
    <3>1. x \in t.older[d][b] /\ x \in Addr /\ t.meta[d][x].min <= e
      BY <2>1, <2>3, TidyFacts DEF RegisteredAt
    <3>2. CASE d = c /\ x = a
      <4>1. ~Fresh(t, c, a)
        BY <3>1, <3>2 DEF Fresh
      <4>2. st = "M" /\ old = t.meta[c][a]
        BY <4>1 DEF Finds
      <4>3. u.meta[d][x] = f /\ f.min <= t.meta[c][a].min
        BY <1>2, <1>8, <3>2, <4>2
      <4>4. f.min \in Nat /\ t.meta[c][a].min \in Nat
        BY <1>2, MetaNat, EngineAssumption DEF Fields
      <4>5. GoodSync(t.sync[d])
        BY DEF Engine
      <4>6. e \in Nat
        BY <2>3, <4>5, OneAnswer
      <4>7. QED
        BY <3>1, <3>2, <4>3, <4>4, <4>6
    <3>3. CASE ~(d = c /\ x = a)
      BY <1>8, <3>1, <3>3
    <3>4. QED
      BY <3>2, <3>3
  <2>6. u.meta[d][b].atom # "NON"
    BY <2>1, <2>3 DEF RegisteredAt
  <2>7. RegisteredAt(u, d, b, e)
    BY <2>4, <2>5, <2>6 DEF RegisteredAt
  <2>8. QED
    BY <2>4, <2>7 DEF Registered
<1>13. QED
  BY <1>11, <1>12

\* The store keeps the order, on a clock that has reached its epoch.
LEMMA AfterWriteTimed ==
  ASSUME NEW t, Engine(t), NEW c \in Core, NEW a \in Addr, NEW ins, NEW old, NEW st,
         Finds(t, c, a, ins, old, st), NEW n, NEW n2, Ticks(c, a, t, ins, n, n2),
         Timed(t, n)
  PROVE  Timed(AfterWrite(t, c, a, ins, old, st), n2)
<1> DEFINE u == AfterWrite(t, c, a, ins, old, st)
           f == Stored(old, st = "M", st # "I", ins)
<1>1. PICK P, B, m : Written(t, u, c, a, f, P, B, m)
  BY AfterWriteFields DEF Finds
<1>2. Engine(u) /\ \A d \in Core : Dirty(u, d) = Dirty(t, d)
  BY AfterWriteStep
<1>3. /\ f \in Fields /\ f.min <= ins.ins
      /\ f.max = ins.ins \/ (st = "M" /\ f.max = old.max)
  BY StoredFields DEF Finds
<1> HIDE DEF u, f
<1>4. ASSUME NEW d \in Core, NEW b \in Dirty(u, d)
      PROVE  u.meta[d][b].min <= n2[d] /\ u.meta[d][b].max <= n2[d]
  <2>1. b \in Dirty(t, d) /\ b \in Addr
    BY <1>2, TidyFacts
  <2>2. u.meta[d][b] = IF d = c /\ b = a THEN f ELSE t.meta[d][b]
    BY <1>1, <2>1 DEF Written
  <2>3. t.meta[d][b].min <= n[d] /\ t.meta[d][b].max <= n[d]
    BY <2>1 DEF Timed, TimedBut, Dated
  <2>4. t.meta[d][b].min \in Nat /\ t.meta[d][b].max \in Nat
    BY <2>1, MetaNat
  <2>5. n[d] \in Nat /\ n2[d] \in Nat /\ n[d] <= n2[d] /\ ins.ins <= n2[c]
    BY DEF Ticks, Clocked
  <2>6. CASE d = c /\ b = a
    <3>1. st = "M" => old = t.meta[c][a]
      BY DEF Finds
    <3>2. f.min \in Nat /\ f.max \in Nat /\ ins.ins \in Nat
      BY <1>3, EngineAssumption DEF Fields, Finds
    <3>3. f.max = ins.ins \/ f.max = t.meta[d][b].max
      BY <1>3, <2>6, <3>1
    <3>4. f.min <= n2[d]
      BY <1>3, <2>5, <2>6, <3>2
    <3>5. f.max <= n2[d]
      BY <2>3, <2>4, <2>5, <2>6, <3>2, <3>3
    <3>6. QED
      BY <2>2, <2>6, <3>4, <3>5
  <2>7. CASE ~(d = c /\ b = a)
    BY <2>2, <2>3, <2>4, <2>5, <2>7
  <2>8. QED
    BY <2>6, <2>7
<1>5. Dated(u, n2)
  BY <1>4 DEF Dated
<1>6. pmodel = "BEPB" => EpochOrdered(u, n2)
  BY EpochStore DEF Timed, TimedBut, u
<1>7. pmodel # "BEPB" /\ Roomy => Listed(u, {}, {})
  BY ReleaseStore DEF Timed, TimedBut, u
<1>8. pmodel = "BEPB" \/ Roomy => "conflict" \notin u.overtaken
  <2>1. u.overtaken = t.overtaken
    BY <1>1 DEF Written
  <2>2. QED
    BY <2>1 DEF Timed, TimedBut
<1>9. pmodel # "BEPB" => Spanned(u)
  BY SpannedStore DEF Timed, TimedBut, u
<1>10. QED
  BY <1>5, <1>6, <1>7, <1>8, <1>9 DEF Timed, TimedBut, u

\* A load that missed marks a line that is not dirty.
LEMMA ReadMissStep ==
  ASSUME NEW t, Engine(t), NEW c \in Core, NEW a \in Addr, a \notin Dirty(t, c),
         NEW ins, ins.atom \in Atom, NEW self, NEW n
  PROVE  LET u == AfterReadMiss(t, c, a, ins, self) IN
         /\ Engine(u)
         /\ \A d \in Core : Dirty(u, d) = Dirty(t, d)
         /\ Timed(t, n) => Timed(u, n)
<1> DEFINE at == IF self THEN "NON" ELSE ins.atom
           M == [t.meta EXCEPT ![c][a].atom = at]
           u == [t EXCEPT !.meta = M]
           w == AfterReadMiss(t, c, a, ins, self)
<1>1. at \in Atom
  BY DEF Atom
<1>2. t \in EngineType /\ Dir!GoodLines(t.lines) /\ Tidy(t) /\ \A d \in Core : GoodSync(t.sync[d])
  BY DEF Engine
<1>3. w = u
  BY DEF AfterReadMiss
<1> HIDE DEF at, w
<1>4. t.meta \in [Core -> [Addr -> Fields]]
  BY <1>2, EngineFields
<1>5. M \in [Core -> [Addr -> Fields]]
  <2> DEFINE f == [t.meta[c][a] EXCEPT !.atom = at]
  <2>1. f \in Fields
    <3>1. t.meta[c][a] \in Fields
      BY <1>4
    <3>2. QED
      BY <1>1, <3>1 DEF Fields
  <2>2. M = [t.meta EXCEPT ![c][a] = f]
    OBVIOUS
  <2> HIDE DEF f, M
  <2>3. QED
    BY <1>4, <2>1, <2>2
<1>6. \A d \in Core, b \in Addr :
        /\ d # c \/ b # a => M[d][b] = t.meta[d][b]
        /\ M[d][b].min = t.meta[d][b].min /\ M[d][b].max = t.meta[d][b].max
  BY <1>4 DEF Fields
<1> HIDE DEF M
<1>7. /\ u \in EngineType /\ u.lines = t.lines /\ u.meta = M /\ u.sync = t.sync
      /\ u.older = t.older /\ u.before = t.before /\ u.overtaken = t.overtaken
  BY <1>2, <1>5 DEF EngineType
<1> HIDE DEF u
<1>8. \A d \in Core : Dirty(u, d) = Dirty(t, d)
  BY <1>7 DEF Dirty
<1>9. Tidy(u)
  <2>1. ASSUME NEW d \in Core, NEW b \in Addr
        PROVE  /\ b \notin Dirty(u, d) => u.meta[d][b].max = 0 /\ u.older[d][b] = {}
               /\ u.older[d][b] \subseteq Dirty(u, d) \ {b}
    BY <1>6, <1>7, <1>8, TidyFacts
  <2>2. ASSUME NEW d \in Core PROVE u.before[d] \subseteq Dirty(u, d)
    BY <1>7, <1>8, TidyFacts
  <2>3. QED
    BY <2>1, <2>2 DEF Tidy
<1>10. Engine(u)
  BY <1>2, <1>7, <1>9 DEF Engine
<1>11. ASSUME NEW d \in Core, NEW b \in Dirty(u, d)
       PROVE  /\ b \in Dirty(t, d) /\ b \in Addr
              /\ u.meta[d][b] = t.meta[d][b]
  <2>1. b \in Dirty(t, d) /\ b \in Addr
    BY <1>8, TidyFacts
  <2>2. d # c \/ b # a
    BY <2>1
  <2>3. QED
    BY <1>6, <1>7, <2>1, <2>2
<1>12. Shrinks(t, u)
  BY <1>7, <1>11 DEF Shrinks
<1>13. ASSUME Timed(t, n) PROVE Timed(u, n)
  <2>1. Dated(u, n)
    BY <1>11, <1>13 DEF Timed, TimedBut, Dated
  <2>2. pmodel = "BEPB" => EpochOrdered(u, n)
    <3>1. pmodel = "BEPB" => EpochOrdered(t, n)
      BY <1>13 DEF Timed, TimedBut
    <3>2. EpochOrdered(t, n) => "flush" \notin u.overtaken
      BY <1>7 DEF EpochOrdered
    <3>3. QED
      BY <1>10, <1>12, <3>1, <3>2, ShrinkEpochs
  <2>3. pmodel # "BEPB" /\ Roomy => Listed(u, {}, {})
    BY <1>7, <1>10, <1>12, <1>13, ShrinkListed DEF Timed, TimedBut
  <2>4. pmodel = "BEPB" \/ Roomy => "conflict" \notin u.overtaken
    BY <1>7, <1>13 DEF Timed, TimedBut
  <2>5. pmodel # "BEPB" => Spanned(u)
    <3>1. pmodel # "BEPB" => Spanned(t)
      BY <1>13 DEF Timed, TimedBut
    <3>2. Spanned(t) => "flush" \notin u.overtaken
      BY <1>7 DEF Spanned
    <3>3. QED
      BY <1>10, <1>12, <3>1, <3>2, ShrinkSpanned
  <2>6. QED
    BY <2>1, <2>2, <2>3, <2>4, <2>5 DEF Timed, TimedBut
<1>14. QED
  BY <1>3, <1>8, <1>10, <1>13 DEF u, w

LEMMA LaterClock ==
  ASSUME NEW t, Engine(t), NEW n \in [Core -> Nat], NEW n2 \in [Core -> Nat],
         \A d \in Core : n[d] <= n2[d], Timed(t, n)
  PROVE  Timed(t, n2)
<1>1. Dated(t, n2)
  <2> SUFFICES ASSUME NEW c \in Core, NEW b \in Dirty(t, c)
               PROVE  t.meta[c][b].min <= n2[c] /\ t.meta[c][b].max <= n2[c]
    BY DEF Dated
  <2>1. t.meta[c][b].min <= n[c] /\ t.meta[c][b].max <= n[c]
    BY DEF Timed, TimedBut, Dated
  <2>2. t.meta[c][b].min \in Nat /\ t.meta[c][b].max \in Nat
    BY TidyFacts, MetaNat
  <2>3. QED
    BY <2>1, <2>2
<1>2. ASSUME EpochOrdered(t, n) PROVE EpochOrdered(t, n2)
  <2>1. ASSUME NEW c \in Core, NEW x \in t.before[c] PROVE t.meta[c][x].max < n2[c]
    <3>1. t.meta[c][x].max < n[c] /\ n[c] <= n2[c] /\ n[c] \in Nat /\ n2[c] \in Nat
      BY <1>2 DEF EpochOrdered
    <3>2. t.meta[c][x].max \in Nat
      BY TidyFacts, MetaNat
    <3>3. QED
      BY <3>1, <3>2
  <2>2. QED
    BY <1>2, <2>1 DEF EpochOrdered
<1>3. QED
  BY <1>1, <1>2 DEF Timed, TimedBut
----------------------------------------------------------------------------
(***************************************************************************)
(* An access.                                                              *)
(***************************************************************************)
\* What a read asks of the clock: that it does not go back.
ClockGoes(c, op, ins, n, n2) ==
  IF op = "WR" THEN Clocked(c, ins, n, n2)
  ELSE n2 \in [Core -> Nat] /\ \A d \in Core : n[d] <= n2[d]

LEMMA WriteStep ==
  ASSUME NEW t, Engine(t), NEW c \in Core, NEW a \in Addr, NEW ins, NEW old, NEW st,
         Finds(t, c, a, ins, old, st), NEW n,
         pmodel = "BEPB" => Fresh(t, c, a) \/ ~(ins.ins > t.meta[c][a].max)
  PROVE  LET u == AfterWrite(t, c, a, ins, old, st) IN
         /\ Engine(u)
         /\ \A d \in Core : Dirty(u, d) = Dirty(t, d)
         /\ \A n2 : Clocked(c, ins, n, n2) /\ Timed(t, n) => Timed(u, n2)
<1> DEFINE u == AfterWrite(t, c, a, ins, old, st)
<1>1. Engine(u) /\ \A d \in Core : Dirty(u, d) = Dirty(t, d)
  BY AfterWriteStep
<1>2. ASSUME NEW n2, Clocked(c, ins, n, n2), Timed(t, n) PROVE Timed(u, n2)
  <2>1. Ticks(c, a, t, ins, n, n2)
    BY <1>2 DEF Ticks
  <2>2. QED
    BY <1>2, <2>1, AfterWriteTimed
<1>3. QED
  BY <1>1, <1>2

\* An access keeps the engine in good order, its stores in order, and with a
\* full barrier leaves only the line it writes dirty.
LEMMA AccessedStep ==
  ASSUME Engine(s), NEW c \in Core, NEW a \in Addr, NEW op \in Op, NEW ins,
         ins.atom \in Atom, ins.ins \in 0..MaxEpoch,
         NEW r \in Accessed(c, a, op, ins), NEW n \in [Core -> Nat]
  PROVE  /\ Engine(r)
         /\ \A n2 : ClockGoes(c, op, ins, n, n2) /\ Timed(s, n) => Timed(r, n2)
         /\ pmodel = "FBRP" /\ op = "WR" /\ ins.atom = "FULL"
            /\ (\A x \in Dirty(s, c) : s.meta[c][x].max < ins.ins) => Dirty(r, c) = {a}
<1> DEFINE b   == BarrierFlush(s, c, a, op, ins)
           st  == b.lines[a].l1[c]
           old == b.meta[c][a]
           k   == Parent[c]
           drain == pmodel = "FBRP" /\ op = "WR" /\ ins.atom = "FULL"
                    /\ (\A x \in Dirty(s, c) : s.meta[c][x].max < ins.ins)
           Done(g) == IF op = "WR" THEN AfterWrite(g.s, c, a, ins, old, st)
                      ELSE AfterReadMiss(g.s, c, a, ins, g.self)
           hit == IF op = "WR" THEN AfterWrite(b, c, a, ins, old, st) ELSE b
           G(p, q, d) == Grant(d, c, a, op, ins, p.frame, q.frame)
           from(p, q) == {Done(G(p, q, d)) : d \in DirReplace(q.s, a)}
           miss == UNION {UNION {from(p, q) : q \in L2Replace(p.s, k, a)} : p \in L1Replace(b, c, a)}
           ahead == Ahead(c, op, ins, n)
<1>1. /\ Engine(b)
      /\ ahead /\ Timed(s, n) => Timed(b, n)
      /\ pmodel = "BEPB" /\ op = "WR" /\ a \in Dirty(b, c) =>
           Fresh(b, c, a) \/ ~(ins.ins > b.meta[c][a].max)
      /\ drain => Dirty(b, c) = {}
  <2>1. ins.ins \in Nat
    BY EngineAssumption
  <2>2. QED
    BY <2>1, BarrierFlushStep
<1>2. Accessed(c, a, op, ins) = IF ~LeavesL1(b.lines[a], c, op) THEN {hit} ELSE miss
  BY DEF Accessed
<1>3. /\ Engine(b) /\ (ahead /\ Timed(s, n) => Timed(b, n))
      /\ \A n2 : ClockGoes(c, op, ins, n, n2) => ahead
  <2>1. ASSUME NEW n2, ClockGoes(c, op, ins, n, n2) PROVE ahead
    BY <2>1 DEF ClockGoes, Clocked, Ahead
  <2>2. QED
    BY <1>1, <2>1
<1> HIDE DEF b, drain, ahead
<1>4. old \in Fields /\ st \in St
  <2>1. b.lines \in [Addr -> LineState] /\ b.meta \in [Core -> [Addr -> Fields]]
    BY <1>3, EngineFields DEF Engine
  <2>2. QED
    BY <2>1 DEF LineState
<1>5. CASE ~LeavesL1(b.lines[a], c, op)
  <2>1. r = hit
    BY <1>2, <1>5
  <2>2. CASE op = "WR"
    <3>1. st = "M" /\ a \in Dirty(b, c)
      BY <1>5, <2>2 DEF LeavesL1, Dirty
    <3>2. Finds(b, c, a, ins, old, st)
      BY <1>4, <3>1 DEF Finds
    <3>3. pmodel = "BEPB" => Fresh(b, c, a) \/ ~(ins.ins > b.meta[c][a].max)
      BY <1>1, <2>2, <3>1
    <3> HIDE DEF old, st
    <3> DEFINE u == AfterWrite(b, c, a, ins, old, st)
    <3>4. Engine(u) /\ \A n2 : Clocked(c, ins, n, n2) /\ Timed(b, n) => Timed(u, n2)
      BY <1>3, <3>2, <3>3, WriteStep
    <3>5. ~drain
      BY <1>1, <3>1
    <3>6. r = u
      BY <2>1, <2>2
    <3> HIDE DEF u
    <3>7. QED
      BY <1>3, <2>2, <3>4, <3>5, <3>6 DEF ClockGoes, drain
  <2>3. CASE op = "RD"
    <3>1. r = b
      BY <2>1, <2>3
    <3>2. ASSUME NEW n2, ClockGoes(c, op, ins, n, n2), Timed(s, n) PROVE Timed(b, n2)
      BY <1>3, <2>3, <3>2, LaterClock DEF ClockGoes
    <3>3. QED
      BY <1>3, <2>3, <3>1, <3>2
  <2>4. QED
    BY <2>2, <2>3 DEF Op
<1>6. CASE LeavesL1(b.lines[a], c, op)
  <2> HIDE DEF from
  <2>1. PICK p \in L1Replace(b, c, a) : r \in UNION {from(p, q) : q \in L2Replace(p.s, k, a)}
    BY <1>2, <1>6
  <2>2. PICK q \in L2Replace(p.s, k, a) : r \in from(p, q)
    BY <2>1
  <2>3. PICK d \in DirReplace(q.s, a) : r = Done(G(p, q, d))
    BY <2>2 DEF from
  <2> DEFINE g == G(p, q, d)
  <2>4. Stepped(b, p.s, n) /\ p.frame \in St
    BY <1>3, L1ReplaceStep
  <2>5. Stepped(p.s, q.s, n) /\ q.frame \in St
    <3>1. k \in Cache /\ Engine(p.s)
      BY <2>4, TopologyAssumption DEF Stepped
    <3>2. QED
      BY <3>1, L2ReplaceStep
  <2>6. Stepped(q.s, d, n)
    <3>1. Engine(q.s)
      BY <2>5 DEF Stepped
    <3>2. QED
      BY <3>1, DirReplaceStep
  <2>7. /\ Engine(d) /\ (Timed(b, n) => Timed(d, n))
        /\ Dirty(d, c) \subseteq Dirty(b, c)
    BY <2>4, <2>5, <2>6 DEF Stepped
  <2>8. a \notin Dirty(b, c) /\ st # "M"
    BY <1>6 DEF LeavesL1, Dirty
  <2>9. /\ Engine(g.s) /\ Fresh(g.s, c, a)
        /\ Timed(d, n) => Timed(g.s, n)
        /\ a \in Dirty(g.s, c) <=> op = "WR"
        /\ Dirty(g.s, c) \subseteq Dirty(d, c) \cup {a}
    BY <2>5, <2>7, <2>8, GrantStep
  <2> HIDE DEF G
  <2>10. r = Done(g) /\ (ahead /\ Timed(s, n) => Timed(g.s, n))
    BY <1>3, <2>3, <2>7, <2>9
  <2> HIDE DEF g
  <2>11. CASE op = "WR"
    <3>1. Finds(g.s, c, a, ins, old, st)
      BY <1>4, <2>8, <2>9, <2>11 DEF Finds
    <3> HIDE DEF old, st
    <3> DEFINE u == AfterWrite(g.s, c, a, ins, old, st)
    <3>2. /\ Engine(u) /\ Dirty(u, c) = Dirty(g.s, c)
          /\ \A n2 : Clocked(c, ins, n, n2) /\ Timed(g.s, n) => Timed(u, n2)
      BY <2>9, <3>1, WriteStep
    <3>3. r = u
      BY <2>10, <2>11
    <3> HIDE DEF u
    <3>4. drain => Dirty(u, c) = {a}
      BY <1>1, <2>7, <2>9, <2>11, <3>2
    <3>5. QED
      BY <1>3, <2>10, <2>11, <3>2, <3>3, <3>4 DEF ClockGoes, drain
  <2>12. CASE op = "RD"
    <3> DEFINE u == AfterReadMiss(g.s, c, a, ins, g.self)
    <3>1. Engine(u) /\ (Timed(g.s, n) => Timed(u, n))
      BY <2>9, <2>12, ReadMissStep
    <3>2. r = u
      BY <2>10, <2>12
    <3> HIDE DEF u
    <3>3. ASSUME NEW n2, ClockGoes(c, op, ins, n, n2), Timed(s, n) PROVE Timed(u, n2)
      BY <1>3, <2>10, <2>12, <3>1, <3>3, LaterClock DEF ClockGoes
    <3>4. QED
      BY <2>12, <3>1, <3>2, <3>3
  <2>13. QED
    BY <2>11, <2>12 DEF Op
<1>7. QED
  BY <1>5, <1>6
----------------------------------------------------------------------------
(***************************************************************************)
(* The invariants.                                                         *)
(***************************************************************************)
\* The inductive form of TypeOK.
Typed ==
  /\ pmodel \in Models
  /\ Engine(s)
  /\ epoch \in [Core -> 0..MaxEpoch] /\ ownEpoch \in [Core -> 0..MaxEpoch]
  /\ insEpoch \in [Receiver -> 0..MaxEpoch]
  /\ addrMap \in [Receiver -> SUBSET Addr]

\* No store has another core's epoch: there are none, or no two cores share a
\* receiver.
Apart == \A c, d \in Core : ReceiverOf[c] = ReceiverOf[d] => c = d

OwnStamps == ~ForeignEpochs \/ Apart

\* What no dirty line of a core is beyond: with BEPB its last stamp, otherwise
\* its counter.
Clock == IF pmodel = "BEPB" THEN ownEpoch ELSE epoch

OrderInv ==
  /\ Timed(s, Clock)
  /\ \A c \in Core : ownEpoch[c] <= epoch[c]
  /\ Apart => \A c \in Core : insEpoch[ReceiverOf[c]] = ownEpoch[c]

\* The inductive form implies the stated one.
LEMMA TypedImplies == Typed => TypeOK
<1> SUFFICES ASSUME Typed PROVE TypeOK
  OBVIOUS
<1>1. Engine(s) /\ s \in EngineType
  BY DEF Typed, Engine
<1>2. s.lines \in [Addr -> LineState]
  BY <1>1, EngineFields
<1>3. s.meta \in [Core -> [Addr -> [atom : Atom, min : 0..MaxEpoch, max : 0..MaxEpoch]]]
  BY <1>1, EngineFields DEF Fields
<1>4. ASSUME NEW c \in Core
      PROVE  Entries(s.sync[c]) \subseteq [addr : Addr, epoch : 0..MaxEpoch]
  <2>1. GoodSync(s.sync[c])
    BY <1>1 DEF Engine
  <2>2. QED
    BY <2>1, GoodSyncEntries DEF SyncEntry
<1>5. ASSUME NEW c \in Core, NEW a \in Addr, s.lines[a].l1[c] # "M"
      PROVE  s.meta[c][a].max = 0 /\ s.older[c][a] = {}
  <2>1. a \notin Dirty(s, c)
    BY <1>5 DEF Dirty
  <2>2. QED
    BY <1>1, <2>1, TidyFacts
<1>6. QED
  BY <1>2, <1>3, <1>4, <1>5 DEF Typed, TypeOK

\* Nothing is dirty at the start.
LEMMA StartsEmpty ==
  ASSUME Init
  PROVE  Typed /\ OrderInv
<1> DEFINE zero == [c \in Core |-> 0]
           none == [c \in Core |-> [a \in Addr |-> {}]]
<1>1. /\ s.lines = [a \in Addr |-> Invalid]
      /\ s.meta = [c \in Core |-> [a \in Addr |-> Clean]]
      /\ s.sync = [c \in Core |-> EmptyMap]
      /\ s.older = none /\ s.before = [c \in Core |-> {}] /\ s.overtaken = {}
  BY DEF Init
<1>2. s \in EngineType
  <2>1. Invalid \in LineState
    BY DEF Invalid, LineState, St, DirSt
  <2>2. s.lines \in [Addr -> LineState]
    BY <1>1, <2>1
  <2>3. s.meta \in [Core -> [Addr -> Fields]]
    BY <1>1, CleanType
  <2>4. EmptyMap \in SyncType
    BY DEF EmptyMap, SyncType
  <2>5. s.sync \in [Core -> SyncType]
    BY <1>1, <2>4
  <2>6. s.older \in [Core -> [Addr -> SUBSET Addr]] /\ s.before \in [Core -> SUBSET Addr]
    BY <1>1
  <2>7. s = [lines |-> s.lines, meta |-> s.meta, sync |-> s.sync, older |-> s.older,
             before |-> s.before, overtaken |-> s.overtaken]
    BY DEF Init
  <2>8. QED
    BY <1>1, <2>2, <2>3, <2>5, <2>6, <2>7 DEF EngineType
<1>3. \A c \in Core : Dirty(s, c) = {}
  BY <1>1 DEF Dirty, Invalid
<1>4. Tidy(s)
  BY <1>1, <1>3 DEF Tidy, Clean
<1>5. Dir!GoodLines(s.lines)
  <2>1. Dir!Good(Dir!Invalid)
    BY InstanceAssumed, Dir!InvalidGood
  <2>2. s.lines = [a \in Addr |-> Dir!Invalid]
    BY <1>1, SameHelpers
  <2>3. QED
    BY <2>1, <2>2 DEF Dir!GoodLines, Dir!Good
<1>6. Engine(s)
  BY <1>1, <1>2, <1>4, <1>5, EmptySync DEF Engine
<1>7. Typed
  BY <1>6, EngineAssumption DEF Typed, Init
<1>8. Timed(s, Clock)
  <2>1. Dated(s, Clock)
    BY <1>3 DEF Dated
  <2>2. EpochOrdered(s, Clock)
    BY <1>1 DEF EpochOrdered
  <2>3. Listed(s, {}, {})
    BY <1>1 DEF Listed
  <2>4. Spanned(s)
    BY <1>1 DEF Spanned
  <2>5. QED
    BY <1>1, <2>1, <2>2, <2>3, <2>4 DEF Timed, TimedBut
<1>9. QED
  BY <1>7, <1>8, EngineAssumption DEF OrderInv, Init

\* The stamps of the message handler.
LEMMA StampFacts ==
  ASSUME Typed, NEW c \in Core, NEW a \in Addr, NEW atom \in Atom,
         Stamp(c, a, atom).next <= MaxEpoch
  PROVE  LET ins == Stamp(c, a, atom)
             tracked == a \in Tracked(ReceiverOf[c], a, atom)
         IN
         /\ ins.atom \in Atom /\ ins.ins \in 0..MaxEpoch /\ ins.next \in 0..MaxEpoch
         /\ epoch[c] <= ins.next
         /\ tracked => epoch[c] <= ins.ins /\ ins.ins <= ins.next
         /\ ~tracked => ins.atom = "NON" /\ ins.ins = insEpoch[ReceiverOf[c]]
         /\ ins.atom \in {"RELEASE", "FULL"} => epoch[c] < ins.ins
         /\ ins.next = epoch[c] + 2 => ins.atom = "FULL"
<1> DEFINE r == ReceiverOf[c]
           e == epoch[c]
           ins == Stamp(c, a, atom)
           tracked == a \in Tracked(r, a, atom)
<1>1. e \in 0..MaxEpoch /\ insEpoch[r] \in 0..MaxEpoch /\ MaxEpoch \in Nat
  BY EngineAssumption DEF Typed
<1>2. CASE ~tracked
  <2>1. ins = [atom |-> "NON", ins |-> insEpoch[r], next |-> e]
    BY <1>2 DEF Stamp
  <2> HIDE DEF ins, e
  <2>2. ins.atom = "NON" /\ ins.ins = insEpoch[r] /\ ins.next = e
    BY <2>1
  <2>3. QED
    BY <1>1, <1>2, <2>2 DEF Atom, ins, e
<1>3. CASE tracked
  <2> DEFINE Row(x, i, k) == atom = x /\ ins = [atom |-> atom, ins |-> i, next |-> k]
  <2>1. \/ Row("FULL", e + 1, e + 2)
        \/ Row("ACQUIRE", e, e + 1)
        \/ Row("RELEASE", e + 1, e + 1)
        \/ Row("NON", e, e)
    BY <1>3 DEF Stamp, Atom
  <2> HIDE DEF ins, e
  <2>2. /\ ins.atom = atom /\ e <= ins.ins /\ ins.ins <= ins.next /\ ins.next \in Nat
        /\ ins.ins \in Nat
        /\ ins.atom \in {"RELEASE", "FULL"} => e < ins.ins
        /\ ins.next = e + 2 => ins.atom = "FULL"
    BY <1>1, <2>1
  <2>3. ins.next <= MaxEpoch
    BY DEF ins
  <2>4. ins.ins \in 0..MaxEpoch /\ ins.next \in 0..MaxEpoch /\ e <= ins.next
    BY <1>1, <2>2, <2>3
  <2>5. QED
    BY <1>3, <2>2, <2>4 DEF ins, e
<1>4. QED
  BY <1>2, <1>3
----------------------------------------------------------------------------
(***************************************************************************)
(* A request keeps both.                                                   *)
(***************************************************************************)
LEMMA TrackedType ==
  ASSUME Typed, NEW r \in Receiver, NEW a \in Addr, NEW atom
  PROVE  Tracked(r, a, atom) \subseteq Addr
BY DEF Typed, Tracked

\* The types, over one request.
LEMMA RequestTyped ==
  ASSUME Typed, NEW c \in Core, NEW a \in Addr, NEW op \in Op, NEW atom \in Atom,
         Request(c, a, op, atom)
  PROVE  Typed'
<1> DEFINE ins == Stamp(c, a, atom)
           tracked == a \in Tracked(ReceiverOf[c], a, atom)
<1>1. /\ ins.next <= MaxEpoch
      /\ s' \in Accessed(c, a, op, ins)
      /\ epoch' = [epoch EXCEPT ![c] = ins.next]
      /\ insEpoch' = [insEpoch EXCEPT ![ReceiverOf[c]] = ins.ins]
      /\ ownEpoch' = [ownEpoch EXCEPT ![c] = IF tracked THEN ins.ins ELSE @]
      /\ addrMap' = [addrMap EXCEPT ![ReceiverOf[c]] = Tracked(ReceiverOf[c], a, atom)]
      /\ pmodel' = pmodel
  BY DEF Request
<1>2. ins.atom \in Atom /\ ins.ins \in 0..MaxEpoch /\ ins.next \in 0..MaxEpoch
  BY <1>1, StampFacts
<1>3. ReceiverOf[c] \in Receiver
  BY EngineAssumption
<1>4. Tracked(ReceiverOf[c], a, atom) \subseteq Addr
  BY <1>3, TrackedType
<1> HIDE DEF ins, tracked
<1>5. Engine(s')
  <2>1. Engine(s) /\ [d \in Core |-> 0] \in [Core -> Nat]
    BY DEF Typed
  <2>2. PICK r \in Accessed(c, a, op, ins) : r = s'
    BY <1>1
  <2>3. Engine(r)
    BY <1>2, <2>1, AccessedStep
  <2>4. QED
    BY <2>2, <2>3
<1>6. epoch' \in [Core -> 0..MaxEpoch] /\ ownEpoch' \in [Core -> 0..MaxEpoch]
  BY <1>1, <1>2 DEF Typed
<1>7. insEpoch' \in [Receiver -> 0..MaxEpoch]
  BY <1>1, <1>2 DEF Typed
<1>8. addrMap' \in [Receiver -> SUBSET Addr]
  BY <1>1, <1>4 DEF Typed
<1>9. pmodel' \in Models
  BY <1>1 DEF Typed
<1>10. QED
  BY <1>5, <1>6, <1>7, <1>8, <1>9 DEF Typed

\* The epochs of a request keep the clocks of the cores apart and in order.
LEMMA RequestClock ==
  ASSUME Typed, OrderInv, OwnStamps, NEW c \in Core, NEW a \in Addr, NEW op \in Op,
         NEW atom \in Atom, Request(c, a, op, atom)
  PROVE  /\ ClockGoes(c, op, Stamp(c, a, atom), Clock, Clock')
         /\ (\A d \in Core : ownEpoch[d] <= epoch[d])'
         /\ (Apart => \A d \in Core : insEpoch[ReceiverOf[d]] = ownEpoch[d])'
<1> DEFINE ins == Stamp(c, a, atom)
           tracked == a \in Tracked(ReceiverOf[c], a, atom)
<1>1. /\ ins.next <= MaxEpoch
      /\ op = "WR" /\ ~tracked /\ ins.ins # ownEpoch[c] => ForeignEpochs
      /\ epoch' = [epoch EXCEPT ![c] = ins.next]
      /\ insEpoch' = [insEpoch EXCEPT ![ReceiverOf[c]] = ins.ins]
      /\ ownEpoch' = [ownEpoch EXCEPT ![c] = IF tracked THEN ins.ins ELSE @]
      /\ pmodel' = pmodel
  BY DEF Request
<1>2. /\ ins.atom \in Atom /\ ins.ins \in 0..MaxEpoch /\ ins.next \in 0..MaxEpoch
      /\ epoch[c] <= ins.next
      /\ tracked => epoch[c] <= ins.ins /\ ins.ins <= ins.next
      /\ ~tracked => ins.atom = "NON" /\ ins.ins = insEpoch[ReceiverOf[c]]
      /\ ins.atom \in {"RELEASE", "FULL"} => epoch[c] < ins.ins
  BY <1>1, StampFacts
<1> HIDE DEF ins, tracked
<1>3. /\ epoch \in [Core -> Nat] /\ ownEpoch \in [Core -> Nat] /\ insEpoch \in [Receiver -> Nat]
      /\ MaxEpoch \in Nat /\ ins.ins \in Nat /\ ins.next \in Nat
  BY <1>2, EngineAssumption DEF Typed
<1>4. \A d \in Core : ownEpoch[d] <= epoch[d]
  BY DEF OrderInv
<1>5. Apart => insEpoch[ReceiverOf[c]] = ownEpoch[c]
  BY DEF OrderInv
<1>6. op = "WR" /\ ~tracked => ins.ins = ownEpoch[c]
  BY <1>1, <1>2, <1>5 DEF OwnStamps
<1>7. /\ epoch' \in [Core -> Nat] /\ epoch'[c] = ins.next
      /\ \A d \in Core : d # c => epoch'[d] = epoch[d]
  BY <1>1, <1>3
<1>8. /\ ownEpoch' \in [Core -> Nat]
      /\ ownEpoch'[c] = IF tracked THEN ins.ins ELSE ownEpoch[c]
      /\ \A d \in Core : d # c => ownEpoch'[d] = ownEpoch[d]
  BY <1>1, <1>3
<1>9. \A d \in Core : epoch[d] <= epoch'[d] /\ ownEpoch[d] <= ownEpoch'[d]
  <2> SUFFICES ASSUME NEW d \in Core
               PROVE  epoch[d] <= epoch'[d] /\ ownEpoch[d] <= ownEpoch'[d]
    OBVIOUS
  <2>1. epoch[d] \in Nat /\ ownEpoch[d] \in Nat /\ ownEpoch[d] <= epoch[d]
    BY <1>3, <1>4
  <2>2. CASE d = c
    BY <1>2, <1>3, <1>7, <1>8, <2>1, <2>2
  <2>3. CASE d # c
    BY <1>7, <1>8, <2>1, <2>3
  <2>4. QED
    BY <2>2, <2>3
<1>10. ASSUME NEW d \in Core PROVE ownEpoch'[d] <= epoch'[d]
  <2>1. epoch[d] \in Nat /\ ownEpoch[d] \in Nat /\ ownEpoch[d] <= epoch[d]
    BY <1>3, <1>4
  <2>2. CASE d = c
    BY <1>2, <1>3, <1>7, <1>8, <2>1, <2>2
  <2>3. CASE d # c
    BY <1>7, <1>8, <2>1, <2>3
  <2>4. QED
    BY <2>2, <2>3
<1>11. ASSUME Apart, NEW d \in Core PROVE insEpoch'[ReceiverOf[d]] = ownEpoch'[d]
  <2>1. ReceiverOf[d] \in Receiver /\ ReceiverOf[c] \in Receiver
    BY EngineAssumption
  <2>2. CASE d = c
    BY <1>1, <1>2, <1>3, <1>5, <1>8, <1>11, <2>1, <2>2
  <2>3. CASE d # c
    <3>1. ReceiverOf[d] # ReceiverOf[c]
      BY <1>11, <2>3 DEF Apart
    <3>2. insEpoch[ReceiverOf[d]] = ownEpoch[d]
      BY <1>11 DEF OrderInv
    <3>3. QED
      BY <1>1, <1>3, <1>8, <2>1, <2>3, <3>1, <3>2
  <2>4. QED
    BY <2>2, <2>3
<1>12. Clock \in [Core -> Nat] /\ Clock' \in [Core -> Nat] /\ \A d \in Core : Clock[d] <= Clock'[d]
  <2>1. CASE pmodel = "BEPB"
    <3>1. Clock = ownEpoch /\ Clock' = ownEpoch'
      BY <1>1, <2>1 DEF Clock
    <3>2. QED
      BY <1>3, <1>8, <1>9, <3>1
  <2>2. CASE pmodel # "BEPB"
    <3>1. Clock = epoch /\ Clock' = epoch'
      BY <1>1, <2>2 DEF Clock
    <3>2. QED
      BY <1>3, <1>7, <1>9, <3>1
  <2>3. QED
    BY <2>1, <2>2
<1>13. ASSUME op = "WR" PROVE Clocked(c, ins, Clock, Clock')
  <2>1. epoch[c] \in Nat /\ ownEpoch[c] \in Nat /\ ownEpoch[c] <= epoch[c]
    BY <1>3, <1>4
  <2>2. ins.ins <= Clock'[c]
    <3>1. CASE pmodel = "BEPB"
      <4>1. Clock' = ownEpoch'
        BY <1>1, <3>1 DEF Clock
      <4>2. QED
        BY <1>3, <1>6, <1>8, <1>13, <2>1, <4>1
    <3>2. CASE pmodel # "BEPB"
      <4>1. Clock' = epoch'
        BY <1>1, <3>2 DEF Clock
      <4>2. QED
        BY <1>2, <1>3, <1>6, <1>7, <1>13, <2>1, <4>1
    <3>3. QED
      BY <3>1, <3>2
  <2>3. ins.atom # "NON" \/ pmodel = "BEPB" => Clock[c] <= ins.ins
    <3>1. CASE pmodel = "BEPB"
      <4>1. Clock = ownEpoch
        BY <3>1 DEF Clock
      <4>2. QED
        BY <1>2, <1>3, <1>6, <1>13, <2>1, <4>1
    <3>2. CASE pmodel # "BEPB"
      <4>1. Clock = epoch
        BY <3>2 DEF Clock
      <4>2. QED
        BY <1>2, <1>3, <2>1, <3>2, <4>1
    <3>3. QED
      BY <3>1, <3>2
  <2>4. ins.atom \in {"RELEASE", "FULL"} => Clock[c] < ins.ins
    <3>1. Clock[c] \in Nat /\ Clock[c] <= epoch[c]
      BY <2>1 DEF Clock
    <3>2. QED
      BY <1>2, <1>3, <2>1, <3>1
  <2>5. QED
    BY <1>12, <2>2, <2>3, <2>4, Zenon DEF Clocked
<1>14. ClockGoes(c, op, ins, Clock, Clock')
  BY <1>12, <1>13 DEF ClockGoes
<1>15. QED
  BY <1>10, <1>11, <1>14 DEF ins, Apart

\* The order, over one request.
LEMMA RequestOrder ==
  ASSUME Typed, OrderInv, OwnStamps, NEW c \in Core, NEW a \in Addr, NEW op \in Op,
         NEW atom \in Atom, Request(c, a, op, atom)
  PROVE  OrderInv'
<1> DEFINE ins == Stamp(c, a, atom)
<1>1. ins.next <= MaxEpoch /\ s' \in Accessed(c, a, op, ins) /\ pmodel' = pmodel
  BY DEF Request
<1>2. ins.atom \in Atom /\ ins.ins \in 0..MaxEpoch
  BY <1>1, StampFacts
<1>3. ClockGoes(c, op, ins, Clock, Clock')
  BY RequestClock
<1> HIDE DEF ins
<1>4. Engine(s) /\ Timed(s, Clock)
  BY DEF Typed, OrderInv
<1>5. Clock \in [Core -> Nat]
  BY EngineAssumption DEF Typed, Clock
<1>6. Timed(s', Clock')
  <2>1. PICK r \in Accessed(c, a, op, ins) : r = s'
    BY <1>1
  <2>2. PICK n \in [Core -> Nat] : n = Clock
    BY <1>5
  <2>3. \A n2 : ClockGoes(c, op, ins, n, n2) /\ Timed(s, n) => Timed(r, n2)
    BY <1>2, <1>4, AccessedStep
  <2>4. QED
    BY <1>3, <1>4, <2>1, <2>2, <2>3
<1>7. Timed(s, Clock)'
  BY <1>1, <1>6 DEF Timed, TimedBut
<1>8. QED
  BY <1>7, RequestClock DEF OrderInv

\* Every step is a request or changes nothing.
LEMMA StepOf ==
  ASSUME [Next]_vars
  PROVE  \/ \E c \in Core, a \in Addr, op \in Op, atom \in Atom : Request(c, a, op, atom)
         \/ UNCHANGED vars
BY DEF Next, Load, Store, Op

LEMMA StepTyped ==
  ASSUME Typed, [Next]_vars
  PROVE  Typed'
<1>1. CASE UNCHANGED vars
  BY <1>1 DEF vars, Typed
<1>2. CASE \E c \in Core, a \in Addr, op \in Op, atom \in Atom : Request(c, a, op, atom)
  BY <1>2, RequestTyped
<1>3. QED
  BY <1>1, <1>2, StepOf

LEMMA StepOrder ==
  ASSUME Typed, OrderInv, OwnStamps, [Next]_vars
  PROVE  OrderInv'
<1>1. CASE UNCHANGED vars
  BY <1>1 DEF vars, OrderInv, Timed, TimedBut, Clock, Apart
<1>2. CASE \E c \in Core, a \in Addr, op \in Op, atom \in Atom : Request(c, a, op, atom)
  BY <1>2, RequestOrder
<1>3. QED
  BY <1>1, <1>2, StepOf

\* An invariant of OwnStamps engines.
LEMMA Invariants ==
  ASSUME OwnStamps
  PROVE  Spec => [](Typed /\ OrderInv)
<1>1. Init => Typed /\ OrderInv
  BY StartsEmpty
<1>2. Typed /\ OrderInv /\ [Next]_vars => (Typed /\ OrderInv)'
  BY StepTyped, StepOrder
<1>3. QED
  BY <1>1, <1>2, PTL DEF Spec
----------------------------------------------------------------------------
\* TypeOK: every part of the engine's state stays in its type and only dirty
\* lines carry epochs, whatever the caches evict and the programs ask.
THEOREM EngineTyped == Spec => []TypeOK
<1>1. Init => Typed
  BY StartsEmpty
<1>2. Typed /\ [Next]_vars => Typed'
  BY StepTyped
<1>3. Typed => TypeOK
  BY TypedImplies
<1>4. QED
  BY <1>1, <1>2, <1>3, PTL DEF Spec

\* ReleaseOrdered: no conflict or eviction takes a release (with BEPB, a
\* store) out of its cache before a store it must follow, as long as the sync
\* map has room for every word and no store has the epoch of another core.
THEOREM ReleasesOrdered ==
  ASSUME Roomy \/ Models = {"BEPB"}, OwnStamps
  PROVE  Spec => []ReleaseOrdered
<1>1. Typed /\ OrderInv => ReleaseOrdered
  BY DEF Typed, OrderInv, Timed, TimedBut, ReleaseOrdered
<1>2. QED
  BY <1>1, Invariants, PTL

\* FlushOrdered: no flush writes a line back while a line that must persist
\* first stays dirty, whether it flushes whole epochs or, with releases, the
\* lines that no store newer than the release has been merged into.
THEOREM FlushesOrdered ==
  ASSUME OwnStamps
  PROVE  Spec => []FlushOrdered
<1>1. OrderInv => FlushOrdered
  BY DEF OrderInv, Timed, TimedBut, EpochOrdered, Spanned, FlushOrdered
<1>2. QED
  BY <1>1, Invariants, PTL

\* ReleaseRegistered: releaseFlush finds a dirty release in the sync map, under
\* an epoch that covers every older dirty store.
THEOREM ReleasesRegistered ==
  ASSUME Roomy, OwnStamps
  PROVE  Spec => []ReleaseRegistered
<1>1. OrderInv => ReleaseRegistered
  <2> SUFFICES ASSUME OrderInv, pmodel # "BEPB", NEW c \in Core, NEW a \in Addr,
                      s.older[c][a] # {}
               PROVE  \E e \in searchSyncMap(s.sync[c], {a}) :
                        \A b \in s.older[c][a] : s.meta[c][b].min <= e
    BY DEF ReleaseRegistered
  <2>1. Listed(s, {}, {})
    BY DEF OrderInv, Timed, TimedBut
  <2>2. Registered(s, c, a)
    BY <2>1 DEF Listed
  <2>3. QED
    BY <2>2 DEF Registered, RegisteredAt
<1>2. QED
  BY <1>1, Invariants, PTL

\* FullBarrierDrains: a full barrier of FBRP leaves its core with one dirty
\* line, the one it writes.
THEOREM BarriersDrain ==
  ASSUME OwnStamps
  PROVE  Spec => FullBarrierDrains
<1> DEFINE Drains == \A c \in Core, a \in Addr :
             pmodel = "FBRP" /\ epoch'[c] = epoch[c] + 2 /\ Store(c, a) => Dirty(s', c) = {a}
<1>1. Typed /\ OrderInv => Drains
  <2> SUFFICES ASSUME Typed, OrderInv, NEW c \in Core, NEW a \in Addr, pmodel = "FBRP",
                      epoch'[c] = epoch[c] + 2, Store(c, a)
               PROVE  Dirty(s', c) = {a}
    OBVIOUS
  <2>1. PICK atom \in Atom : Request(c, a, "WR", atom)
    BY DEF Store
  <2> DEFINE ins == Stamp(c, a, atom)
  <2>2. ins.next <= MaxEpoch /\ s' \in Accessed(c, a, "WR", ins) /\ epoch'[c] = ins.next
    BY <2>1 DEF Request, Typed
  <2>3. /\ ins.atom \in Atom /\ ins.ins \in 0..MaxEpoch
        /\ ins.atom \in {"RELEASE", "FULL"} => epoch[c] < ins.ins
        /\ ins.next = epoch[c] + 2 => ins.atom = "FULL"
    BY <2>2, StampFacts
  <2> HIDE DEF ins
  <2>4. ins.atom = "FULL" /\ epoch[c] < ins.ins
    BY <2>2, <2>3
  <2>5. Engine(s) /\ epoch \in [Core -> Nat] /\ ins.ins \in Nat
    BY <2>3, EngineAssumption DEF Typed
  <2>6. \A x \in Dirty(s, c) : s.meta[c][x].max < ins.ins
    <3> SUFFICES ASSUME NEW x \in Dirty(s, c) PROVE s.meta[c][x].max < ins.ins
      OBVIOUS
    <3>1. Dated(s, Clock) /\ Clock = epoch
      BY DEF OrderInv, Timed, TimedBut, Clock
    <3>2. s.meta[c][x].max <= epoch[c]
      BY <3>1 DEF Dated
    <3>3. s.meta[c][x].max \in Nat
      BY <2>5, MetaNat DEF Dirty
    <3>4. QED
      BY <2>4, <2>5, <3>2, <3>3
  <2>7. PICK r \in Accessed(c, a, "WR", ins) : r = s'
    BY <2>2
  <2>8. Dirty(r, c) = {a}
    BY <2>3, <2>4, <2>5, <2>6, AccessedStep DEF Op
  <2>9. QED
    BY <2>7, <2>8
<1>2. QED
  BY <1>1, Invariants, PTL DEF FullBarrierDrains
=============================================================================
