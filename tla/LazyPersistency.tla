-------------------------- MODULE LazyPersistency --------------------------
(***************************************************************************)
(* The persistency engine of src/src/system.cpp on top of the MESI         *)
(* directory: which dirty lines of a core are written back, and when, so   *)
(* that its stores persist in an order its releases and barriers allow.    *)
(*                                                                         *)
(* An access is one step, from the epoch the message handler of prime.cpp  *)
(* gives it to the end of System::access.  Every stage of it is an         *)
(* operator on a record s of the shared state:                             *)
(*   s.lines     the copies of every block, as in MesiDirectory            *)
(*   s.meta      atom_type, min_epoch_id and max_epoch_id of the level-0   *)
(*               lines (Clean where a line is not dirty and not atomic)    *)
(*   s.sync      the sync map of each level-0 cache                        *)
(*   s.older     history: the dirty lines of a core whose stores must not  *)
(*               persist after the dirty line they are listed under        *)
(*   s.before    history: the lines that were dirty at the last barrier    *)
(*   s.overtaken history: how a line left before one of its older lines    *)
(* Blocks hold one word.                                                   *)
(***************************************************************************)
EXTENDS MesiLine, SyncList

CONSTANTS
  Addr, L1Ways, L2Ways, DirWays,
  Models,         \* the values of pmodel to choose from
  Receiver,       \* receiver threads, the msgHandler instances
  ReceiverOf,     \* the receiver of each core's requests
  Program,        \* the <<operation, semantics>> pairs of each core's program
  AddrMapSize,    \* MAX_ADDR_MAP_SIZE
  ForeignEpochs,  \* bound: FALSE leaves out stores with another core's epoch
  MaxEpoch        \* bound on the epochs of a behaviour

Atom == {"NON", "ACQUIRE", "RELEASE", "FULL"}

ASSUME EngineAssumption ==
  /\ L1Ways \in Nat \ {0} /\ L2Ways \in Nat \ {0} /\ DirWays \in Nat \ {0}
  /\ Models \in SUBSET {"BEPB", "RLSB", "FBRP"}
  /\ ReceiverOf \in [Core -> Receiver]
  /\ Program \in [Core -> SUBSET (Op \X Atom)]
  /\ AddrMapSize \in Nat \ {0} /\ MaxEpoch \in Nat
  /\ ForeignEpochs \in BOOLEAN

VARIABLES
  pmodel,         \* the persistency model, fixed by the configuration
  s,              \* the caches and the directory, see above
  epoch,          \* epoch_id of each core
  insEpoch,       \* ins_mem.epoch_id of each receiver
  ownEpoch,       \* history: what each core's last tracked request put there
  addrMap         \* addr_map of each receiver

vars == <<pmodel, s, epoch, insEpoch, ownEpoch, addrMap>>

Clean == [atom |-> "NON", min |-> 0, max |-> 0]

\* The handlers start with epoch_id uninitialised; the model starts it at 0.
Init ==
  /\ pmodel \in Models
  /\ s = [lines  |-> [a \in Addr |-> Invalid],
          meta   |-> [c \in Core |-> [a \in Addr |-> Clean]],
          sync   |-> [c \in Core |-> EmptyMap],
          older  |-> [c \in Core |-> [a \in Addr |-> {}]],
          before |-> [c \in Core |-> {}],
          overtaken |-> {}]
  /\ epoch = [c \in Core |-> 0]
  /\ insEpoch = [r \in Receiver |-> 0]
  /\ ownEpoch = [c \in Core |-> 0]
  /\ addrMap = [r \in Receiver |-> {}]
----------------------------------------------------------------------------
(***************************************************************************)
(* prime.cpp, msgHandler: the epoch of a request.                          *)
(***************************************************************************)
\* addToAddrMap: filling the last slot empties the map.
Tracked(r, a, atom) ==
  LET m == IF atom = "NON" THEN addrMap[r] ELSE addrMap[r] \cup {a} IN
  IF a \notin addrMap[r] /\ Cardinality(m) >= AddrMapSize THEN {} ELSE m

\* The semantics a request keeps, its epoch, and the counter it leaves behind.
\* A request to an address that is not tracked takes whatever epoch the last
\* tracked one of the same receiver left in ins_mem.
Stamp(c, a, atom) ==
  LET r == ReceiverOf[c]
      e == epoch[c]
  IN CASE a \notin Tracked(r, a, atom) -> [atom |-> "NON", ins |-> insEpoch[r], next |-> e]
       [] OTHER ->
          CASE atom = "FULL"    -> [atom |-> atom, ins |-> e + 1, next |-> e + 2]
            [] atom = "ACQUIRE" -> [atom |-> atom, ins |-> e,     next |-> e + 1]
            [] atom = "RELEASE" -> [atom |-> atom, ins |-> e + 1, next |-> e + 1]
            [] OTHER            -> [atom |-> atom, ins |-> e,     next |-> e]
----------------------------------------------------------------------------
(***************************************************************************)
(* Lines that leave a level-0 cache.                                       *)
(***************************************************************************)
Dirty(t, c) == {a \in Addr : t.lines[a].l1[c] = "M"}

\* Mutant: the epochs stay on the line that is written back.
DepartMutant(t, c, F, how) ==
  [t EXCEPT
    !.older[c]  = [a \in Addr |-> IF a \in F THEN {} ELSE @[a] \ F],
    !.before[c] = @ \ F,
    !.overtaken = @ \cup {h \in {how} : \E a \in F : t.older[c][a] \ F # {}}]

\* The dirty lines F of core c leave its cache together.
Depart(t, c, F, how) ==
  [t EXCEPT
    !.meta[c]   = [a \in Addr |-> IF a \in F THEN Clean ELSE @[a]],
    !.older[c]  = [a \in Addr |-> IF a \in F THEN {} ELSE @[a] \ F],
    !.before[c] = @ \ F,
    !.overtaken = @ \cup {h \in {how} : \E a \in F : t.older[c][a] \ F # {}}]

\* Mutant: the directory is not told of the write-backs.
WriteBackAllMutant(t, c, F) ==
  [Depart(t, c, F, "flush") EXCEPT
    !.lines = [a \in Addr |-> IF a \in F THEN [@[a] EXCEPT !.l1[c] = "I"] ELSE @[a]]]

\* Write-backs of the lines F of core c, in the loops of the flushes.
WriteBackAll(t, c, F) ==
  [Depart(t, c, F, "flush") EXCEPT
    !.lines = [a \in Addr |-> IF a \in F THEN WriteBack(@[a], c) ELSE @[a]]]

\* The copies of block a become x: whoever loses a copy, or its ownership,
\* clears the line's fields.
Settle(t, a, x) ==
  LET lost == {c \in Core : t.lines[a].l1[c] = "M" /\ x.l1[c] # "M"}
      stale(c) == {a} \cap {b \in Addr : t.lines[b].l1[c] # x.l1[c]}
  IN [t EXCEPT
       !.lines[a]  = x,
       !.meta      = [c \in Core |-> [b \in Addr |-> IF b \in stale(c) THEN Clean ELSE @[c][b]]],
       !.older     = [c \in Core |-> IF c \notin lost THEN @[c]
                        ELSE [b \in Addr |-> IF b = a THEN {} ELSE @[c][b] \ {a}]],
       !.before    = [c \in Core |-> IF c \in lost THEN @[c] \ {a} ELSE @[c]],
       !.overtaken = @ \cup {h \in {"conflict"} : \E c \in lost : t.older[c][a] # {}}]
----------------------------------------------------------------------------
(***************************************************************************)
(* System::persist for the level-0 line of block a in core c.              *)
(***************************************************************************)
\* Mutant: only the epoch just before is written back.
epochPersistMutant(t, c, a) ==
  WriteBackAll(t, c, {b \in Dirty(t, c) \ {a} : t.meta[c][b].max + 1 = t.meta[c][a].max})

\* epochPersist and epochPersistWithPF: every line of an earlier epoch.
epochPersist(t, c, a) ==
  WriteBackAll(t, c, {b \in Dirty(t, c) \ {a} : t.meta[c][b].max < t.meta[c][a].max})

\* History: how the lines F that releaseFlush takes along with a, under epoch e,
\* leave others behind.  A line is merged when its last store is newer than e:
\* then it is written back for the sake of its first store.
Overtakes(t, c, F, a, e) ==
  {h \in {"flush", "merged"} :
     \E b \in F : /\ t.older[c][b] \ (F \cup {a}) # {}
                  /\ (h = "merged") <=> (t.meta[c][b].max > e)}

\* Mutant: a line written again after the release is left out.
releaseFlushMutant(t, c, a, e) ==
  LET F == {b \in Dirty(t, c) \ {a} : t.meta[c][b].max <= e}
  IN [WriteBackAll(t, c, F) EXCEPT !.overtaken = t.overtaken \cup Overtakes(t, c, F, a, e)]

\* releaseFlush and releaseFlushWithPF: every line whose first store is not
\* newer than the release.
releaseFlush(t, c, a, e) ==
  LET F == {b \in Dirty(t, c) \ {a} : t.meta[c][b].min <= e}
  IN [WriteBackAll(t, c, F) EXCEPT !.overtaken = t.overtaken \cup Overtakes(t, c, F, a, e)]

releasePersist(t, c, a) ==
  LET found == searchSyncMap(t.sync[c], {a}) IN
  IF found = {} THEN t
  ELSE LET e == CHOOSE f \in found : TRUE IN
       [releaseFlush(t, c, a, e) EXCEPT
         !.sync[c] = deleteLowerFromSyncMap(deleteFromSyncMap(@, {a}), e)]

\* The condition of share, inval and the level-0 eviction, atom being the
\* atom_type of the line.
Persist(t, c, a, atom) ==
  CASE pmodel = "BEPB" -> epochPersist(t, c, a)
    [] pmodel # "BEPB" /\ atom # "NON" -> releasePersist(t, c, a)
    [] OTHER -> t

\* The owners in O of block a lose the line: at most one of them.
PersistOwners(t, O, a) ==
  IF O = {} THEN t
  ELSE LET c == CHOOSE c \in O : TRUE IN Persist(t, c, a, t.meta[c][a].atom)
----------------------------------------------------------------------------
(***************************************************************************)
(* The stages of an access of core c to block a; ins is its stamp.         *)
(***************************************************************************)
\* Mutant: lines of the epoch the barrier closes are left dirty.
BarrierFlushEarly(t, c, a, op, ins) ==
  IF pmodel = "FBRP" /\ op = "WR" /\ ins.atom = "FULL"
  THEN WriteBackAll(t, c, {b \in Dirty(t, c) : t.meta[c][b].max < ins.ins - 1})
  ELSE t

\* Mutant: a line that is written again in a later epoch is not written back.
BarrierFlushMerged(t, c, a, op, ins) == t

\* fullBarrierFlush, and the same-block conflict of buffered epochs: the lines
\* of earlier epochs are written back, and so is the line itself (CLWB).
BarrierFlush(t, c, a, op, ins) ==
  CASE pmodel = "FBRP" /\ op = "WR" /\ ins.atom = "FULL" ->
         WriteBackAll(t, c, {b \in Dirty(t, c) : t.meta[c][b].max < ins.ins})
    [] pmodel = "BEPB" /\ op = "WR" /\ a \in Dirty(t, c) /\ ins.ins > t.meta[c][a].max ->
         LET u == epochPersist(t, c, a) IN
         [u EXCEPT !.older[c] = [b \in Addr |-> IF b = a THEN {} ELSE @[b] \ {a}],
                   !.before[c] = @ \ {a},
                   !.overtaken = @ \cup {h \in {"conflict"} : u.older[c][a] # {}}]
    [] OTHER -> t

\* The level-0 replacement; frame is the state the reused frame is left in.
L1Replace(t, c, a) ==
  LET held == {b \in Addr : t.lines[b].l1[c] # "I"} IN
  IF t.lines[a].l1[c] # "I" \/ Cardinality(held) < L1Ways
  THEN {[s |-> t, frame |-> "I"]}
  ELSE {LET x == t.lines[v] IN
        IF x.l1[c] = "M"
        THEN LET u == PersistOwners(t, {c}, v)
             IN [s |-> Settle(u, v, WriteBack(u.lines[v], c)), frame |-> "I"]
        ELSE [s |-> Settle(t, v, [x EXCEPT !.l1[c] = "I"]), frame |-> x.l1[c]] :
        v \in held}

L2Replace(t, k, a) ==
  LET held == {b \in Addr : t.lines[b].l2[k] # "I"} IN
  IF t.lines[a].l2[k] # "I" \/ Cardinality(held) < L2Ways
  THEN {[s |-> t, frame |-> "I"]}
  ELSE {LET u == PersistOwners(t, Owners(t.lines[v]) \cap Children(k), v)
        IN [s |-> Settle(u, v, L2Evict(u.lines[v], k)), frame |-> t.lines[v].l2[k]] :
        v \in held}

DirReplace(t, a) ==
  LET held == {b \in Addr : t.lines[b].dir # "I"} IN
  IF t.lines[a].dir # "I" \/ Cardinality(held) < DirWays
  THEN {t}
  ELSE {LET u == PersistOwners(t, Owners(t.lines[v]), v)
        IN Settle(u, v, DirEvict(u.lines[v])) : v \in held}

\* Whether the caches asked to give block a up include the requester's own,
\* whose level-0 frame already carries the tag of a.
ReachesSelf(x, c, op, ph) ==
  LET k == Parent[c]
      y == Frame(x, c, ph)
  IN IF op = "WR" THEN x.l2[k] \in Owned \/ (k \in Targets(x) /\ y.l2[k] # "I")
     ELSE \/ x.l2[k] \in Owned
          \/ /\ x.l2[k] = "I" /\ x.dir \in Owned
             /\ Owner(x.sharers) = k /\ y.l2[k] \in Owned

\* The owner of a persists and gives it up; so does the frame of a clean
\* exclusive line that the requester has just retagged.
Grant(t, c, a, op, ins, ph1, ph2) ==
  LET x    == t.lines[a]
      self == ph1 = "E" /\ ReachesSelf(x, c, op, ph2)
      u    == PersistOwners(t, Owners(x) \ {c}, a)
      w    == IF self THEN Persist(u, c, a, ins.atom) ELSE u
  IN [s |-> Settle(w, a, Fill(w.lines[a], c, op, ph2)), self |-> self]
----------------------------------------------------------------------------
(***************************************************************************)
(* The line after the access.                                              *)
(***************************************************************************)
Min2(m, n) == IF m < n THEN m ELSE n
Max2(m, n) == IF m < n THEN n ELSE m

\* Mutant: the line forgets its first epoch.
StoredMutant(old, dirty, hit, ins) ==
  [atom |-> IF ins.atom = "NON" /\ hit THEN old.atom ELSE ins.atom,
   min  |-> ins.ins,
   max  |-> IF dirty THEN Max2(old.max, ins.ins) ELSE ins.ins]

\* The epochs of a store: merged into those of a dirty line.
Stored(old, dirty, hit, ins) ==
  [atom |-> IF ins.atom = "NON" /\ hit THEN old.atom ELSE ins.atom,
   min  |-> IF dirty THEN Min2(old.min, ins.ins) ELSE ins.ins,
   max  |-> IF dirty THEN Max2(old.max, ins.ins) ELSE ins.ins]

\* History: a store of semantics RELEASE or FULL comes after every store that
\* is still dirty; with epochs, so does every later store of the core.
Ordered(t, c, a, dirty, atom) ==
  LET barrier == atom \in {"RELEASE", "FULL"}
      epochs  == pmodel = "BEPB"
      front   == IF barrier THEN Dirty(t, c) \ {a} ELSE t.before[c]
      kept    == IF dirty THEN t.older[c][a] ELSE {}
  IN [t EXCEPT !.before[c]   = IF epochs THEN front ELSE {},
               !.older[c][a] = kept \cup (IF barrier \/ epochs THEN front \ {a} ELSE {})]

\* A store of core c to block a that found the line in state st.
AfterWrite(t, c, a, ins, old, st) ==
  LET dirty == st = "M"
      u == [Ordered(t, c, a, dirty, ins.atom) EXCEPT
              !.meta[c][a] = Stored(old, dirty, st # "I", ins)]
  IN IF ins.atom # "NON" /\ pmodel # "BEPB"
     THEN [u EXCEPT !.sync[c] = addSyncLine(@, a, ins.ins)] ELSE u

\* A load that missed leaves its semantics on the line, unless its own request
\* cleared the frame.
AfterReadMiss(t, c, a, ins, self) ==
  [t EXCEPT !.meta[c][a].atom = IF self THEN "NON" ELSE ins.atom]
----------------------------------------------------------------------------
\* The states an access of core c to block a can lead to.
Accessed(c, a, op, ins) ==
  LET b   == BarrierFlush(s, c, a, op, ins)
      st  == b.lines[a].l1[c]
      old == b.meta[c][a]
      Done(g) == IF op = "WR" THEN AfterWrite(g.s, c, a, ins, old, st)
                 ELSE AfterReadMiss(g.s, c, a, ins, g.self)
  IN IF ~LeavesL1(b.lines[a], c, op)
     THEN {IF op = "WR" THEN AfterWrite(b, c, a, ins, old, st) ELSE b}
     ELSE UNION {UNION {
            {Done(Grant(d, c, a, op, ins, p.frame, q.frame)) : d \in DirReplace(q.s, a)} :
            q \in L2Replace(p.s, Parent[c], a)} :
            p \in L1Replace(b, c, a)}

\* One memory request of core c, from msgHandler to the end of System::access.
Request(c, a, op, atom) ==
  LET ins     == Stamp(c, a, atom)
      tracked == a \in Tracked(ReceiverOf[c], a, atom)
  IN
  /\ ins.next <= MaxEpoch
  /\ op = "WR" /\ ~tracked /\ ins.ins # ownEpoch[c] => ForeignEpochs
  /\ s' \in Accessed(c, a, op, ins)
  /\ epoch' = [epoch EXCEPT ![c] = ins.next]
  /\ insEpoch' = [insEpoch EXCEPT ![ReceiverOf[c]] = ins.ins]
  /\ ownEpoch' = [ownEpoch EXCEPT ![c] = IF tracked THEN ins.ins ELSE @]
  /\ addrMap' = [addrMap EXCEPT ![ReceiverOf[c]] = Tracked(ReceiverOf[c], a, atom)]
  /\ UNCHANGED pmodel

Load(c, a)  == \E atom \in Atom : <<"RD", atom>> \in Program[c] /\ Request(c, a, "RD", atom)
Store(c, a) == \E atom \in Atom : <<"WR", atom>> \in Program[c] /\ Request(c, a, "WR", atom)

Next == \E c \in Core, a \in Addr : Load(c, a) \/ Store(c, a)

Spec == Init /\ [][Next]_vars
----------------------------------------------------------------------------
TypeOK ==
  /\ pmodel \in Models
  /\ s.lines \in [Addr -> LineState]
  /\ s.meta \in [Core -> [Addr -> [atom : Atom, min : 0..MaxEpoch, max : 0..MaxEpoch]]]
  /\ \A c \in Core : Entries(s.sync[c]) \subseteq [addr : Addr, epoch : 0..MaxEpoch]
  /\ \A c \in Core, a \in Addr :
       s.lines[a].l1[c] # "M" => s.meta[c][a].max = 0 /\ s.older[c][a] = {}
  /\ epoch \in [Core -> 0..MaxEpoch] /\ ownEpoch \in [Core -> 0..MaxEpoch]
  /\ insEpoch \in [Receiver -> 0..MaxEpoch]
  /\ addrMap \in [Receiver -> SUBSET Addr]

\* Release persistency: when a release is itself taken out of its cache, by a
\* conflict or an eviction, none of the stores that precede it in program order
\* stays behind dirty.  With BEPB the same of a store and the epochs before it.
ReleaseOrdered == "conflict" \notin s.overtaken

\* The same of the lines that epochPersist, releaseFlush or fullBarrierFlush
\* write back on behalf of another one, unless releaseFlush writes back a line
\* whose last store is newer than the release.
FlushOrdered == "flush" \notin s.overtaken

\* The same of those as well: a release barrier (RLSB, src/src/common.h:91)
\* holds for a release that releaseFlush takes along because its line also has
\* an earlier store.
MergedOrdered == "merged" \notin s.overtaken

\* A dirty release with older dirty stores is in the sync map, under an epoch
\* that makes releaseFlush find all of them.
ReleaseRegistered ==
  pmodel # "BEPB" => \A c \in Core, a \in Addr : s.older[c][a] # {} =>
    \E e \in searchSyncMap(s.sync[c], {a}) :
      \A b \in s.older[c][a] : s.meta[c][b].min <= e

\* FBRP: a full barrier leaves nothing dirty behind but its own line.
FullBarrierDrains ==
  [][\A c \in Core, a \in Addr :
       pmodel = "FBRP" /\ epoch'[c] = epoch[c] + 2 /\ Store(c, a)
         => Dirty(s', c) = {a}]_vars

\* The engine only writes back lines that MesiDirectory lets it write back.
Mesi == INSTANCE MesiDirectory WITH lines <- s.lines, Persistent <- TRUE
Coherent == Mesi!Spec
=============================================================================
