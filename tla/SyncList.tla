------------------------------ MODULE SyncList ------------------------------
(***************************************************************************)
(* The sync map of a level-0 cache (src/src/cache.cpp): a singly linked    *)
(* list of the release and acquire writes whose block has not been         *)
(* persisted, newest first, next to a size counter.                        *)
(*                                                                         *)
(* A map is a record: the entries reachable from head, in list order, and  *)
(* the counter.  An entry keeps the word address and the epoch.            *)
(***************************************************************************)
EXTENDS Integers, Sequences, SequencesExt

CONSTANT SyncmapSize      \* SYNCMAP_SIZE

EmptyMap == [list |-> <<>>, size |-> 0]

Entries(m) == Range(m.list)

\* Mutant: the new head is not linked to the old one.
addSyncLineUnlinked(m, w, e) ==
  [list |-> <<[addr |-> w, epoch |-> e]>>, size |-> m.size + 1]

\* Mutant: an entry of the same word is not looked for.
addSyncLineTwice(m, w, e) ==
  [list |-> <<[addr |-> w, epoch |-> e]>> \o m.list, size |-> m.size + 1]

\* Mutant: the entry takes the epoch before the release.
addSyncLineEarly(m, w, e) ==
  [list |-> <<[addr |-> w, epoch |-> e - 1]>> \o m.list, size |-> m.size + 1]

\* addSyncLine: an entry of the same word is overwritten in place, a new one
\* becomes the head.  A full map drops the entry and says nothing: the caller
\* gets a line that is in no list, never NULL.
addSyncLine(m, w, e) ==
  LET old == {i \in DOMAIN m.list : m.list[i].addr = w} IN
  IF old # {} THEN [m EXCEPT !.list[CHOOSE i \in old : \A j \in old : i <= j].epoch = e]
  ELSE IF m.size < SyncmapSize
  THEN [list |-> <<[addr |-> w, epoch |-> e]>> \o m.list, size |-> m.size + 1]
  ELSE m

\* One turn of the deletion loops: node i of the list is unlinked when it is in
\* D.  prev does not advance past a node that has become the head, and it does
\* advance to a node that has just been unlinked.
UnlinkStep(acc, i, D) ==
  LET cut == IF i \notin D THEN acc
             ELSE IF i = acc.head THEN [acc EXCEPT !.head = acc.next[i]]
             ELSE [acc EXCEPT !.next[acc.prev] = acc.next[i]]
  IN IF i = cut.head THEN cut ELSE [cut EXCEPT !.prev = i]

\* The loop over a list of n nodes: head and links after each of its turns.
Sweep(n, D) ==
  LET loop[i \in 0..n] ==
        IF i = 0 THEN [head |-> 1, prev |-> 1, next |-> [j \in 1..n |-> j + 1]]
        ELSE UnlinkStep(loop[i - 1], i, D)
  IN loop

\* The next node of the list is at: it is node i or lies behind it.
FollowStep(acc, i, list, next) ==
  IF i = acc.at THEN [at |-> next[i], seen |-> Append(acc.seen, list[i])] ELSE acc

\* What is found on the way from node head on, after each node of the list.
Follow(list, head, next) ==
  LET walk[i \in 0..Len(list)] ==
        IF i = 0 THEN [at |-> head, seen |-> <<>>] ELSE FollowStep(walk[i - 1], i, list, next)
  IN walk

\* The entries of a list that are still linked after the loop.
Survivors(list, D) ==
  LET swept == Sweep(Len(list), D)[Len(list)] IN
  Follow(list, swept.head, swept.next)[Len(list)].seen

\* The loop over the nodes D of map m: size drops once per node of D, whether
\* or not it is really unlinked.
Unlink(m, D) == [list |-> Survivors(m.list, D), size |-> m.size - Cardinality(D)]

\* deleteFromSyncMap, by the set W of words that share the block.
deleteFromSyncMap(m, W) == Unlink(m, {i \in DOMAIN m.list : m.list[i].addr \in W})

deleteLowerFromSyncMap(m, e) == Unlink(m, {i \in DOMAIN m.list : m.list[i].epoch < e})

\* Mutant: the first entry of the block is taken for the newest.
searchSyncMapMutant(m, W) ==
  LET hit == {i \in DOMAIN m.list : m.list[i].addr \in W} IN
  IF hit = {} THEN {} ELSE {m.list[CHOOSE i \in hit : \A j \in hit : i <= j].epoch}

\* searchSyncMap: the largest epoch among the entries of a block; {} is NULL.
searchSyncMap(m, W) ==
  LET hit == {x.epoch : x \in {y \in Entries(m) : y.addr \in W}} IN
  {e \in hit : \A d \in hit : d <= e}
=============================================================================
