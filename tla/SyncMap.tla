------------------------------ MODULE SyncMap ------------------------------
(***************************************************************************)
(* The life of one sync map: System::mesi_directory adds the releases of   *)
(* the core, System::releasePersist looks a departing block up, persists,  *)
(* and deletes its entries and those of all lower epochs.                  *)
(***************************************************************************)
EXTENDS SyncList

CONSTANTS
  Word,           \* words that are written with release or acquire semantics
  BlockOf,        \* the cache block of each word
  MaxEpoch        \* bound on the epochs of a behaviour

ASSUME EpochAssumption == MaxEpoch \in Nat

VARIABLES
  map,            \* the sync map
  epoch,          \* the epoch of the last release
  live            \* history: what exact deletions would have left

vars == <<map, epoch, live>>

WordsOf(w) == {v \in Word : BlockOf[v] = BlockOf[w]}

Entry == [addr : Word, epoch : 1..MaxEpoch]

TypeOK ==
  /\ map.list \in Seq(Entry) /\ map.size \in Int
  /\ epoch \in 0..MaxEpoch
  /\ live \in SUBSET Entry

Init == map = EmptyMap /\ epoch = 0 /\ live = {}

\* A write with release semantics starts an epoch and registers its word.
Release(w) ==
  /\ epoch < MaxEpoch
  /\ epoch' = epoch + 1
  /\ map' = addSyncLine(map, w, epoch')
  /\ live' = {x \in live : x.addr # w} \cup {[addr |-> w, epoch |-> epoch']}

\* releasePersist for the block of word w.
releasePersist(w) ==
  \E e \in searchSyncMap(map, WordsOf(w)) :
    /\ map' = deleteLowerFromSyncMap(deleteFromSyncMap(map, WordsOf(w)), e)
    /\ live' = {x \in live : x.addr \notin WordsOf(w) /\ x.epoch >= e}
    /\ UNCHANGED epoch

Next == \E w \in Word : Release(w) \/ releasePersist(w)

Spec == Init /\ [][Next]_vars
----------------------------------------------------------------------------
\* Whatever the deletion loops do to the links, no entry that should stay is
\* cut off: a lost entry means a release that never orders its predecessors.
NothingLost == live \subseteq Entries(map)

\* A departing block is looked up with the epoch of its newest registered
\* release, even when entries are overwritten in place or left behind.
NewestFound ==
  \A w \in Word :
    LET due == {x.epoch : x \in {y \in live : y.addr \in WordsOf(w)}} IN
    due # {} => searchSyncMap(map, WordsOf(w)) = {e \in due : \A d \in due : d <= e}

\* No word is registered twice, so overwriting the first match is enough.
OneEntryPerWord ==
  \A i, j \in DOMAIN map.list : map.list[i].addr = map.list[j].addr => i = j
=============================================================================
