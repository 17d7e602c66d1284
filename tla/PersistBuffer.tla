---------------------------- MODULE PersistBuffer ----------------------------
(***************************************************************************)
(* Delegated persist ordering: each core has a FIFO of the blocks it has   *)
(* written (src/src/pbuff.cpp), and coherence tells it on which core's     *)
(* release its next write depends (System::access, accessPersistBuffer and *)
(* the response fields of share, inval and accessSharedCache in            *)
(* src/src/system.cpp).                                                    *)
(*                                                                         *)
(* The directory and the last-level caches have room for every block; a    *)
(* level-0 cache may evict any block when it takes one in.                 *)
(***************************************************************************)
EXTENDS Naturals, Sequences, SequencesExt, FiniteSetsExt

CONSTANTS
  NumCores,       \* num_cores
  Block,          \* the addresses, one per block
  BufferSize,     \* PBUFF_SIZE
  Program,        \* the operations of each core, each with whether it is atomic
  MaxWrites       \* bounds on unique_write_id, by core

ASSUME PersistBufferAssumption ==
  NumCores \in Nat \ {0} /\ BufferSize \in Nat \ {0} /\ MaxWrites \in [1..NumCores -> Nat]

Core == 1..NumCores
None == 0               \* no core is known: previous_owner is not initialised
Op   == {"RD", "WR"}

VARIABLES
  dir,        \* the directory: state, sharers and previous owner of each block
  level0,     \* level0[c][b]: "none", or the atom_type of the copy, "NON" or "sync"
  acc,        \* acc[c]: has_dp, and what was put into dp_vector and dp_addr_vector
  buf,        \* buf[c]: the lines of the buffer of a core, the head first
  entered,    \* entered[c]: its lines that entered the memory controller queue, in order
  writes,     \* unique_write_id
  acquired    \* the writes after which a core found a dependency

vars == <<dir, level0, acc, buf, entered, writes, acquired>>

Dep == [core : Core, tag : Block, write : Nat]

Init ==
  /\ dir = [b \in Block |->
       [state |-> "I", sharers |-> {}, owned |-> FALSE, owner |-> None, sync |-> FALSE]]
  /\ level0 = [c \in Core |-> [b \in Block |-> "none"]]
  /\ acc = [c \in Core |-> [has |-> FALSE, on |-> {}]]
  /\ buf = [c \in Core |-> <<>>] /\ entered = [c \in Core |-> <<>>]
  /\ writes = [c \in Core |-> 0] /\ acquired = [c \in Core |-> {}]
----------------------------------------------------------------------------
(***************************************************************************)
(* Coherence.                                                              *)
(***************************************************************************)
Keeps(c, b) == level0[c][b] # "none"
Owns(c, b)  == dir[b].state = "X" /\ c \in dir[b].sharers

\* A hit in the private caches does not ask the directory.
Asks(c, b, op) ==
  IF op = "WR" THEN ~Owns(c, b)
  ELSE ~Keeps(c, b) /\ ~(dir[b].state = "S" /\ c \in dir[b].sharers)

\* The previous owner of a block, and the atom_type of its copy.
Owned(d, o, sync) == [d EXCEPT !.owned = TRUE, !.owner = o, !.sync = sync]

\* Only an owner that still has the block in level 0 answers share or inval
\* with its name.
Recalled(d, o, b) ==
  IF Keeps(o, b) THEN Owned(d, o, level0[o][b] = "sync")
  ELSE [d EXCEPT !.owned = TRUE]

\* An entry once core c has the block.
To(e, c, op) ==
  [e EXCEPT !.state = IF op = "WR" \/ @ = "I" THEN "X" ELSE "S",
            !.sharers = IF op = "WR" THEN {c} ELSE @ \cup {c}]

\* The fields of a previous owner have any value at first.
Known(d) ==
  IF d.owned /\ d.owner = None
  THEN {Owned(d, o, y) : o \in Core, y \in BOOLEAN}
  ELSE {d}

\* The entries that may result, each with whether it is reported as a
\* dependency.
accessSharedCache(c, b, op) ==
  LET d == dir[b]
      o == CHOOSE i \in d.sharers : TRUE IN
  CASE d.state = "I" ->
         {[entry |-> [To(d, c, op) EXCEPT !.owned = own], dep |-> FALSE] :
            own \in IF op = "WR" THEN {TRUE} ELSE BOOLEAN}
    [] d.state = "X" -> {[entry |-> To(Recalled(d, o, b), c, op), dep |-> Keeps(o, b)]}
    [] d.state = "S" -> {[entry |-> To(e, c, op), dep |-> d.owned] : e \in Known(d)}

\* The atom_type of the copy afterwards.  When a core reads again what it owns,
\* share can find the frame already under its new tag, in the old state.
AtomAfter(c, b, op, sync, victims) ==
  LET kind == IF sync THEN "sync" ELSE "NON" IN
  IF Keeps(c, b) THEN {IF op = "WR" /\ sync THEN kind ELSE level0[c][b]}
  ELSE {kind} \cup IF op = "RD" /\ Owns(c, b) /\ (\E v \in victims : Owns(c, v)) THEN {"NON"} ELSE {}

\* The copies in the level-0 caches.
Coherence(c, b, op, sync) ==
  \E victims \in {{}} \cup IF Keeps(c, b) THEN {} ELSE {{v} : v \in {x \in Block : Keeps(c, x)}} :
  \E atom \in AtomAfter(c, b, op, sync, victims) :
    level0' = [i \in Core |-> [x \in Block |->
      CASE i = c /\ x = b -> atom
        [] i = c /\ x \in victims -> "none"
        [] i # c /\ x = b /\ Asks(c, b, op) /\ op = "WR" -> "none"
        [] i # c /\ x = b /\ Asks(c, b, op) /\ Owns(i, b) /\ Keeps(i, b) -> "NON"
        [] OTHER -> level0[i][x]]]
----------------------------------------------------------------------------
(***************************************************************************)
(* The buffers.                                                            *)
(***************************************************************************)
\* Mutant: the search ends at the first line of the block.
accessFirst(s, b) ==
  LET hits == {i \in 1..Len(s) : s[i].tag = b} IN
  IF hits = {} \/ s[Min(hits)].barrier THEN 0 ELSE Min(hits)

\* Mutant: the search goes across barriers.
accessAcross(s, b) ==
  LET hits == {i \in 1..Len(s) : s[i].tag = b} IN
  IF hits = {} THEN 0 ELSE Max(hits)

\* PBuff::access: the last line of the block, or 0 if there is none or a
\* barrier at or after the first.
access(s, b) ==
  LET hits == {i \in 1..Len(s) : s[i].tag = b} IN
  IF hits = {} \/ \E i \in Min(hits)..Len(s) : s[i].barrier THEN 0 ELSE Max(hits)

\* What a core has written, in the order in which it becomes persistent.
Order(c) == entered[c] \o buf[c]

LastWrite(o, b) ==
  Max({0} \cup {l.last : l \in {m \in ToSet(Order(o)) : m.tag = b}})

\* How many lines flushPersistBuffer may take out of buffer i before a line.
\* The vectors come from malloc and are not cleared: what was not put into
\* them may name any address or none.
Flushed(line, i) ==
  LET known == {d.tag : d \in {x \in line.on : x.core = i}} IN
  IF known # {} THEN {access(buf[i], b) : b \in known}
  ELSE {0} \cup {access(buf[i], b) : b \in Block}

\* Mutant: the buffer is found full one line too late.
LeavingMutant(c) ==
  LET head == Head(buf[c]) IN
  IF Len(buf[c]) <= BufferSize THEN {[i \in Core |-> 0]}
  ELSE {f \in [Core -> 0..BufferSize] :
          \A i \in Core : f[i] \in IF i = c THEN {1} ELSE IF head.has THEN Flushed(head, i) ELSE {0}}

\* How many lines leave each buffer to make room for one in buffer c: the
\* head leaves, after what it depends on.
Leaving(c) ==
  LET head == Head(buf[c]) IN
  IF Len(buf[c]) < BufferSize THEN {[i \in Core |-> 0]}
  ELSE {f \in [Core -> 0..BufferSize] :
          \A i \in Core : f[i] \in IF i = c THEN {1} ELSE IF head.has THEN Flushed(head, i) ELSE {0}}

\* Mutant: a write after an acquire may join an older line.
HitMutant(c, b, deps) == access(buf[c], b)

\* The line that a write joins; after an acquire, a line of its own.
Hit(c, b, deps) == IF deps.has THEN 0 ELSE access(buf[c], b)

\* A write of a core, with the dependencies that were found before it.
accessPersistBuffer(c, b, sync, deps) ==
  LET id  == writes[c] + 1
      hit == Hit(c, b, deps)
      new == [tag |-> b, barrier |-> sync \/ deps.has, has |-> deps.has,
              on |-> IF deps.has THEN deps.on ELSE {}, first |-> id, last |-> id]
  IN
  /\ writes' = [writes EXCEPT ![c] = id]
  /\ IF hit > 0
     THEN /\ buf' = [buf EXCEPT ![c][hit].last = id]
          /\ acc' = [acc EXCEPT ![c] = deps] /\ UNCHANGED entered
     ELSE \E n \in Leaving(c) :
          /\ buf' = [i \in Core |-> SubSeq(buf[i], n[i] + 1, Len(buf[i]))
                                   \o IF i = c THEN <<new>> ELSE <<>>]
          /\ entered' = [i \in Core |-> entered[i] \o SubSeq(buf[i], 1, n[i])]
          /\ acc' = [acc EXCEPT ![c] = [has |-> FALSE, on |-> {}]]

\* What core c depends on, once coherence has answered: a later answer of the
\* same core replaces the earlier one.
DepsAfter(c, b, answer) ==
  LET o == answer.entry.owner IN
  IF answer.dep /\ answer.entry.sync
  THEN [has |-> TRUE,
        on  |-> {d \in acc[c].on : d.core # o}
                \cup IF o = c THEN {} ELSE {[core |-> o, tag |-> b, write |-> LastWrite(o, b)]}]
  ELSE acc[c]

\* System::access
Access(c, b, op, sync) ==
  \E answer \in IF Asks(c, b, op) THEN accessSharedCache(c, b, op)
                 ELSE {[entry |-> dir[b], dep |-> FALSE]} :
  LET deps == DepsAfter(c, b, answer) IN
  /\ op = "WR" => writes[c] < MaxWrites[c]
  /\ dir' = [dir EXCEPT ![b] = answer.entry]
  /\ Coherence(c, b, op, sync)
  /\ acquired' = [acquired EXCEPT ![c] =
       IF deps.has /\ ~acc[c].has THEN @ \cup {writes[c]} ELSE @]
  /\ IF op = "WR" THEN accessPersistBuffer(c, b, sync, deps)
     ELSE acc' = [acc EXCEPT ![c] = deps] /\ UNCHANGED <<buf, entered, writes>>

Next == \E c \in Core, b \in Block, op \in Op, sync \in BOOLEAN :
          <<op, sync>> \in Program[c] /\ Access(c, b, op, sync)

Spec == Init /\ [][Next]_vars
----------------------------------------------------------------------------
Line == [tag : Block, barrier : BOOLEAN, has : BOOLEAN, on : SUBSET Dep,
         first : Nat, last : Nat]

TypeOK ==
  /\ \A b \in Block : dir[b].sharers \subseteq Core /\ dir[b].owner \in Core \cup {None}
  /\ \A c \in Core : acc[c].on \subseteq Dep /\ Len(buf[c]) <= BufferSize
  /\ \A c \in Core : \A l \in ToSet(Order(c)) : l \in Line /\ (l.has => l.barrier)

\* A barrier of a core persists after every write before it and before every
\* write after it, although lines take in later writes and other cores may
\* flush part of the buffer.
EpochsInOrder ==
  \A c \in Core : LET s == Order(c) IN
    \A i, j \in 1..Len(s) : i < j /\ (s[i].barrier \/ s[j].barrier) => s[i].last < s[j].first

\* The writes of a core to one block persist in program order: the value
\* that memory ends with is the newest.
NewestLast ==
  \A c \in Core : LET s == Order(c) IN
    \A i, j \in 1..Len(s) : i < j /\ s[i].tag = s[j].tag => s[i].last < s[j].first

\* No write made after an acquire joins a line from before it.
AcquiresSeparate ==
  \A c \in Core : \A l \in ToSet(Order(c)) : \A w \in acquired[c] : ~(l.first <= w /\ w < l.last)

\* "Then, later flush all cahclines below that line" (src/src/system.cpp:193):
\* a line persists after the write of the other core that it depends on.
DependencyFirst ==
  \A c \in Core : \A l \in ToSet(entered[c]) : \A d \in l.on :
    d.write > 0 => \E m \in ToSet(entered[d.core]) : m.tag = d.tag /\ m.last >= d.write
=============================================================================
