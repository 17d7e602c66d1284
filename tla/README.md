# A TLA+ project for primesim (PriME with Lazy Release Persistency)

`src/src` is a multi-process simulator: Pin clients run the simulated program
and send batches of memory requests over MPI; one server process replays them
on simulated caches, a coherence directory, a network and a memory, and on top
of them implements several *persistency models*, which decide when a core's
dirty lines are written back to (persistent) memory. The values of the data are
not simulated. What has to be right is the state of the copies, the order of
the write-backs, and the hand-shakes between the processes.

Citations are `file:line` below `src/src`.

## 1. Inventory

| Component | State | Operations | Correct when |
|---|---|---|---|
| MESI directory protocol (`system.cpp`: `mesi_directory`, `share`, `inval`, `accessDirectoryCache`, `accessSharedCache`) | state of every line at every level; state and `sharer_set` of every directory entry | read, write, write-back, CLWB, eviction at each level, share/invalidate going down | one owner per block; the directory reaches every copy; a write-back finds an owned line above it |
| Cache arrays (`cache.cpp`) | sets of lines, LRU stamps, per-line `atom_type`, `min_epoch_id`, `max_epoch_id`, `dirty` | `accessLine`, `replaceLine`, `directAccess` | the replaced frame is never mistaken for the line it held |
| Sync map (`cache.cpp:607-818`) | linked list of releases with their epochs, `size` | `addSyncLine`, `searchSyncMap`, `deleteFromSyncMap`, `deleteLowerFromSyncMap` | a release whose line is still dirty is found, with its newest epoch |
| Persistency engine (`system.cpp`: `persist`, `epochPersist`, `releasePersist`, `releaseFlush`, `fullBarrierFlush`) | the fields above, the sync map | flush on a conflict, on an eviction, at a full barrier | no release leaves the cache before the stores it orders |
| Message handler (`prime.cpp`) | `prog_list`, `prog_count`, `epoch_id[]`, `addr_map`, `ins_mem` | one branch per message type | each request gets its core and its epoch; barriers and exits are consistent |
| Thread scheduler (`thread_sched.cpp`), uncore manager | `core_stat`, `core_map` | `allocCore`, `getCoreId`, `deallocCore` | a core serves one live thread |
| Core manager (`core_manager.cpp`, in Pin) | `thread_state`, `num_threads`, `barrier_counter`, `barrier_time`, semaphore, mutex, lock | thread start/finish, syscalls, `barrier`, request batches, `finishSim` | every thread leaves every barrier; replies reach who waits for them |
| Persist buffers (`pbuff.cpp`, `accessPersistBuffer` and `flushPersistBuffer` in `system.cpp`) | a FIFO of lines per core, dependency vectors, memory-controller queue | a write joins a line or gets a new one; the head leaves, after what it depends on | barriers separate what persists; the newest value of a block persists last; a dependent line persists after the release it read |
| Home allocation, network (`network.cpp`, `allocHomeId`) | mesh of links | `allocHomeId`, `getLoc`, `getLink`, `transmit` | every block has one home and every home serves blocks; a route uses links that exist, and no other pair of routers uses them |
| Page tables and TLB (`page_table.cpp`, `tlb_translate`) | `page_map`, `empty_page_num`, a TLB per core | `translate`, look-up, replacement | pages never share a physical page; a TLB is never out of date |
| DRAM, bus, queue models, XML parser, workloads | - | - | timing, I/O or third-party code |

**How they interact.** A Pin thread calls the core manager for each
instruction; `execMem` fills a batch that goes to the server as one MPI message
(tag: receiver thread) and waits for the delay (tag: its thread id).
`msgHandler` stamps each request of the batch with a core and an epoch and calls
`uncore_access`, which calls `System::access`. That call walks the hierarchy,
recursing upwards (`mesi_directory`), into the directory and downwards again
(`inval`, `share`), and calls back into the engine whenever an owned level-0
line is about to be lost; the engine in turn recurses upwards with write-backs
for *other* lines. Everything is shared, mutable state, and the `lockUp`,
`unlockUp`, `lockDown`, `unlockDown` methods of `Cache` guard nothing.

**What is hard.** (a) Recursive calls that modify lines their callers hold: a
replaced frame carries its new tag and its old state while the rest of the
access runs; a flush in the middle of an invalidation empties other lines, and
the directory entries they had. (b) Persist order: a line coalesces the stores
of several epochs, and the order in which lines leave a cache is decided by
other cores' accesses and by evictions at three levels. (c) The hand-written
list deletions of the sync map. (d) State that outlives a request in the
handler (`ins_mem`, `epoch_id[]`, `addr_map`). (e) Barriers across threads,
processes and the server, the inner one of them written with a counter that is compared with a count under
another lock, and a semaphore that stays set. (f) A FIFO whose lines take in later writes and which other cores
empty. (g) Arithmetic on addresses and coordinates that takes sizes for powers of two. `PROJECT.json` lists each hazard at its line.

**What the configuration files fix.** All 89 configuration files below `xml/` select a directory system with full-map
entries, `num_recv_threads` 1, `max_num_sharers` 6, 64 cores, and persistency
models 0, 1, 3, 4, 6, 7, 8 or 10; 75 of them a shared last-level cache in which the
directory is embedded, 14 a stand-alone directory; 40 have two private-side levels and 49 three.
With one receiver thread an access is atomic, and that is how it is modelled;
with several the accesses would interleave inside lines nobody locks.

## 2. Modules

```
MesiLine  <-  MesiDirectory  <-  MCMesiDirectory
   ^               ^ (refined by)
   |               |
   +--------  LazyPersistency  <-  MCLazyPersistency, LazyPersistencyProofs
                   |
SyncList  <--------+
   ^
SyncMap   <-  MCSyncMap
          <-  SyncMapProofs   ->  Induction

Server       <-  ServerProofs            (Server and CoreManager:
                                          checked as they are)
CoreManager  <-  CoreManagerProofs
   | refines
ThreadBarrier

PersistBuffer  <-  MCPersistBuffer
               <-  PersistBufferProofs
   
Mesh  <-  AddressPath  <-  MCAddressPath
               ^
               +---------  AddressPathProofs

MesiDirectory  <-  MesiDirectoryProofs
```

`CoreManagerProofs` and `AddressPathProofs` use `Induction` too.

**MesiLine** - what each routine of the protocol does to all the copies of *one*
block, as functions on a record: `l1[core]` and `l2[cache]`, the state at level
0 and at the last private-side level, `dir` and `sharers`, the directory entry.
"I" also stands for "no line". `Inval`, `InvalChildren`, `Share`,
`ShareChildren`, `DirRead`, `DirWrite`, `DirWriteBack`, `WriteBack` are the
routines of those names (the `Dir...` ones are the branches of
`accessSharedCache` and `accessDirectoryCache`, which are the same on the
state). `WriteFill` and `ReadFill` are what `mesi_directory` does from a level-0
miss to the fill. Three details that are easy to get wrong are kept:
`Frame` (the retagged frame with its old state), `Owner` of an empty set
(`*sharer_set.begin()` of an empty `std::set`, where the build reads 0), and that `inval`
stops at a cache that misses. The asserted impossibilities of the code are not
modelled as guards; they are properties.

**MesiDirectory** - the protocol for several blocks that compete for the ways of
one set of every cache and of one home directory. An action `Read(c, a)` or
`Write(c, a)` is one whole `System::access`: barrier flush, level-0 hit or
replacement, last-level replacement, directory replacement, then the grant. Two
decisions are left open: the LRU victim (any valid line) and the
lines a `persist` call writes back (any subset of the lines the core owns). So the
module over-approximates every persistency model, and what holds of it holds for each.

**SyncList / SyncMap** - the sync map as a record of the reachable list and the
counter; `UnlinkStep` is one iteration of the deletion loops with the `prev_line` handling of
the code, over an explicit `next` function, so that mislinked deletions show; `Sweep` is the loop, and
`Follow` walks the links from the head, as every reader of the list does, to find what is still on it (`Survivors`).
`SyncMap` drives it as the engine does (`Release`, `releasePersist`) against a
set that exact deletions would have left.

**LazyPersistency** - the engine on top of `MesiLine` and `SyncList`: epochs and
semantics of requests (`Stamp`, `Tracked`: `prime.cpp`), per-line epochs
(`Stored`), the flushes with their exact conditions, and their callers in the
order the code runs them. `pmodel` is one of BEPB, RLSB, FBRP; BBPF and RPPF
(proactive flushing) write back the same lines as BEPB and RLSB as long as the epoch is below
40000 (a literal of the code). An action is a request from `msgHandler` to the end of
`System::access`. History records what the machine forgets:
`older[c][a]`, the dirty lines whose stores must persist no later than line a;
`before[c]`, the lines dirty at the last barrier; `overtaken`, the ways in which
a line has left before one of its older lines (set once, never cleared); `ownEpoch[c]`, the
epoch a plain store of core c would carry if `ins_mem` were not shared. The ways are three: "conflict", the line was itself
taken out, by a conflict or an eviction; "flush", a flush wrote it back on behalf of another line; "merged", so did `releaseFlush`, and
the line had also been stored to after that release (`Overtakes`). Each has its property: `ReleaseOrdered`, `FlushOrdered`, `MergedOrdered`.
The lines written back for one conflict, the conflicting line included, count as leaving together: two lines that both take stores of two
epochs are each older than the other, and no order of whole lines would do; the order inside a flush is that of the array.

**Server** - the process around all this: every branch of `msgHandler` for one
receiver thread (`Starting`, `Finishing`, `Barriers`, `NewThread`,
`ThreadFinishing`, `Requests`, `Exiting`) with the core allocation of `thread_sched.cpp`,
and the clients as the server sees them (`core_manager.cpp`): `startSim`,
`threadStart`, `execMem`, `sysBefore`, `sysAfter`, `threadFini`, `barrier`,
`LeaveBarrier`, `finishSim`, `Exit`. MPI is a FIFO channel from each process to the server and one per
process and tag back; `Receive` and `LeaveBarrier` take whatever comes with their
tag, as `MPI_Recv` does. The handler answers and never waits, so a branch is one action.
The barrier among the threads of one process is abstracted: `barrier(p)` is its last
counted thread arriving at a moment when an inter-process barrier is due, which
may be any moment. The time a request takes is any member of `Delays`. Any thread may be left out of a barrier by a system call
and come back in it. `Tag0Shared` says whether thread 0 may then send a batch, whose answer has the tag of the barrier's.

**ThreadBarrier** - what the barrier of a process promises, with sets only: threads join and quit;
those that run arrive; when all that take part wait, the barrier closes and opens; the
ones let go leave before the next one can start to wait. Clocks, the mutex and the semaphore do not occur in it.

**CoreManager** - the threads of one process. `thread_lock` makes `threadStart`, `threadFini`,
`sysBefore` and `sysAfter` one step each; `barrier()` does not take it and is split at its shared accesses:
`exec` (an instruction and the test at the top), `solo` (line 196), `lock`, `spin` (the scan for threads still in
the previous barrier), `count`, `test` (the comparison with `num_threads`), `open`, `leave` and `recheck` (the second
comparison, after a timeout). `Due` has the two different expressions by which the two places decide whether the processes meet.
Clocks are numbers; an instruction takes a member of `Costs`, a batch one of `Delays`.
The refinement mapping names the threads the counter stands for (`Counted`) and lets a counter of 0 say that they are leaving.

**PersistBuffer** - delegated persist ordering (`NONB` with `pbuff_enabled`). `Access` is one `System::access`:
what the directory answers (`accessSharedCache`, with the fields of the previous owner that are not initialised),
the copies at level 0 (`Coherence`), the dependency (`DepsAfter`), and for a write the buffer (`accessPersistBuffer`).
`access` is `PBuff::access`, `Leaving` and `Flushed` are what leaves to make room. `malloc`ed vectors are not cleared, so a line
may flush other buffers up to any block. `entered[c]` is the part of the memory controller queue that came from core c, in order: the queue is a FIFO
and its draining changes nothing about the order. Each line records the first and the last write it has taken in.

**Mesh / AddressPath** - `Mesh` has the functions: coordinates, links, routing, homes, and what `addrParse` and
`addrCompose` keep of a block. `AddressPath` walks: `Access` translates by TLB and page table and finds the
home, `Hop` is one turn of a loop of `transmit`, `Arrive` makes the home answer.
Two cores run threads; the network is any of `Nets`.

The `MC*` modules give topologies and programs for TLC. Definitions named
`...Mutant` (or after what they break) are the faulty variants used to make sure
that each property can fail; no specification uses them.

## 3. Runs

In the caches, the engine, the buffers and the address path nothing is a promise of progress (an access is a
terminating function call), so no fairness is assumed there. `Server` has
`WF_vars(Serve)` (the receiver loops over a blocking receive from any source) and
`WF_vars(Client(p))` for each process: the operating system runs a process that can go
on, and the system calls its threads wait in return. `CoreManager` has `WF_vars(Step(t))` for each
thread: the operating system runs it when it can go on, and a call that does not suspend the thread returns; a call that
suspends it (futex wait, `wait4`, `waitid`) need not, and threads need not be started. Weak fairness is enough because
what a waiting thread needs is stable: the semaphore stays set until the next barrier, and the next barrier's first thread waits for it.

| Run | Instance | What it shows |
|---|---|---|
| `mesi` | 3 cores, two of them under one last-level cache; blocks compete for the ways at every level; 1 pointer per directory entry; flushes on | one owner, write-backs find their line, the directory reaches every last-level copy across the overflow to broadcast, upgrades are registered, and the inductive invariant `CoherenceInv` itself |
| `syncmap` | 4 words in 3 blocks, 6 releases, every order of departures | nothing live is cut off, look-ups return the newest epoch, one entry per word |
| `lazy_release` | BEPB, RLSB and FBRP, 2 cores, 3 blocks, 2-way sets at three levels; plain, release and full-barrier stores and loads of one core, stores of the other | a release (with BEPB, any store) that a conflict or an eviction takes out leaves no older store behind; dirty releases are registered; full barriers drain; every step of the engine is a step of `MesiDirectory` (refinement: `Mesi!Spec`) |
| `lazy_flush` | the three models, epochs 0 to 3, 4 blocks, three dirty lines at once in the 3 ways of level 0; the other core loads and acquires | nor does a line that a flush writes back, unless it is merged: stored to again after the release that is flushed |
| `lazy_merged` | RLSB, epochs 0 to 3, 3 blocks in 3-way sets | **violated**: a merged line takes a later release along, see findings |
| `lazy_one_receiver` | RLSB, two *releasing* cores on one receiver | **violated**, see findings |
| `server` | 2 processes of 2 threads, a core for each; every thread may wait in system calls and come back in a barrier, but thread 0 sends no batch in one; 2 inter-process barriers | cores are exclusive, answers reach who waits for them, nobody laps a barrier, the server exits last, and it does exit |
| `threads` | 3 threads, 2 processes of which the other may leave, 2 intervals to a process interval, one system call per thread | `barrier()` is a `ThreadBarrier` (refinement), it opens only for threads that have reached it, both places that open it agree on the processes, and every waiting thread gets out |
| `pbuff` | 2 cores that write and release 2 blocks, buffers of 2 lines; core 1 also reads | barriers stay between what comes before and after, the writes to a block persist in order, nothing joins across an acquire |
| `pbuff_dep` | the same | **violated**, see findings |
| `address` | 6 meshes: full, with an incomplete row, without its last plane, of one node; 3 pages of 2 programs, a TLB of one entry, 3 and 4 sets | translation, homes, frames, routes |
| `address_victim` | 5 sets | **violated**, see findings |

**Bounds, and why they are enough.** Blocks that outnumber the ways make each level
evict, with the line of interest as victim or as bystander; the three cores of `mesi` give siblings under a cache next to
a stranger. `MaxSharers` 1 makes the second reader overflow (the configurations say 6); `KeepDirOnWB` TRUE and
private last-level caches for all cores are covered by the proofs. `MaxEpoch` 2 (3 epochs) is enough for a line to coalesce stores
from before and after a release and for one full barrier (it takes two epochs). What a flush leaves behind needs one more and a third dirty
line, besides the release and the line that leaves: `MaxEpoch` 3 and 3 ways in `lazy_flush` and `lazy_merged`. In `lazy_flush` only level 0 evicts;
evictions of the last level and of the directory, which call the same `persist`, are in `lazy_release`. `SyncmapSize` 10
and `AddrMapSize` 10 are above what four blocks can fill, as 10000 and 1000000
are above what the workloads fill. Blocks are interchangeable
and are declared symmetric; cores and caches are not, since `Cache0` and the topology tell them apart.
`syncmap` stops by itself when the epochs are used up and the map is empty, the simulation of `server` ends, and the threads of
`threads` finish, hence `CHECK_DEADLOCK FALSE` there and only there.

In `Server`, two processes and two rounds let a process be in a barrier while the other is
in it, has left it, has finished or has not started threads; `MaxWork` (batches and
waits of a process) 2 lets thread 0 wait, miss a barrier, come back in it and send a batch, or two threads be in the middle of one each.
`Tag0Shared` FALSE keeps that batch of thread 0 out of the barrier, and nothing else; with TRUE (and `MayWait` {0}) TLC
finds `InStep` and `RepliesExpected` violated (*Tag 0* in section 4). `StartsFirst` leaves out that
a process finishes before the server has received the start of another:
`MPI_Barrier` orders the clients, not their earlier messages. Without it
`ExitsLast` and `InStep` fail (the server counts no process left, and is told to exit, or counts too few in a barrier);
`prime.cpp:105` is in the hazards for that.

In `CoreManager`, three threads give one that opens, one that waits and one that is late, finishes, or is suspended. `MaxCycle` 4 with
intervals of 2 gives two barriers, the second of them one where the processes meet. `InOrder` says that Pin calls `threadStart` in the order of the
thread ids; without it the scan for waiting threads, which stops at `max_threads`, can miss one, and
`IsBarrier` fails. `ProcInterval` is a multiple of `Interval`, as the configurations are (10000 and 1000); with 3 and 2, `SameRounds` fails.
`Reached` allows the barrier one interval: a thread that read `barrier_time` before a barrier opened is counted for
the next one although its clock has not reached it; without that margin TLC finds it violated.

In `PersistBuffer`, buffers of two lines (the code has 4) are full after two writes, and the three writes of core 1 give a line that coalesces, a barrier and an eviction;
the buffer of core 2 is only flushed by core 1. The
directory and the last level have room for every block: the dependency an eviction there would lose is lost already when level 0 evicts, which is modelled.

The ordering runs `lazy_release`, `lazy_flush` and `lazy_merged` set `ForeignEpochs` to FALSE:
they leave out the behaviours in which a plain store is stamped with an epoch of *another*
core. Finding 1 is what happens in those. With it left out, the order breaks in one way, finding 2 (`lazy_merged`); the two passing runs show
that it holds for every other departure: for the line that a conflict or an eviction takes, and for every line that a flush takes along and that is not merged.
In these runs core c2 only loads or stores, to provoke conflicts. `lazy_one_receiver` follows the code without that restriction, and the proof of `Coherent` needs it nowhere.

## 4. Findings

1. `lazy_one_receiver` - `prime.cpp:248-258` sets `ins_mem.epoch_id` only for
   tracked addresses; a plain store inherits the epoch of the last tracked
   request, of whichever core. With another core's larger epoch on it the line
   looks newer than the release that follows it, and `releaseFlush` skips it.
2. `lazy_merged` - "RELEASE BARRIER" (`common.h:91`): what precedes a release persists before it. `releaseFlush` (`system.cpp:2648`) takes a
   line along if its *first* store is not newer than the release, and with it whatever was stored there since. Store y (epoch 0), release x (1),
   release w (2), release y (3; the line keeps `min_epoch_id` 0). A conflict on x writes y back and leaves w dirty: the release of epoch 3 persists before that of epoch 2.
3. `pbuff_dep` - "Then, later flush all cahclines below that line"
   (`system.cpp:193`): a line with a dependency is to enter the memory controller queue after the line it depends on.
   `flushPersistBuffer` (`system.cpp:453`) looks that line up with `PBuff::access`, which answers NULL when a
   barrier is at or after it (`pbuff.cpp:79`). Only releases are depended on, their lines are barriers, and nothing is flushed.
4. `address_victim` - `addrCompose` (`cache.cpp:281`) puts index and tag side by side. The index is a remainder modulo `num_sets`, the tag
   counts multiples of 2^`index_bits`, and `index_bits` is `(int) log2(num_sets)`: they fit only when `num_sets` is a power of two.
   With 5 sets, block 5 has index 0 and tag 1, which compose to 4; so do 6 to 5 and 7 to 6, while blocks 0 to 4 come back as they were. 49 configurations give the
   directory 20480 sets. The victim of such a set gets the address of another block, which is then invalidated and written back in its place
   (`system.cpp:3590`). The frames themselves stay apart (`FramesApart`); to round `index_bits` up would end that.

The models show more, each with a change of a constant or a property that no run needs:

- *Inclusion.* The last-level eviction recalls only M and E lines (`system.cpp:1198`), and `inval` stops at a cache that
  misses: level-0 copies below a dropped shared line survive a later write elsewhere, although the comment at `system.cpp:1172` says "Inclusive
  caches". No second owner comes of it (`SingleOwner` is proved), so the damage is a stale *readable* copy.
- *Lower epochs.* `prev_line` of `deleteLowerFromSyncMap` may be a node it has just
  unlinked, so the next unlinking goes nowhere and an entry stays, although `system.cpp:3141` says "Delete all lower epoch ids". What
  should stay is never lost (`NothingLost`), and look-ups remain right (`NewestFound`).
- *Tag 0.* Inter-process barriers are answered on tag 0 (`prime.cpp:126`), like the batches of thread 0 (`prime.cpp:299`). When thread 0 was in a waiting
  system call as its process entered the barrier, it can come back and send a batch. The barrier's `MPI_Recv` (`core_manager.cpp:151`) takes the delay for its answer
  and for `num_procs`, and the process goes on although the other has not entered, against "periodic barriers across all threads within one process and
  all processes" (`core_manager.cpp:103`): with `Tag0Shared` TRUE in `server`, `InStep` fails at the end of 20 states.
- *Cores.* `deallocCore` tests `core_stat[core_id] == 1` (`thread_sched.cpp:80`), but `core_stat` holds the rank of the
  process: only rank 1 gives cores back, and with fewer cores than threads the server aborts for want of cores while some are idle.
- *Sync map overflow.* A full sync map drops the release (`cache.cpp:713`), and the flush announced at `system.cpp:919` never happens: with
  `SyncmapSize` 1, `ReleaseRegistered` fails.
- *Releases that join.* "write+barrier must always start a new epoch" (`system.cpp:331`), but a release that
  hits a plain line of its block joins it and leaves no barrier.

## 5. Proofs

**Coherence** (`MesiDirectoryProofs`), for every number of cores, caches
and blocks, every topology (`Parent` any function), every number of ways, both
directory policies, limited pointers or not, persistent or not:

| Theorem | Statement |
|---|---|
| `TypeCorrect` | `Spec => []TypeOK` |
| `Coherence` | `Spec => []CoherenceInv` |
| `NoTwoOwners` | `Spec => []SingleOwner` |
| `WriteBackSafe` | `Spec => []WriteBackFindsOwner` |
| `DirectoryComplete` | `Spec => []DirectoryReaches` |
| `UpgradesRegistered` | `Spec => UpgradeRegistered` |

Assumptions: `TopologyAssumption`, `PolicyAssumption` and `CapacityAssumption`
(each core has a cache above it, `Cache0` is a cache, flags are Booleans, ways positive).

*Argument.* `SingleOwner` alone is not inductive: whether a second owner can
arise depends on whether the directory knows the first. The invariant
is `TypeOK /\ CoherenceInv`, where `CoherenceInv` says of every block

- `L1OwnerBacked`: a level-0 owner is alone and the cache above it owns the block,
- `L2OwnerRegistered`: a last-level owner is the one sharer of an owned entry,
- `L2SharerTracked`: a shared last-level copy is in the sharer set, or the entry is in broadcast.

Nothing is said about shared level-0 copies, which is precisely
what the missing inclusion leaves unprotected. The invariant is local to a block, so the work is in
the first half of the module: each routine maps a good line to a good line (`WriteBackGood`,
`L2EvictGood`, `DirEvictGood`, `WriteFillGood`, `ReadFillGood`).
The second half lifts this to the stages of an access, each of which
keeps all lines good whatever subset of owned lines `persist` takes. `WriteFillGood` and `ReadFillGood` hold for
any left-over frame state: the retagged frame cannot be mistaken for an owner that matters.

**The sync map** (`SyncMapProofs`): `TypeCorrect`, `OneEntry`, `NothingCutOff` and `NewestWins` state `TypeOK`, `OneEntryPerWord`,
`NothingLost` and `NewestFound`, for any words, blocks and number of epochs. The last two assume `Roomy`: the words are finitely many and no more than
`SYNCMAP_SIZE` (10000, `cache.h:45`); a full map drops a release silently, and both fail. *Argument.* The deletion loop is a recursive
function of its turn. `SweepLoop` has its invariant: every node before `head` was to be deleted; from `head` on, each link goes to the next node or skips
just one, which was to be deleted; and `prev` is never ahead of the loop, nor behind the turn before once the head has been passed. `FollowLoop` and `SurvivorsFacts` conclude
that the list afterwards is part of what it was, with no word twice, and that it contains every entry that was not to be deleted. Nothing more is true (see *Lower epochs*
above): entries that were to go may stay. They do no harm because each of them is older than everything live (`LiveInv`), hence not what a look-up returns (`NewestWins`).
`Induction` is what the loops need and the library does not give
in a form the provers can use: a set of numbers with 0 that is closed under successor is everything (`NatInduct`, `BoundedInduction`), and a function defined by its
value at 0 and a step exists, up to a bound (`RunExists`) or on all numbers (`SequenceExists`), so that the value of a recursive function can be unfolded.

**The engine is coherent** (`LazyPersistencyProofs`): `EngineCoherent` is `Spec => Coherent`: whatever lines the engine chooses
to persist, for any program, persistency model, number of epochs, topology and cache size, what it does to the copies is a behaviour of
`MesiDirectory`. With `Coherence` above it follows that no flush in the middle of an access ever breaks the protocol. *Argument.* Stage by
stage: each operator of the engine maps the lines of its state to lines that the operator of `MesiDirectory` for that stage
allows (`PersistLines`, `L1ReplaceLines`, `L2ReplaceLines`, `DirReplaceLines`, `GrantLines`); epochs, sync map and history only decide which.
No invariant is needed except that the state is a record with lines; `SameRoutines` says that the two modules share the routines of `MesiLine`.

**Stores persist in order** (`LazyPersistencyProofs`): `EngineTyped`, `ReleasesOrdered`, `FlushesOrdered`, `ReleasesRegistered` and `BarriersDrain` state
`TypeOK`, `ReleaseOrdered`, `FlushOrdered`, `ReleaseRegistered` and `FullBarrierDrains`, for any topology, programs, cache sizes and number of
epochs. `EngineTyped` assumes nothing but `TopologyAssumption`, `PolicyAssumption` and `EngineAssumption`. The others need one or both of:

- `OwnStamps`: no store carries another core's epoch. It holds when every core has a receiver of its own, or
  when untracked stores with a foreign epoch are left out as in `lazy_release` and `lazy_flush`. Otherwise the code breaks
  the order: `lazy_one_receiver` is the counterexample (finding 1). It is all that `FlushesOrdered` assumes.
- `Roomy` (for `ReleasesOrdered` and `ReleasesRegistered`): the blocks are no more than `SYNCMAP_SIZE`. A full sync map drops a release; with
  `SyncmapSize` 1 TLC finds `ReleaseRegistered` violated in `lazy_release`. With buffered epochs only, `ReleasesOrdered` does without it.

*Argument.* None of the properties is inductive: they speak of the history at the end of an access, and what keeps it right is how the epochs on
the lines relate to what must persist first. The invariant `Engine(s)` is local to a state record and holds between any two stages of an access:
types, a coherent directory (`GoodLines`, from `MesiDirectoryProofs`), sound sync maps (from `SyncMapProofs`), and `Tidy`: only dirty lines have epochs,
and what is older than a line is dirty too. `Timed(s, Clock)` adds the order. `Clock` is what no epoch on a core's dirty lines exceeds: its counter, with BEPB
its last stamp, because a line written by an `ACQUIRE` or after one is stamped before the counter moves on. With BEPB an older line has a smaller epoch (`EpochOrdered`), so
`epochPersist` takes all of them; otherwise a line that has older ones is not `NON` and the newest entry of its block covers their first epochs (`Listed`), so
`releaseFlush` does. For the lines it takes along (`FlushOrdered`) the epoch of a release is larger than the first epoch of every line it comes after (`Spanned`): if such
a line leaves because its last store is not newer than the release that is flushed, then the lines it waits for have a first store that is not newer either, and leave with it. A merged
line has a newer last store, and there the argument, like the order, ends. A persist makes an exception true (`TimedBut`): the line that is about to leave
waits for nothing any more (`PersistStep`, `PersistOwnersStep`), and then it may leave (`SettleTimed`). Replacements and grants keep `Timed` on a fixed
clock (`L1ReplaceStep`, `L2ReplaceStep`, `DirReplaceStep`, `GrantStep`). The store is the step that could break it. It must find its
entry added and every line it waits for with an epoch no larger than its own (`AfterWriteTimed`); with BEPB this is why `BarrierFlush` must write a line of an earlier epoch
back before it is written again (`Fresh`). `RequestClock` shows that `msgHandler` hands out such epochs.

**The thread barrier** (`CoreManagerProofs`): `BarrierImplemented` is `InOrder` implies `Spec => IsBarrier`, for any number of
threads, any clocks, costs, intervals and system calls. *Argument.* The counter is the number of threads it stands for as long as nobody is
leaving, and 0 afterwards; the proof's invariant `IInv` says that, with the cardinalities (`Numbers`: the
counter, `num_threads` and `max_threads` are the sizes of `Counted`, `Taking` and of the started threads),
that only the holder of the mutex is between `spin` and `open` (`Mutual`), and when the semaphore may be set or clear while threads leave (`Steady`).
`InOrder` is needed for the scan: it makes `Scanned` contain every thread that ever started. Each action then is a step of `ThreadBarrier` or a stutter.

`ThreadsTyped`, `BarrierTimes` and `RoundsAgree` state `TypeOK`, `Reached` and `SameRounds`, under `InOrder` too; the last one also assumes
that `ProcInterval` is a multiple of `Interval` (10000 and 1000 in every configuration under `src/xml`), without which the two rules differ.
*Argument.* `Timely` holds while `num_procs > 1`, when nobody runs `solo`: `barrier_time` is a multiple of the interval
(`Grid`), and whoever is on the way to a barrier or counted in it has reached its time or the last one (`Late`). A barrier may open between a thread's look at
`barrier_time` and its turn with the mutex, which costs it one interval. It cannot happen twice, since to close a barrier the counter must equal `num_threads`,
hence nobody is between the look and the mutex (`NobodyAtLock`); what makes it inductive is that such a thread is a whole interval ahead while a
barrier is closing. For the clocks, `SumOfClocks` and `LatestClock` show that `getAvgCycle` returns a number whatever threads are active.

**The persist buffers** (`PersistBufferProofs`): `BuffersTyped`, `BarriersOrdered`, `NewestWriteLast` and `AcquiresOpenLines` state `TypeOK`,
`EpochsInOrder`, `NewestLast` and `AcquiresSeparate` for any number of cores, blocks, writes and lines of a buffer, from `PersistBufferAssumption` alone.
*Argument.* All that a core wrote is one sequence, `Order(c)`: what entered the memory controller queue, then the buffer. A flush moves lines across the
boundary and leaves the sequence as it is (`MoveFront`), whoever asks for it and whatever the uninitialised vectors name. A write appends to it
(`GoodNew`) or is taken in by a line behind which there is neither a barrier nor a line of its block (`AccessFound`, `GoodJoin`). The properties are
not inductive by themselves: a line that takes in a write could swallow an acquire. The invariant `Good` adds that lines hold numbers up to the last write
(`Dated`) and that every acquire has a barrier made by the next write, or still waits for it in `has_dp` (`Marked`), so a line that is
free to take in a write lies behind every acquire.

**The address path** (`AddressPathProofs`): `PathTyped`, `PagesKeptApart`, `LinksAllocated`, `WaysShortest`, `LinksNotShared`, `HomesBalanced` and
`FramesKeptApart` state `TypeOK`, `PagesApart`, `LinkExists`, `ShortestWay`, `LinksApart`, `HomesShare` and `FramesApart` for any pages, TLB and page
size, for meshes of any size, any number of homes and any number of sets. *Argument.* Links:
the coordinates of a node are below the width in every direction (division with remainder), and a hop stays between where it is and where it goes,
so each index lies in its range although `getLink` tests only two of three; within one
range of the last index a link determines its axis and its lower end. Ways: a hop lowers the distance by one. Pages: numbers below
`empty_page_num` are used once, and TLBs and messages hold pairs of `page_map`, which only grows. TLBs: a page has one translation, so a fill
adds one entry, after an entry has left if every way was taken (`FillFits`). Homes: the least power of two that has room for them is less than
twice their number (`HomeBits`), so a number beyond the last home loses one bit and meets one home (`HomeServes`). Frames: two blocks with the
same tag are less than `num_sets` apart, since the tag starts no higher than `num_sets` (`IndexBits`), and two with the same index are a multiple
of it apart (`SameFrame`). The rounded logarithms are proved to exist (`Pow2Def`, by `SequenceExists`), not assumed; the only assumption is `AddressPathAssumption`.

**The server** (`ServerProofs`): `ServerTyped`, `CoresKeptApart`, `AnswersExpected`, `ServerExitsLast` and `NobodyLaps` state `TypeOK`,
`CoresExclusive`, `RepliesExpected`, `ExitsLast` and `InStep` for any number of processes, threads, cores, batches and barriers. They assume
`ServerAssumption` and two things. `StartsFirst`: no message overtakes a `PROCESS_STARTING`, without which `ExitsLast` is false (see above).
`Undisturbed`: thread 0 does not await the delay of a batch while its process is in an inter-process barrier (`TagsApart`), either because the bound
`Tag0Shared` is FALSE or because the behaviour never does it. It may wait in system calls like every other thread, be left out of a barrier and come back in it; what the code
does not exclude, and the theorems must, is the batch it sends then, with which `InStep` and `RepliesExpected` fail (*Tag 0* above). *Argument.*
The queues are first turned into predicates (`SendFacts`, `PopFacts`, `PutFacts`, `TakeFacts`, `PutAllFacts`): which messages are `Pending` and
what a thread has been answered (`Rep`). The invariant says for each process that who has sent a message or is answered is waiting for just that
(`Asks`, `Gets`) and that thread 0 starts first and neither starts nor asks in a barrier (`Threads`); over all processes, that `prog_list` holds exactly
those that have started and not finished (`Listed`), that `prog_count` is the number of those the server has counted and less than the list
(`Counted`), that as many barriers have opened for all that go on (`Rounds`), and that a core is given to one thread from the answer on (`Cores`). The
step that matters is the opening of a barrier, by a barrier message or by a `PROCESS_FINISHING`: the processes that wait are a subset of the list,
and once they are as many they are the whole list (`ProcSets`), so everybody who is answered waits and everybody who waits is answered.

**Only model-checked**: `Terminates` and `WaitEnds` are liveness and out of the prover's reach. Every other property of a passing run is stated by a theorem.

## 6. Abstractions, and what is not modelled

- One set per cache and one home in the cache models: lines of other sets interact only through
  flushes, which do not depend on sets. LRU order, delays, counters and
  DRAM timing are dropped, and so is the contention of links.
- Two private-side levels. 49 configurations have three; the middle one would
  add a recursion step in both directions.
- `dirty` at level 0 is "state M", except that a frame's bit is uninitialised
  until first set (`cache.cpp:180`): `MesiDirectory` lets the eviction of an
  exclusive line go either way; `LazyPersistency` takes 0. So are
  `epoch_id[]` (`prime.cpp:84`) and the first `epoch_id` of a core.
- One word per block in `LazyPersistency`; `SyncMap` has several.
- FLLB never fills the sync map and RLXB is not used; neither orders anything. The proactive
  variants (`epochPersistWithPF`, `releaseFlushWithPF`) write back the lines of `epochPersist` and `releaseFlush` and differ in
  delays and counters, except that they give up at epoch 40000.
- CLWB changes no state above level 0 (its branches only add delays).
- A thread may be ended while it waits in a system call, when its process ends as a whole. `threadFini` then takes it out of `num_threads` a
  second time (`core_manager.cpp:334`, after line 359). Neither `CoreManager` nor `Server` has this step. In a copy of `CoreManager` that does, TLC finds
  `IsBarrier`, `WaitEnds` and `Reached` violated and `num_threads` at -1; in `Server`, where the threads' barrier is abstract, it would only hide that.
- `getAvgCycle` (`core_manager.cpp:202-224`) computes a double from clocks it reads one by one while other threads run; `AvgCycle` rounds down and reads all in one step. No property
  depends on the value: of it the proofs use only that it is a natural number.
- The memory controller queue of `PersistBuffer` never fills. `accessMCQBuffer` (`system.cpp:472-495`) removes its head to DRAM before it inserts into a full one, which changes no order;
  with one receiver the error branch of `MCQBuff::insert` (`pbuff.cpp:223`), which would lose the line, is not reached.
- `thread_state` is not volatile and `spin` reads it without a lock; the model takes each read from memory.
- Not modelled: the bus protocol (no configuration selects it), vendored Graphite
  queue models, DRAM, XML parsing, statistics and scripts. `src/pbench`, by far the larger part of the
  repository's lines, is the vendored Synchrobench suite: workloads that run under the simulator and are not part of it.

## 7. Plan

Done: the coherence protocol and its proofs; the sync map; the persistency engine and its refinement; the server; the threads of a
process, their refinement and its proof; the proofs about the server; persist buffers with proofs; home allocation, routing and
translation with proofs. What is left, the most important first:

1. **Server** with several receiver threads: `prog_list` under its mutex,
   `core[]` as the tag of a receiver, `PROGRAM_EXITING` to each of them; no configuration uses them.
2. A third private level in MesiLine.
3. The proactive flushing variants with their bound.
