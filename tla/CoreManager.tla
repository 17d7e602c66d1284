----------------------------- MODULE CoreManager -----------------------------
(***************************************************************************)
(* The threads of one simulated process in src/src/core_manager.cpp: they  *)
(* start, execute, make system calls and finish, and they meet in periodic *)
(* barriers built from a counter, a mutex and a semaphore that stays set   *)
(* until it is cleared.                                                    *)
(*                                                                         *)
(* thread_lock makes each of threadStart, threadFini, sysBefore and        *)
(* sysAfter one step; barrier() does not take it, and is modelled at the   *)
(* granularity of its accesses to shared variables.  Memory requests only  *)
(* contribute their delay.                                                 *)
(***************************************************************************)
EXTENDS Integers, FiniteSets, FiniteSetsExt

CONSTANTS
  MaxTid,         \* thread ids are 0..MaxTid
  NumProcs,       \* num_procs at the start
  Interval,       \* thread_sync_interval
  ProcInterval,   \* proc_sync_interval
  Costs,          \* cycles that an instruction may take
  Delays,         \* cycles that the batch sent before a barrier may take
  SyscallCost,    \* syscall_cost
  InOrder,        \* threadStart is called in the order of the thread ids
  MaxCycle,       \* bound: a thread that got here only finishes
  MaxCalls        \* bound on the system calls of a thread

Tid == 0..MaxTid
None == -1

ASSUME CoreManagerAssumption ==
  /\ MaxTid \in Nat /\ NumProcs \in Nat \ {0} /\ MaxCycle \in Nat /\ MaxCalls \in Nat
  /\ Interval \in Nat \ {0} /\ ProcInterval \in Nat \ {0} /\ ProcInterval >= Interval
  /\ Costs \subseteq Nat \ {0} /\ Delays \subseteq Nat /\ SyscallCost \in Nat
  /\ InOrder \in BOOLEAN

VARIABLES
  pc,             \* where each thread is in the code
  state,          \* thread_state
  cycle,          \* the clock of each thread
  calls,          \* system calls made
  numThreads, maxThreads, numProcs,
  barrierCounter, barrierTime,
  sem,            \* the semaphore is set
  mutex           \* who holds the mutex

threadVars  == <<pc, state, cycle, calls>>
barrierVars == <<barrierCounter, barrierTime, sem, mutex, numProcs>>
vars == <<threadVars, barrierVars, numThreads, maxThreads>>

\* init and startSim
Init ==
  /\ pc = [t \in Tid |-> "dead"]
  /\ state = [t \in Tid |-> "DEAD"]
  /\ cycle = [t \in Tid |-> 0] /\ calls = [t \in Tid |-> 0]
  /\ numThreads = 0 /\ maxThreads = 0 /\ numProcs = NumProcs
  /\ barrierCounter = 0 /\ barrierTime = Interval
  /\ sem = FALSE /\ mutex = None

Goto(t, label) == pc' = [pc EXCEPT ![t] = label]
SetState(t, s) == state' = [state EXCEPT ![t] = s]
----------------------------------------------------------------------------
\* A new thread continues the clock of its parent, or that of thread 0 if
\* the parent is not found among the first max_threads ids.
threadStart(t) ==
  /\ pc[t] = "dead" /\ (InOrder => t = maxThreads)
  /\ \E i \in {0} \cup 0..maxThreads - 1 : cycle' = [cycle EXCEPT ![t] = cycle[i]]
  /\ numThreads' = numThreads + 1 /\ maxThreads' = maxThreads + 1
  /\ SetState(t, "ACTIVE") /\ Goto(t, "run")
  /\ UNCHANGED <<calls, barrierVars>>

threadFini(t) ==
  /\ pc[t] = "run"
  /\ numThreads' = numThreads - 1
  /\ SetState(t, "FINISH") /\ Goto(t, "gone")
  /\ UNCHANGED <<cycle, calls, maxThreads, barrierVars>>

\* Mutant: a thread that waits in a system call is still counted.
sysBeforeMutant(t) ==
  /\ pc[t] = "run" /\ cycle[t] < MaxCycle /\ calls[t] < MaxCalls
  /\ calls' = [calls EXCEPT ![t] = @ + 1] /\ Goto(t, "sys")
  /\ \/ SetState(t, "SUSPEND") /\ UNCHANGED numThreads
     \/ UNCHANGED <<state, numThreads>>
  /\ UNCHANGED <<cycle, maxThreads, barrierVars>>

\* The calls known to wait take the thread out of the count.
sysBefore(t) ==
  /\ pc[t] = "run" /\ cycle[t] < MaxCycle /\ calls[t] < MaxCalls
  /\ calls' = [calls EXCEPT ![t] = @ + 1] /\ Goto(t, "sys")
  /\ \/ SetState(t, "SUSPEND") /\ numThreads' = numThreads - 1
     \/ UNCHANGED <<state, numThreads>>
  /\ UNCHANGED <<cycle, maxThreads, barrierVars>>

Scanned == {i \in Tid : i < maxThreads}

\* The clocks of the active threads below n, added up.
ActiveSum[n \in 0..MaxTid + 1] ==
  IF n = 0 THEN 0 ELSE ActiveSum[n - 1] + (IF state[n - 1] = "ACTIVE" THEN cycle[n - 1] ELSE 0)

\* getAvgCycle: the average of the active threads, or the latest clock.
AvgCycle ==
  LET active == {i \in Scanned : state[i] = "ACTIVE"} IN
  IF active = {} THEN Max({0} \cup {cycle[i] : i \in Scanned})
  ELSE ActiveSum[maxThreads] \div Cardinality(active)

\* Mutant: the thread is counted again after every call.
sysAfterMutant(t) ==
  /\ pc[t] = "sys" /\ Goto(t, "run") /\ SetState(t, "ACTIVE")
  /\ cycle' = [cycle EXCEPT ![t] = IF state[t] = "SUSPEND" THEN AvgCycle ELSE @ + SyscallCost]
  /\ numThreads' = numThreads + 1
  /\ UNCHANGED <<calls, maxThreads, barrierVars>>

sysAfter(t) ==
  /\ pc[t] = "sys" /\ Goto(t, "run") /\ SetState(t, "ACTIVE")
  /\ IF state[t] = "SUSPEND"
     THEN cycle' = [cycle EXCEPT ![t] = AvgCycle] /\ numThreads' = numThreads + 1
     ELSE cycle' = [cycle EXCEPT ![t] = @ + SyscallCost] /\ UNCHANGED numThreads
  /\ UNCHANGED <<calls, maxThreads, barrierVars>>
----------------------------------------------------------------------------
(***************************************************************************)
(* barrier(), called after every instruction.                              *)
(***************************************************************************)
\* Mutant: the barrier is entered whatever the time.
execEager(t) ==
  /\ pc[t] = "run" /\ cycle[t] < MaxCycle
  /\ \E c \in Costs, d \in Delays : cycle' = [cycle EXCEPT ![t] = @ + c + d]
  /\ Goto(t, IF numThreads > 1 \/ numProcs > 1 THEN "lock" ELSE "solo")
  /\ UNCHANGED <<state, calls, numThreads, maxThreads, barrierVars>>

\* Mutant: a single thread moves the barrier although there are other processes.
execAlone(t) ==
  /\ pc[t] = "run" /\ cycle[t] < MaxCycle
  /\ \E c \in Costs :
       LET now == cycle[t] + c IN
       /\ cycle' = [cycle EXCEPT ![t] = now]
       /\ Goto(t, CASE numThreads = 1 -> "solo"
                    [] numThreads > 1 /\ now >= barrierTime -> "lock"
                    [] OTHER -> "run")
  /\ UNCHANGED <<state, calls, numThreads, maxThreads, barrierVars>>

\* An instruction, and the test at the top of barrier.  A thread that is due
\* sends its remaining requests before it takes the mutex.
exec(t) ==
  /\ pc[t] = "run" /\ cycle[t] < MaxCycle
  /\ \E c \in Costs :
       LET now == cycle[t] + c IN
       IF (numThreads > 1 \/ numProcs > 1) /\ now >= barrierTime
       THEN /\ \E d \in Delays : cycle' = [cycle EXCEPT ![t] = now + d]
            /\ Goto(t, "lock")
       ELSE /\ cycle' = [cycle EXCEPT ![t] = now]
            /\ Goto(t, IF numThreads = 1 /\ numProcs = 1 THEN "solo" ELSE "run")
  /\ UNCHANGED <<state, calls, numThreads, maxThreads, barrierVars>>

\* "Update barrier time in the initial single-threaded phase"; nothing keeps
\* other threads from starting since num_threads was read.
solo(t) ==
  /\ pc[t] = "solo" /\ Goto(t, "run")
  /\ barrierTime' = cycle[t]
  /\ UNCHANGED <<state, cycle, calls, numThreads, maxThreads>>
  /\ UNCHANGED <<barrierCounter, sem, mutex, numProcs>>

\* The first to arrive sets the semaphore for those still in the last barrier.
lock(t) ==
  /\ pc[t] = "lock" /\ mutex = None
  /\ mutex' = t /\ SetState(t, "WAIT")
  /\ IF barrierCounter = 0
     THEN sem' = TRUE /\ Goto(t, "spin")
     ELSE UNCHANGED sem /\ Goto(t, "count")
  /\ UNCHANGED <<cycle, calls, numThreads, maxThreads, barrierCounter, barrierTime, numProcs>>

\* Mutant: the next barrier does not wait until the last one is empty.
spinMutant(t) ==
  /\ pc[t] = "spin"
  /\ sem' = FALSE /\ Goto(t, "count")
  /\ UNCHANGED <<state, cycle, calls, numThreads, maxThreads>>
  /\ UNCHANGED <<barrierCounter, barrierTime, mutex, numProcs>>

spin(t) ==
  /\ pc[t] = "spin" /\ \A i \in Scanned \ {t} : state[i] # "WAIT"
  /\ sem' = FALSE /\ Goto(t, "count")
  /\ UNCHANGED <<state, cycle, calls, numThreads, maxThreads>>
  /\ UNCHANGED <<barrierCounter, barrierTime, mutex, numProcs>>

count(t) ==
  /\ pc[t] = "count" /\ Goto(t, "test")
  /\ barrierCounter' = barrierCounter + 1
  /\ UNCHANGED <<state, cycle, calls, numThreads, maxThreads, barrierTime, sem, mutex, numProcs>>

\* num_threads is read here, after the count, and not under thread_lock.
test(t) ==
  /\ pc[t] = "test"
  /\ IF barrierCounter = numThreads
     THEN Goto(t, "open") /\ UNCHANGED mutex
     ELSE Goto(t, "timed") /\ mutex' = None
  /\ UNCHANGED <<state, cycle, calls, numThreads, maxThreads>>
  /\ UNCHANGED <<barrierCounter, barrierTime, sem, numProcs>>

\* The processes meet in this barrier: the two places of the code where a
\* barrier opens decide it in different ways.
Due(label) ==
  /\ numProcs > 1
  /\ IF label = "open"
     THEN (barrierTime \div Interval) % (ProcInterval \div Interval) = 0
     ELSE barrierTime % ProcInterval = 0

\* The server answers with the processes that are left.
open(t) ==
  /\ pc[t] \in {"open", "reopen"} /\ Goto(t, "timed")
  /\ numProcs' \in IF Due(pc[t]) THEN 1..numProcs ELSE {numProcs}
  /\ barrierTime' = barrierTime + Interval
  /\ barrierCounter' = 0 /\ sem' = TRUE /\ mutex' = None
  /\ UNCHANGED <<state, cycle, calls, numThreads, maxThreads>>

leave(t) ==
  /\ pc[t] = "timed" /\ sem
  /\ SetState(t, "ACTIVE") /\ Goto(t, "run")
  /\ UNCHANGED <<cycle, calls, numThreads, maxThreads, barrierVars>>

\* The semaphore was not set in time, the mutex is free, and those who were
\* missing have finished or been suspended.
recheck(t) ==
  /\ pc[t] = "timed" /\ ~sem /\ mutex = None /\ barrierCounter = numThreads
  /\ mutex' = t /\ Goto(t, "reopen")
  /\ UNCHANGED <<state, cycle, calls, numThreads, maxThreads>>
  /\ UNCHANGED <<barrierCounter, barrierTime, sem, numProcs>>
----------------------------------------------------------------------------
barrier(t) ==
  \/ solo(t) \/ lock(t) \/ spin(t) \/ count(t) \/ test(t) \/ open(t) \/ leave(t) \/ recheck(t)

\* What a thread does by itself; a call that waits need not return.
Step(t) ==
  \/ exec(t) \/ barrier(t) \/ threadFini(t) \/ sysBefore(t)
  \/ state[t] = "ACTIVE" /\ sysAfter(t)

Next == \E t \in Tid : threadStart(t) \/ Step(t) \/ sysAfter(t)

Spec == Init /\ [][Next]_vars /\ \A t \in Tid : WF_vars(Step(t))
----------------------------------------------------------------------------
TypeOK ==
  /\ pc \in [Tid -> {"dead", "run", "sys", "solo", "lock", "spin", "count", "test", "open",
                     "reopen", "timed", "gone"}]
  /\ state \in [Tid -> {"DEAD", "ACTIVE", "SUSPEND", "WAIT", "FINISH"}]
  /\ cycle \in [Tid -> Nat] /\ calls \in [Tid -> 0..MaxCalls]
  /\ numThreads \in 0..MaxTid + 1 /\ maxThreads \in 0..MaxTid + 1
  /\ numProcs \in 1..NumProcs
  /\ barrierCounter \in 0..MaxTid + 1 /\ barrierTime \in Nat
  /\ sem \in BOOLEAN /\ mutex \in {None} \cup Tid

\* Those whom the barrier has counted; a counter of 0 tells that it has
\* opened for them.
Counted == {t \in Tid : pc[t] \in {"test", "open", "reopen", "timed"}}
Taking  == {t \in Tid : state[t] \in {"ACTIVE", "WAIT"}}

Abstract == INSTANCE ThreadBarrier WITH
  running <- Taking \ Counted,
  waiting <- IF barrierCounter > 0 THEN Counted ELSE {},
  leaving <- IF barrierCounter = 0 THEN Counted ELSE {},
  closed  <- \E t \in Tid : pc[t] \in {"open", "reopen"}

\* The barrier of mutex, counter and semaphore is a thread barrier.
IsBarrier == Abstract!Spec

\* Every thread leaves every barrier, whatever the others do: finish, wait in
\* a system call for ever, or go on to the next barrier.
WaitEnds == \A t \in Tid : state[t] = "WAIT" ~> state[t] = "ACTIVE"

\* A barrier opens when all who wait in it have reached its time, or that of
\* the one before it, which may have closed after they read barrier_time.
\* (solo, which moves barrier_time without the mutex, needs a single process.)
Reached ==
  [][\A t \in Tid :
       open(t) /\ numProcs > 1 => \A i \in Counted : cycle[i] + Interval >= barrierTime]_vars

\* The two places agree on whether the processes meet in this barrier.
SameRounds == numProcs > 1 => (Due("open") <=> Due("reopen"))
=============================================================================
