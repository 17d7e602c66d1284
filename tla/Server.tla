------------------------------- MODULE Server -------------------------------
(***************************************************************************)
(* The server process (src/src/prime.cpp, thread_sched.cpp) and what the   *)
(* Pin clients (core_manager.cpp) exchange with it: processes and threads  *)
(* that start and finish, request batches, inter-process barriers, and the *)
(* end of the simulation.                                                  *)
(*                                                                         *)
(* One receiver thread, as in every configuration.  A process talks to it  *)
(* over one channel; it answers on one channel per tag, and the tags of a  *)
(* process are its thread ids.  Tag 0 is the one of thread 0, and also of  *)
(* the barriers and of the last answer to a process.  MPI keeps the order  *)
(* on a channel and none between channels.                                 *)
(***************************************************************************)
EXTENDS Integers, Sequences, FiniteSets

CONSTANTS
  NumProcs,       \* client processes, of ranks 1..NumProcs
  NumThreads,     \* threads of a process, of ids 0..NumThreads-1
  NumCores,       \* num_cores
  Delays,         \* the delays a batch may be answered with
  MayWait,        \* ids of the threads that make waiting system calls
  StartsFirst,    \* bound: nothing overtakes a PROCESS_STARTING
  Tag0Shared,     \* bound: whether thread 0 asks while its process is in a barrier
  MaxWork,        \* bound on the batches and waits of a process
  MaxRounds       \* bound on the inter-process barriers of a process

Proc == 1..NumProcs
Tid  == 0..NumThreads-1
Thread == Proc \X Tid
CoreId == 0..NumCores-1

ASSUME ServerAssumption ==
  /\ NumProcs \in Nat \ {0} /\ NumThreads \in Nat \ {0} /\ NumCores \in Nat \ {0}
  /\ Delays \subseteq Nat /\ MayWait \subseteq Tid /\ StartsFirst \in BOOLEAN
  /\ Tag0Shared \in BOOLEAN
  /\ MaxWork \in Nat /\ MaxRounds \in Nat

VARIABLES
  server,         \* "running", "aborted" or "exited"
  progList, progCount,          \* prog_list and prog_count
  coreStat, coreMap,            \* core_stat and core_map; -1 is "no entry"
  inbox,          \* the messages of each process that are under way
  replies,        \* the answers under way, by process and tag
  phase,          \* where the main program of each process is
  thread,         \* thread_state
  numProcs,       \* num_procs of each process
  work,           \* the batches and waits each process still makes
  entered         \* the inter-process barriers each process has entered

serverVars == <<server, progList, progCount, coreStat, coreMap>>
clientVars == <<phase, thread, numProcs, work, entered>>
vars == <<serverVars, clientVars, inbox, replies>>

Init ==
  /\ server = "running"
  /\ progList = {} /\ progCount = 0
  /\ coreStat = [i \in CoreId |-> 0] /\ coreMap = [x \in Thread |-> -1]
  /\ inbox = [p \in Proc |-> <<>>]
  /\ replies = [p \in Proc |-> [t \in Tid |-> <<>>]]
  /\ phase = [p \in Proc |-> "new"]
  /\ thread = [x \in Thread |-> "DEAD"]
  /\ numProcs = [p \in Proc |-> NumProcs]
  /\ work = [p \in Proc |-> MaxWork]
  /\ entered = [p \in Proc |-> 0]

Send(p, type, t) == inbox' = [inbox EXCEPT ![p] = Append(@, [type |-> type, tid |-> t])]

\* A message of process p that the server has not handled.
Pending(p, type, t) ==
  \E i \in DOMAIN inbox[p] : inbox[p][i] = [type |-> type, tid |-> t]

Answer(kind, val) == [kind |-> kind, val |-> val]

ThreadsOf(p, states) == {x \in Thread : x[1] = p /\ thread[x] \in states}
----------------------------------------------------------------------------
(***************************************************************************)
(* Clients.                                                                *)
(***************************************************************************)
\* startSim, up to the barrier of the clients.
startSim(p) ==
  /\ phase[p] = "new"
  /\ phase' = [phase EXCEPT ![p] = "started"]
  /\ Send(p, "PROCESS_STARTING", 0)
  /\ UNCHANGED <<serverVars, replies, thread, numProcs, work, entered>>

\* The barrier is passed when every client has sent its message; this does
\* not say that the server has received it.
Begin(p) ==
  /\ phase[p] = "started" /\ \A q \in Proc : phase[q] # "new"
  /\ StartsFirst => \A q \in Proc : ~Pending(q, "PROCESS_STARTING", 0)
  /\ phase' = [phase EXCEPT ![p] = "running"]
  /\ UNCHANGED <<serverVars, inbox, replies, thread, numProcs, work, entered>>

threadStart(x) ==
  /\ phase[x[1]] \in {"running", "barrier"} /\ thread[x] = "DEAD"
  /\ x[2] = 0 \/ ThreadsOf(x[1], {"ACTIVE", "REQUESTING", "SUSPEND", "WAIT"}) # {}
  /\ thread' = [thread EXCEPT ![x] = "STARTING"]
  /\ Send(x[1], "NEW_THREAD", x[2])
  /\ UNCHANGED <<serverVars, replies, phase, numProcs, work, entered>>

\* A full or remaining batch, of execMem, barrier or threadFini.  Thread 0
\* may send one while its process waits in an inter-process barrier, when it
\* has come back from a system call that kept it out of the barrier.
execMem(x) ==
  /\ thread[x] = "ACTIVE" /\ work[x[1]] > 0
  /\ x[2] = 0 /\ ~Tag0Shared => phase[x[1]] # "barrier"
  /\ thread' = [thread EXCEPT ![x] = "REQUESTING"]
  /\ work' = [work EXCEPT ![x[1]] = @ - 1]
  /\ Send(x[1], "MEM_REQUESTS", x[2])
  /\ UNCHANGED <<serverVars, replies, phase, numProcs, entered>>

\* The MPI_Recv of threadStart and of a batch: whatever comes with the tag.
Receive(x) ==
  /\ thread[x] \in {"STARTING", "REQUESTING"} /\ replies[x[1]][x[2]] # <<>>
  /\ replies' = [replies EXCEPT ![x[1]][x[2]] = Tail(@)]
  /\ thread' = [thread EXCEPT ![x] = "ACTIVE"]
  /\ UNCHANGED <<serverVars, inbox, phase, numProcs, work, entered>>

sysBefore(x) ==
  /\ thread[x] = "ACTIVE" /\ x[2] \in MayWait /\ work[x[1]] > 0
  /\ thread' = [thread EXCEPT ![x] = "SUSPEND"]
  /\ work' = [work EXCEPT ![x[1]] = @ - 1]
  /\ UNCHANGED <<serverVars, inbox, replies, phase, numProcs, entered>>

sysAfter(x) ==
  /\ thread[x] = "SUSPEND"
  /\ thread' = [thread EXCEPT ![x] = "ACTIVE"]
  /\ UNCHANGED <<serverVars, inbox, replies, phase, numProcs, work, entered>>

threadFini(x) ==
  /\ thread[x] = "ACTIVE"
  /\ thread' = [thread EXCEPT ![x] = "FINISH"]
  /\ Send(x[1], "THREAD_FINISHING", x[2])
  /\ UNCHANGED <<serverVars, replies, phase, numProcs, work, entered>>

\* barrier: the last of the counted threads arrives, and sends for all of
\* them.  A suspended thread is not counted.
barrier(p) ==
  /\ phase[p] = "running" /\ numProcs[p] > 1 /\ entered[p] < MaxRounds
  /\ ThreadsOf(p, {"ACTIVE"}) # {} /\ ThreadsOf(p, {"STARTING", "REQUESTING"}) = {}
  /\ phase' = [phase EXCEPT ![p] = "barrier"]
  /\ entered' = [entered EXCEPT ![p] = @ + 1]
  /\ thread' = [x \in Thread |-> IF x \in ThreadsOf(p, {"ACTIVE"}) THEN "WAIT" ELSE thread[x]]
  /\ Send(p, "INTER_PROCESS_BARRIERS", 0)
  /\ UNCHANGED <<serverVars, replies, numProcs, work>>

\* ... and its MPI_Recv with tag 0.
LeaveBarrier(p) ==
  /\ phase[p] = "barrier" /\ replies[p][0] # <<>>
  /\ numProcs' = [numProcs EXCEPT ![p] = Head(replies[p][0]).val]
  /\ replies' = [replies EXCEPT ![p][0] = Tail(@)]
  /\ phase' = [phase EXCEPT ![p] = "running"]
  /\ thread' = [x \in Thread |-> IF x \in ThreadsOf(p, {"WAIT"}) THEN "ACTIVE" ELSE thread[x]]
  /\ UNCHANGED <<serverVars, inbox, work, entered>>

finishSim(p) ==
  /\ phase[p] = "running" /\ thread[<<p, 0>>] # "DEAD"
  /\ ThreadsOf(p, {"DEAD", "FINISH"}) = {p} \X Tid
  /\ phase' = [phase EXCEPT ![p] = "finishing"]
  /\ Send(p, "PROCESS_FINISHING", 0)
  /\ UNCHANGED <<serverVars, replies, thread, numProcs, work, entered>>

\* The last process tells the server to exit.
Exit(p) ==
  /\ phase[p] = "finishing" /\ replies[p][0] # <<>>
  /\ phase' = [phase EXCEPT ![p] = "done"]
  /\ numProcs' = [numProcs EXCEPT ![p] = Head(replies[p][0]).val]
  /\ replies' = [replies EXCEPT ![p][0] = Tail(@)]
  /\ IF numProcs'[p] = 0 THEN Send(p, "PROGRAM_EXITING", 0) ELSE UNCHANGED inbox
  /\ UNCHANGED <<serverVars, thread, work, entered>>
----------------------------------------------------------------------------
(***************************************************************************)
(* The message handler: one message of process p.                          *)
(***************************************************************************)
Reply(p, t, r) == replies' = [replies EXCEPT ![p][t] = Append(@, r)]

\* Answers to all the processes in P.
ReplyAll(R, P, r) ==
  [p \in Proc |-> IF p \in P THEN [R[p] EXCEPT ![0] = Append(@, r)] ELSE R[p]]

Starting(p, m) ==
  /\ m.type = "PROCESS_STARTING"
  /\ progList' = progList \cup {p}
  /\ UNCHANGED <<server, progCount, coreStat, coreMap, replies>>

\* Mutant: the processes that wait in a barrier are not looked after.
FinishingMutant(p, m) ==
  /\ m.type = "PROCESS_FINISHING"
  /\ progList' = progList \ {p}
  /\ Reply(p, 0, Answer("finish", Cardinality(progList')))
  /\ UNCHANGED <<server, progCount, coreStat, coreMap>>

\* Mutant: the processes are counted before the finished one is removed.
FinishingEarly(p, m) ==
  /\ m.type = "PROCESS_FINISHING"
  /\ progList' = progList \ {p}
  /\ Reply(p, 0, Answer("finish", Cardinality(progList') - 1))
  /\ UNCHANGED <<server, progCount, coreStat, coreMap>>

Finishing(p, m) ==
  /\ m.type = "PROCESS_FINISHING"
  /\ progList' = progList \ {p}
  /\ LET n      == Cardinality(progList')
         told   == [replies EXCEPT ![p][0] = Append(@, Answer("finish", n))]
     IN IF progCount >= n
        THEN /\ progCount' = 0
             /\ replies' = ReplyAll(told, progList', Answer("barrier", n))
        ELSE replies' = told /\ UNCHANGED progCount
  /\ UNCHANGED <<server, coreStat, coreMap>>

\* Mutant: the barrier opens one process too early.
BarriersEarly(p, m) ==
  /\ m.type = "INTER_PROCESS_BARRIERS"
  /\ IF progCount + 2 >= Cardinality(progList)
     THEN /\ progCount' = 0
          /\ replies' = ReplyAll(replies, progList, Answer("barrier", Cardinality(progList)))
     ELSE progCount' = progCount + 1 /\ UNCHANGED replies
  /\ UNCHANGED <<server, progList, coreStat, coreMap>>

\* Mutant: prog_count is not reset.
BarriersNoReset(p, m) ==
  /\ m.type = "INTER_PROCESS_BARRIERS"
  /\ progCount' = progCount + 1
  /\ IF progCount + 1 >= Cardinality(progList)
     THEN replies' = ReplyAll(replies, progList, Answer("barrier", Cardinality(progList)))
     ELSE UNCHANGED replies
  /\ UNCHANGED <<server, progList, coreStat, coreMap>>

Barriers(p, m) ==
  /\ m.type = "INTER_PROCESS_BARRIERS"
  /\ IF progCount + 1 >= Cardinality(progList)
     THEN /\ progCount' = 0
          /\ replies' = ReplyAll(replies, progList, Answer("barrier", Cardinality(progList)))
     ELSE progCount' = progCount + 1 /\ UNCHANGED replies
  /\ UNCHANGED <<server, progList, coreStat, coreMap>>

\* allocCore: the first free core, or the abort of everything.
NewThread(p, m) ==
  /\ m.type = "NEW_THREAD"
  /\ LET free == {i \in CoreId : coreStat[i] = 0} IN
     IF free = {}
     THEN server' = "aborted" /\ UNCHANGED <<coreStat, coreMap, replies>>
     ELSE LET i == CHOOSE j \in free : \A k \in free : j <= k IN
          /\ coreStat' = [coreStat EXCEPT ![i] = p]
          /\ coreMap' = [coreMap EXCEPT ![<<p, m.tid>>] = i]
          /\ Reply(p, m.tid, Answer("core", 0))
          /\ UNCHANGED server
  /\ UNCHANGED <<progList, progCount>>

\* Mutant: whatever core the map has next to the thread's is freed.
ThreadFinishingMutant(p, m) ==
  /\ m.type = "THREAD_FINISHING"
  /\ coreStat' = [i \in CoreId |-> IF coreStat[i] = 1 THEN 0 ELSE coreStat[i]]
  /\ UNCHANGED <<server, progList, progCount, coreMap, replies>>

\* getCoreId: the look-up core_map[...] enters core 0 for a thread without one.
getCoreId(x) == coreMap' = [coreMap EXCEPT ![x] = IF @ = -1 THEN 0 ELSE @]

\* deallocCore: core_stat holds the rank of the process and is tested for 1.
ThreadFinishing(p, m) ==
  /\ m.type = "THREAD_FINISHING"
  /\ getCoreId(<<p, m.tid>>)
  /\ LET i == coreMap'[<<p, m.tid>>] IN
     coreStat' = IF coreStat[i] = 1 THEN [coreStat EXCEPT ![i] = 0] ELSE coreStat
  /\ UNCHANGED <<server, progList, progCount, replies>>

Requests(p, m) ==
  /\ m.type = "MEM_REQUESTS"
  /\ getCoreId(<<p, m.tid>>)
  /\ \E d \in Delays : Reply(p, m.tid, Answer("delay", d))
  /\ UNCHANGED <<server, progList, progCount, coreStat>>

Exiting(p, m) ==
  /\ m.type = "PROGRAM_EXITING"
  /\ server' = "exited"
  /\ UNCHANGED <<progList, progCount, coreStat, coreMap, replies>>

msgHandler(p) ==
  /\ server = "running" /\ inbox[p] # <<>>
  /\ inbox' = [inbox EXCEPT ![p] = Tail(@)]
  /\ LET m == Head(inbox[p]) IN
     \/ Starting(p, m) \/ Finishing(p, m) \/ Barriers(p, m) \/ NewThread(p, m)
     \/ ThreadFinishing(p, m) \/ Requests(p, m) \/ Exiting(p, m)
  /\ UNCHANGED clientVars
----------------------------------------------------------------------------
\* MPI_Abort ends every process.
Client(p) ==
  /\ server # "aborted"
  /\ \/ startSim(p) \/ Begin(p) \/ barrier(p) \/ LeaveBarrier(p) \/ finishSim(p) \/ Exit(p)
     \/ \E t \in Tid : LET x == <<p, t>> IN
          \/ threadStart(x) \/ execMem(x) \/ Receive(x) \/ sysBefore(x) \/ sysAfter(x)
          \/ threadFini(x)

Serve == \E p \in Proc : msgHandler(p)

Next == Serve \/ \E p \in Proc : Client(p)

\* The receiver keeps receiving; a process that can go on does, and the waits
\* of its threads end.
Fairness == WF_vars(Serve) /\ \A p \in Proc : WF_vars(Client(p))

Spec == Init /\ [][Next]_vars /\ Fairness
----------------------------------------------------------------------------
TypeOK ==
  /\ server \in {"running", "aborted", "exited"}
  /\ progList \subseteq Proc /\ progCount \in 0..NumProcs - 1
  /\ coreStat \in [CoreId -> {0} \cup Proc] /\ coreMap \in [Thread -> {-1} \cup CoreId]
  /\ phase \in [Proc -> {"new", "started", "running", "barrier", "finishing", "done"}]
  /\ thread \in [Thread -> {"DEAD", "STARTING", "ACTIVE", "REQUESTING", "SUSPEND", "WAIT", "FINISH"}]
  /\ numProcs \in [Proc -> Nat] /\ work \in [Proc -> 0..MaxWork]
  /\ entered \in [Proc -> 0..MaxRounds]

\* A thread the server may still get requests from: it has its core, and its
\* THREAD_FINISHING has not been handled.
Placed(x) ==
  \/ thread[x] \in {"ACTIVE", "REQUESTING", "SUSPEND", "WAIT"}
  \/ thread[x] = "FINISH" /\ Pending(x[1], "THREAD_FINISHING", x[2])

\* The requests of two threads are never simulated on the same core.
CoresExclusive ==
  \A x, y \in Thread : Placed(x) /\ Placed(y) /\ x # y => coreMap[x] # coreMap[y]

\* The answer to a batch of thread 0 and the one to a barrier of its process
\* come with the same tag: they are not awaited at the same time.
TagsApart == \A p \in Proc : ~(phase[p] = "barrier" /\ thread[<<p, 0>>] = "REQUESTING")

\* Every answer under way is one its receiver is waiting for, and no two
\* answers are under way with the same tag: a delay is never taken for a
\* number of processes.
RepliesExpected ==
  \A p \in Proc, t \in Tid :
    /\ Len(replies[p][t]) <= 1
    /\ \A i \in DOMAIN replies[p][t] :
         CASE replies[p][t][i].kind = "core"    -> thread[<<p, t>>] = "STARTING"
           [] replies[p][t][i].kind = "delay"   -> thread[<<p, t>>] = "REQUESTING"
           [] replies[p][t][i].kind = "barrier" -> phase[p] = "barrier"
           [] OTHER                             -> phase[p] = "finishing"

\* The server exits only when every process has finished.
ExitsLast == server = "exited" => \A p \in Proc : phase[p] \in {"finishing", "done"}

\* "periodic barriers across all threads within one process and all
\* processes" (src/src/core_manager.cpp:103): nobody leaves a barrier that a
\* process which goes on has not entered.
InStep ==
  [][\A p, q \in Proc :
       phase[p] = "barrier" /\ phase'[p] = "running" /\ phase[q] \in {"running", "barrier"}
         => entered[q] >= entered[p]]_vars

\* The simulation ends: every process gets its last answer, and the server
\* is told to exit.
Terminates == <>(server = "exited")
=============================================================================
