-------------------------- MODULE CoreManagerProofs --------------------------
(***************************************************************************)
(* The barrier of mutex, counter and semaphore implements ThreadBarrier,   *)
(* for any number of threads and any lengths of the intervals, as long as  *)
(* threads start in the order of their ids.                                *)
(*                                                                         *)
(* What makes it work: the counter is 0 or the number of counted threads;  *)
(* the semaphore is clear while it is positive, so that nobody leaves a    *)
(* barrier that has not opened; and the first thread to arrive sees, in    *)
(* the state of the others, that the last barrier is empty.                *)
(*                                                                         *)
(* Then its times: clocks stay numbers, and while there are other          *)
(* processes nobody is counted for a barrier long before its time, which   *)
(* is a multiple of the interval.                                          *)
(***************************************************************************)
EXTENDS CoreManager, Induction, FiniteSetTheorems, TLAPS

USE CoreManagerAssumption DEF Tid, None

Labels == {"dead", "run", "sys", "solo", "lock", "spin", "count", "test", "open",
           "reopen", "timed", "gone"}
States == {"DEAD", "ACTIVE", "SUSPEND", "WAIT", "FINISH"}

\* Where a thread holds the mutex, and where it has found a place in a barrier.
Holding == {"spin", "count", "test", "open", "reopen"}
Inside  == Holding \cup {"timed"}

Types ==
  /\ pc \in [Tid -> Labels] /\ state \in [Tid -> States]
  /\ numThreads \in Nat /\ maxThreads \in Nat /\ barrierCounter \in Nat
  /\ sem \in BOOLEAN /\ mutex \in {None} \cup Tid

\* thread_state tells where a thread is.
Placed(t) ==
  /\ state[t] = "WAIT" <=> pc[t] \in Inside
  /\ pc[t] \in {"run", "solo", "lock"} => state[t] = "ACTIVE"
  /\ pc[t] = "sys" => state[t] \in {"ACTIVE", "SUSPEND"}
  /\ state[t] = "SUSPEND" => pc[t] = "sys"
  /\ pc[t] = "dead" => state[t] = "DEAD"
  /\ pc[t] # "dead" => t \in Scanned

Mutual(t) == (mutex = t) <=> (pc[t] \in Holding)

\* What holds of the counter and the semaphore while t is in the barrier.
Steady(t) ==
  /\ pc[t] \in {"test", "open", "reopen"} => barrierCounter > 0
  /\ pc[t] = "spin" => barrierCounter = 0
  /\ pc[t] = "count" => ~sem /\ (barrierCounter = 0 => Counted = {})

Numbers ==
  /\ numThreads = Cardinality(Taking)
  /\ barrierCounter \in {0, Cardinality(Counted)}
  /\ barrierCounter > 0 => ~sem

IInv ==
  /\ Types /\ Numbers
  /\ \A t \in Tid : Placed(t) /\ Mutual(t) /\ Steady(t)

Closing == \E t \in Tid : pc[t] \in {"open", "reopen"}

LEMMA FiniteTid ==
  ASSUME NEW S \in SUBSET Tid
  PROVE  IsFiniteSet(S) /\ Cardinality(S) \in Nat
<1>1. IsFiniteSet(Tid)
  BY FS_Interval
<1>2. QED
  BY <1>1, FS_Subset, FS_CardinalityType

LEMMA Subsets == Counted \in SUBSET Tid /\ Taking \in SUBSET Tid
BY DEF Counted, Taking

\* A counter that equals num_threads has counted everyone, and somebody.
LEMMA AllCounted ==
  ASSUME IInv, barrierCounter = numThreads, NEW t \in Tid, pc[t] \in {"test", "timed"}
  PROVE  barrierCounter > 0 /\ Counted = Taking /\ t \in Counted
<1>1. Counted \subseteq Taking /\ t \in Counted
  BY DEF IInv, Types, Placed, Counted, Taking, Inside, Holding
<1>2. Taking # {} /\ IsFiniteSet(Taking) /\ Cardinality(Taking) # 0
  BY <1>1, Subsets, FiniteTid, FS_EmptySet
<1>3. barrierCounter = Cardinality(Counted) /\ barrierCounter > 0
  BY <1>2 DEF IInv, Numbers, Types
<1>4. Counted = Taking
  BY <1>1, <1>2, <1>3, FS_Subset DEF IInv, Numbers
<1>5. QED
  BY <1>1, <1>3, <1>4

\* What a step of the code means to the abstract barrier.
Joins(t)   == Taking' = Taking \cup {t} /\ Counted' = Counted
Quits(t)   == Taking' = Taking \ {t} /\ Counted' = Counted
Stays      == Taking' = Taking /\ Counted' = Counted
SameClosing == Closing' = Closing

LEMMA JoinStep ==
  ASSUME NEW t \in Tid, t \notin Taking \cup Counted, Joins(t),
         barrierCounter' = barrierCounter, SameClosing
  PROVE  Abstract!Next
<1>1. Abstract!Join(t)
  BY DEF Abstract!Join, Joins, SameClosing, Closing
<1>2. QED
  BY <1>1 DEF Abstract!Next

LEMMA QuitStep ==
  ASSUME NEW t \in Tid, t \in Taking \ Counted, Quits(t),
         barrierCounter' = barrierCounter, SameClosing
  PROVE  Abstract!Next
<1>1. Abstract!Quit(t)
  BY DEF Abstract!Quit, Quits, SameClosing, Closing
<1>2. QED
  BY <1>1 DEF Abstract!Next

LEMMA StutterStep ==
  ASSUME Stays, barrierCounter' = barrierCounter, SameClosing
  PROVE  UNCHANGED Abstract!barrierVars
BY DEF Abstract!barrierVars, Stays, SameClosing, Closing

\* num_threads stays the number of threads that take part.
LEMMA CountTaking ==
  ASSUME NEW t \in Tid, numThreads = Cardinality(Taking), numThreads \in Nat
  PROVE  /\ t \notin Taking => numThreads + 1 = Cardinality(Taking \cup {t})
         /\ t \in Taking => numThreads - 1 = Cardinality(Taking \ {t}) /\ numThreads > 0
<1>1. IsFiniteSet(Taking) /\ IsFiniteSet(Taking \ {t})
  BY Subsets, FiniteTid
<1>2. QED
  BY <1>1, FiniteTid, Subsets, FS_AddElement, FS_RemoveElement, FS_EmptySet

LEMMA Starts ==
  ASSUME InOrder, IInv, NEW t \in Tid, threadStart(t)
  PROVE  IInv' /\ Abstract!Next
<1> USE DEF threadStart, Goto, SetState, barrierVars
<1>1. t \notin Taking \cup Counted
  BY DEF IInv, Types, Placed, Taking, Counted
<1>2. Joins(t)
  BY DEF IInv, Types, Joins, Taking, Counted
<1>3. SameClosing
  BY DEF IInv, Types, SameClosing, Closing
<1>4. Types'
  BY DEF IInv, Types, Labels, States
<1>5. Numbers'
  BY <1>1, <1>2, CountTaking DEF IInv, Types, Numbers, Joins
<1>6. ASSUME NEW i \in Tid
      PROVE  (Placed(i) /\ Mutual(i) /\ Steady(i))'
  <2>1. Placed(i)' 
    BY DEF IInv, Types, Placed, Inside, Holding, Scanned
  <2>2. Mutual(i)' /\ Steady(i)'
    BY <1>2 DEF IInv, Types, Mutual, Holding, Steady, Joins
  <2>3. QED
    BY <2>1, <2>2
<1>7. IInv'
  BY <1>4, <1>5, <1>6 DEF IInv
<1>8. QED
  BY <1>1, <1>2, <1>3, <1>7, JoinStep

LEMMA Finishes ==
  ASSUME IInv, NEW t \in Tid, threadFini(t)
  PROVE  IInv' /\ Abstract!Next
<1> USE DEF threadFini, Goto, SetState, barrierVars
<1>1. t \in Taking \ Counted
  BY DEF IInv, Types, Placed, Taking, Counted
<1>2. Quits(t)
  BY DEF IInv, Types, Quits, Taking, Counted
<1>3. SameClosing
  BY DEF IInv, Types, SameClosing, Closing
<1>4. Types'
  <2>1. numThreads > 0
    BY <1>1, CountTaking DEF IInv, Types, Numbers
  <2>2. QED
    BY <2>1 DEF IInv, Types, Labels, States
<1>5. Numbers'
  BY <1>1, <1>2, CountTaking DEF IInv, Types, Numbers, Quits
<1>6. ASSUME NEW i \in Tid
      PROVE  (Placed(i) /\ Mutual(i) /\ Steady(i))'
  <2>1. Placed(i)'
    BY DEF IInv, Types, Placed, Inside, Holding, Scanned
  <2>2. Mutual(i)' /\ Steady(i)'
    BY <1>2 DEF IInv, Types, Mutual, Holding, Steady, Quits
  <2>3. QED
    BY <2>1, <2>2
<1>7. IInv'
  BY <1>4, <1>5, <1>6 DEF IInv
<1>8. QED
  BY <1>1, <1>2, <1>3, <1>7, QuitStep

\* Only a call that is known to wait takes the thread out of the barrier.
LEMMA Suspends ==
  ASSUME IInv, NEW t \in Tid, sysBefore(t)
  PROVE  IInv' /\ [Abstract!Next]_(Abstract!barrierVars)
<1> USE DEF sysBefore, Goto, SetState, barrierVars
<1>1. t \in Taking \ Counted
  BY DEF IInv, Types, Placed, Taking, Counted
<1>2. SameClosing /\ Counted' = Counted
  BY DEF IInv, Types, SameClosing, Closing, Counted
<1>3. Types'
  <2>1. numThreads > 0
    BY <1>1, CountTaking DEF IInv, Types, Numbers
  <2>2. QED
    BY <2>1 DEF IInv, Types, Labels, States
<1>4. ASSUME NEW i \in Tid
      PROVE  (Placed(i) /\ Mutual(i) /\ Steady(i))'
  <2>1. Placed(i)'
    BY DEF IInv, Types, Placed, Inside, Holding, Scanned
  <2>2. Mutual(i)' /\ Steady(i)'
    BY <1>2 DEF IInv, Types, Mutual, Holding, Steady
  <2>3. QED
    BY <2>1, <2>2
<1>5. CASE SetState(t, "SUSPEND") /\ numThreads' = numThreads - 1
  <2>1. Quits(t)
    BY <1>2, <1>5 DEF IInv, Types, Quits, Taking
  <2>2. Numbers'
    BY <1>1, <1>5, <2>1, CountTaking DEF IInv, Types, Numbers, Quits
  <2>3. IInv'
    BY <1>3, <1>4, <2>2 DEF IInv
  <2>4. QED
    BY <1>1, <1>2, <2>1, <2>3, QuitStep
<1>6. CASE UNCHANGED <<state, numThreads>>
  <2>1. Stays
    BY <1>2, <1>6 DEF Stays, Taking
  <2>2. Numbers'
    BY <1>6, <2>1 DEF IInv, Numbers, Stays
  <2>3. IInv'
    BY <1>3, <1>4, <2>2 DEF IInv
  <2>4. QED
    BY <1>2, <2>1, <2>3, StutterStep
<1>7. QED
  BY <1>5, <1>6

LEMMA Resumes ==
  ASSUME IInv, NEW t \in Tid, sysAfter(t)
  PROVE  IInv' /\ [Abstract!Next]_(Abstract!barrierVars)
<1> USE DEF sysAfter, Goto, SetState, barrierVars
<1>1. t \notin Counted /\ SameClosing /\ Counted' = Counted
  BY DEF IInv, Types, SameClosing, Closing, Counted
<1>2. Types'
  BY DEF IInv, Types, Labels, States
<1>3. ASSUME NEW i \in Tid
      PROVE  (Placed(i) /\ Mutual(i) /\ Steady(i))'
  <2>1. Placed(i)'
    BY DEF IInv, Types, Placed, Inside, Holding, Scanned
  <2>2. Mutual(i)' /\ Steady(i)'
    BY <1>1 DEF IInv, Types, Mutual, Holding, Steady
  <2>3. QED
    BY <2>1, <2>2
<1>4. CASE state[t] = "SUSPEND"
  <2>1. t \notin Taking /\ Joins(t)
    BY <1>1, <1>4 DEF IInv, Types, Joins, Taking
  <2>2. Numbers'
    BY <1>4, <2>1, CountTaking DEF IInv, Types, Numbers, Joins
  <2>3. IInv'
    BY <1>2, <1>3, <2>2 DEF IInv
  <2>4. QED
    BY <1>1, <2>1, <2>3, JoinStep
<1>5. CASE state[t] # "SUSPEND"
  <2>1. Stays
    BY <1>1, <1>5 DEF IInv, Types, Placed, Stays, Taking
  <2>2. Numbers'
    BY <1>5, <2>1 DEF IInv, Numbers, Stays
  <2>3. IInv'
    BY <1>2, <1>3, <2>2 DEF IInv
  <2>4. QED
    BY <1>1, <2>1, <2>3, StutterStep
<1>6. QED
  BY <1>4, <1>5

LEMMA Executes ==
  ASSUME IInv, NEW t \in Tid, exec(t)
  PROVE  IInv' /\ UNCHANGED Abstract!barrierVars
<1> USE DEF exec, Goto, SetState, barrierVars
<1>1. Stays /\ SameClosing
  BY DEF IInv, Types, Placed, Stays, SameClosing, Closing, Taking, Counted, Inside, Holding
<1>2. Types' /\ Numbers'
  BY <1>1 DEF IInv, Types, Numbers, Labels, States, Stays
<1>3. ASSUME NEW i \in Tid
      PROVE  (Placed(i) /\ Mutual(i) /\ Steady(i))'
  <2>1. Placed(i)'
    BY DEF IInv, Types, Placed, Inside, Holding, Scanned
  <2>2. Mutual(i)' /\ Steady(i)'
    BY <1>1 DEF IInv, Types, Mutual, Holding, Steady, Stays
  <2>3. QED
    BY <2>1, <2>2
<1>4. QED
  BY <1>1, <1>2, <1>3, StutterStep DEF IInv

LEMMA MovesTime ==
  ASSUME IInv, NEW t \in Tid, solo(t)
  PROVE  IInv' /\ UNCHANGED Abstract!barrierVars
<1> USE DEF solo, Goto, SetState, barrierVars
<1>1. Stays /\ SameClosing
  BY DEF IInv, Types, Placed, Stays, SameClosing, Closing, Taking, Counted, Inside, Holding
<1>2. Types' /\ Numbers'
  BY <1>1 DEF IInv, Types, Numbers, Labels, States, Stays
<1>3. ASSUME NEW i \in Tid
      PROVE  (Placed(i) /\ Mutual(i) /\ Steady(i))'
  <2>1. Placed(i)'
    BY DEF IInv, Types, Placed, Inside, Holding, Scanned
  <2>2. Mutual(i)' /\ Steady(i)'
    BY <1>1 DEF IInv, Types, Mutual, Holding, Steady, Stays
  <2>3. QED
    BY <2>1, <2>2
<1>4. QED
  BY <1>1, <1>2, <1>3, StutterStep DEF IInv

LEMMA Locks ==
  ASSUME IInv, NEW t \in Tid, lock(t)
  PROVE  IInv' /\ UNCHANGED Abstract!barrierVars
<1> USE DEF lock, Goto, SetState, barrierVars
<1>1. Stays /\ SameClosing
  BY DEF IInv, Types, Placed, Stays, SameClosing, Closing, Taking, Counted, Inside, Holding
<1>2. Types' /\ Numbers'
  <2>1. Types'
    BY DEF IInv, Types, Labels, States
  <2>2. Numbers'
    BY <1>1 DEF IInv, Types, Numbers, Stays
  <2>3. QED
    BY <2>1, <2>2
<1>3. ASSUME NEW i \in Tid
      PROVE  (Placed(i) /\ Mutual(i) /\ Steady(i))'
  <2>1. Placed(i)'
    BY DEF IInv, Types, Placed, Inside, Holding, Scanned
  <2>2. Mutual(i)'
    BY DEF IInv, Types, Mutual, Holding
  <2>3. Steady(i)'
    BY <1>1 DEF IInv, Types, Numbers, Mutual, Holding, Steady, Stays
  <2>4. QED
    BY <2>1, <2>2, <2>3
<1>4. QED
  BY <1>1, <1>2, <1>3, StutterStep DEF IInv

\* The first to arrive finds the last barrier empty.
LEMMA Spins ==
  ASSUME IInv, NEW t \in Tid, spin(t)
  PROVE  IInv' /\ UNCHANGED Abstract!barrierVars
<1> USE DEF spin, Goto
<1>1. Stays /\ SameClosing
  BY DEF IInv, Types, Stays, SameClosing, Closing, Taking, Counted
<1>2. Types' /\ Numbers'
  BY <1>1 DEF IInv, Types, Numbers, Labels, States, Stays
<1>3. Counted' = {}
  BY <1>1 DEF IInv, Types, Placed, Counted, Inside, Holding, Stays
<1>4. ASSUME NEW i \in Tid
      PROVE  (Placed(i) /\ Mutual(i) /\ Steady(i))'
  <2>1. Placed(i)'
    BY DEF IInv, Types, Placed, Inside, Holding, Scanned
  <2>2. Mutual(i)' /\ Steady(i)'
    BY <1>3 DEF IInv, Types, Mutual, Holding, Steady
  <2>3. QED
    BY <2>1, <2>2
<1>5. QED
  BY <1>1, <1>2, <1>4, StutterStep DEF IInv

\* To be counted is to arrive.
LEMMA Counts ==
  ASSUME IInv, NEW t \in Tid, count(t)
  PROVE  IInv' /\ Abstract!Next
<1> USE DEF count, Goto
<1>1. Counted' = Counted \cup {t} /\ t \notin Counted /\ Taking' = Taking /\ t \in Taking
  BY DEF IInv, Types, Placed, Taking, Counted, Inside, Holding
<1>2. SameClosing /\ ~Closing
  BY DEF IInv, Types, Mutual, SameClosing, Closing, Holding
<1>3. barrierCounter = Cardinality(Counted) /\ barrierCounter' = Cardinality(Counted')
  <2>1. IsFiniteSet(Counted)
    BY Subsets, FiniteTid
  <2>2. barrierCounter = Cardinality(Counted)
    BY FS_EmptySet DEF IInv, Types, Numbers, Steady
  <2>3. QED
    BY <1>1, <2>1, <2>2, FS_AddElement
<1>4. Types' /\ Numbers'
  BY <1>1, <1>3 DEF IInv, Types, Numbers, Labels, States, Steady
<1>5. ASSUME NEW i \in Tid
      PROVE  (Placed(i) /\ Mutual(i) /\ Steady(i))'
  <2>1. Placed(i)'
    BY DEF IInv, Types, Placed, Inside, Holding, Scanned
  <2>2. Mutual(i)' /\ Steady(i)'
    BY DEF IInv, Types, Mutual, Holding, Steady
  <2>3. QED
    BY <2>1, <2>2
<1>6. Abstract!Arrive(t)
  <2>1. barrierCounter' > 0 /\ (barrierCounter = 0 => Counted = {})
    BY DEF IInv, Types, Steady
  <2>2. (IF barrierCounter > 0 THEN Counted ELSE {}) = Counted
    BY <2>1 DEF IInv, Types
  <2>3. (IF barrierCounter = 0 THEN Counted ELSE {}) = {}
    BY <2>1
  <2>4. (IF barrierCounter > 0 THEN Counted ELSE {})' = Counted \cup {t}
    BY <1>1, <2>1
  <2>5. (IF barrierCounter = 0 THEN Counted ELSE {})' = {}
    BY <2>1 DEF IInv, Types
  <2>6. UNCHANGED Closing
    BY <1>2 DEF SameClosing
  <2>7. QED
    BY <1>1, <1>2, <2>2, <2>3, <2>4, <2>5, <2>6 DEF Abstract!Arrive, Closing
<1>7. QED
  BY <1>4, <1>5, <1>6 DEF IInv, Abstract!Next

\* Whoever finds that the counter equals num_threads closes the barrier.
LEMMA CloseStep ==
  ASSUME IInv, NEW t \in Tid, pc[t] \in {"test", "timed"}, barrierCounter = numThreads,
         ~Closing, Closing', Stays, barrierCounter' = barrierCounter
  PROVE  Abstract!Next
<1>1. barrierCounter > 0 /\ Counted = Taking /\ t \in Counted
  BY AllCounted
<1>2. Abstract!Close
  BY <1>1 DEF Abstract!Close, Stays, Closing
<1>3. QED
  BY <1>2 DEF Abstract!Next

LEMMA Tests ==
  ASSUME IInv, NEW t \in Tid, test(t)
  PROVE  IInv' /\ [Abstract!Next]_(Abstract!barrierVars)
<1> USE DEF test, Goto
<1>1. Stays
  BY DEF IInv, Types, Stays, Taking, Counted
<1>2. Types' /\ Numbers'
  BY <1>1 DEF IInv, Types, Numbers, Labels, States, Stays
<1>3. ASSUME NEW i \in Tid
      PROVE  (Placed(i) /\ Mutual(i) /\ Steady(i))'
  <2>1. Placed(i)'
    BY DEF IInv, Types, Placed, Inside, Holding, Scanned
  <2>2. Mutual(i)' /\ Steady(i)'
    BY <1>1 DEF IInv, Types, Mutual, Holding, Steady, Stays
  <2>3. QED
    BY <2>1, <2>2
<1>4. ~Closing
  BY DEF IInv, Types, Mutual, Closing, Holding
<1>5. CASE barrierCounter = numThreads
  <2>1. Closing'
    BY <1>5 DEF IInv, Types, Closing
  <2>2. QED
    BY <1>1, <1>2, <1>3, <1>4, <1>5, <2>1, CloseStep DEF IInv
<1>6. CASE barrierCounter # numThreads
  <2>1. SameClosing
    BY <1>4, <1>6 DEF IInv, Types, SameClosing, Closing
  <2>2. QED
    BY <1>1, <1>2, <1>3, <2>1, StutterStep DEF IInv
<1>7. QED
  BY <1>5, <1>6

LEMMA Rechecks ==
  ASSUME IInv, NEW t \in Tid, recheck(t)
  PROVE  IInv' /\ Abstract!Next
<1> USE DEF recheck, Goto
<1>1. Stays
  BY DEF IInv, Types, Stays, Taking, Counted
<1>2. Types' /\ Numbers'
  BY <1>1 DEF IInv, Types, Numbers, Labels, States, Stays
<1>3. ASSUME NEW i \in Tid
      PROVE  (Placed(i) /\ Mutual(i) /\ Steady(i))'
  <2>1. Placed(i)'
    BY DEF IInv, Types, Placed, Inside, Holding, Scanned
  <2>2. Mutual(i)' /\ Steady(i)'
    BY <1>1, AllCounted DEF IInv, Types, Mutual, Holding, Steady, Stays
  <2>3. QED
    BY <2>1, <2>2
<1>4. ~Closing /\ Closing'
  BY DEF IInv, Types, Mutual, Closing, Holding
<1>5. QED
  BY <1>1, <1>2, <1>3, <1>4, CloseStep DEF IInv

LEMMA Opens ==
  ASSUME IInv, NEW t \in Tid, open(t)
  PROVE  IInv' /\ Abstract!Next
<1> USE DEF open, Goto
<1>1. Stays
  BY DEF IInv, Types, Stays, Taking, Counted
<1>2. Types' /\ Numbers'
  BY <1>1 DEF IInv, Types, Numbers, Labels, States, Stays
<1>3. ASSUME NEW i \in Tid
      PROVE  (Placed(i) /\ Mutual(i) /\ Steady(i))'
  <2>1. Placed(i)'
    BY DEF IInv, Types, Placed, Inside, Holding, Scanned
  <2>2. Mutual(i)' /\ Steady(i)'
    BY DEF IInv, Types, Mutual, Holding, Steady
  <2>3. QED
    BY <2>1, <2>2
<1>4. Closing /\ ~Closing'
  BY DEF IInv, Types, Mutual, Closing, Holding
<1>5. barrierCounter > 0 /\ barrierCounter' = 0
  BY DEF IInv, Steady
<1>6. Abstract!Open
  BY <1>1, <1>4, <1>5 DEF Abstract!Open, Stays, Closing
<1>7. QED
  BY <1>2, <1>3, <1>6 DEF IInv, Abstract!Next

\* The semaphore lets a thread go only after its barrier has opened.
LEMMA Leaves ==
  ASSUME IInv, NEW t \in Tid, leave(t)
  PROVE  IInv' /\ Abstract!Next
<1> USE DEF leave, Goto, SetState, barrierVars
<1>1. barrierCounter = 0
  BY DEF IInv, Types, Numbers
<1>2. Counted' = Counted \ {t} /\ t \in Counted /\ Taking' = Taking /\ t \in Taking
  BY DEF IInv, Types, Placed, Taking, Counted, Inside, Holding
<1>3. SameClosing
  BY DEF IInv, Types, SameClosing, Closing
<1>4. Types' /\ Numbers'
  BY <1>1, <1>2 DEF IInv, Types, Numbers, Labels, States
<1>5. ASSUME NEW i \in Tid
      PROVE  (Placed(i) /\ Mutual(i) /\ Steady(i))'
  <2>1. Placed(i)'
    BY DEF IInv, Types, Placed, Inside, Holding, Scanned
  <2>2. Mutual(i)' /\ Steady(i)'
    BY <1>1, <1>2 DEF IInv, Types, Mutual, Holding, Steady
  <2>3. QED
    BY <2>1, <2>2
<1>6. Abstract!Leave(t)
  BY <1>1, <1>2, <1>3 DEF Abstract!Leave, SameClosing, Closing
<1>7. QED
  BY <1>4, <1>5, <1>6 DEF IInv, Abstract!Next

LEMMA Starting ==
  ASSUME Init
  PROVE  IInv /\ Abstract!Init
<1> USE DEF Init
<1>1. Taking = {} /\ Counted = {}
  BY DEF Taking, Counted
<1>2. Types
  BY DEF Types, Labels, States
<1>3. Numbers
  BY <1>1, FS_EmptySet DEF Numbers
<1>4. ASSUME NEW i \in Tid
      PROVE  Placed(i) /\ Mutual(i) /\ Steady(i)
  BY DEF Placed, Inside, Holding, Mutual, Steady
<1>5. Abstract!Init
  BY <1>1 DEF Abstract!Init
<1>6. QED
  BY <1>2, <1>3, <1>4, <1>5 DEF IInv

LEMMA Stuttering ==
  ASSUME IInv, UNCHANGED vars
  PROVE  IInv' /\ UNCHANGED Abstract!barrierVars
<1> USE DEF vars, threadVars, barrierVars
<1>1. Stays /\ SameClosing
  BY DEF Stays, SameClosing, Closing, Taking, Counted
<1>2. Types' /\ Numbers'
  BY <1>1 DEF IInv, Types, Numbers, Stays
<1>3. ASSUME NEW i \in Tid
      PROVE  (Placed(i) /\ Mutual(i) /\ Steady(i))'
  BY <1>1 DEF IInv, Placed, Scanned, Mutual, Steady, Stays
<1>4. QED
  BY <1>1, <1>2, <1>3, StutterStep DEF IInv

\* Every step of the code is a step of the abstract barrier, or none.
LEMMA EveryStep ==
  ASSUME InOrder, IInv, [Next]_vars
  PROVE  IInv' /\ [Abstract!Next]_(Abstract!barrierVars)
<1>1. ASSUME NEW t \in Tid, threadStart(t)
      PROVE  IInv' /\ [Abstract!Next]_(Abstract!barrierVars)
  BY <1>1, Starts
<1>2. ASSUME NEW t \in Tid, exec(t)
      PROVE  IInv' /\ [Abstract!Next]_(Abstract!barrierVars)
  BY <1>2, Executes
<1>3. ASSUME NEW t \in Tid, barrier(t)
      PROVE  IInv' /\ [Abstract!Next]_(Abstract!barrierVars)
  BY <1>3, MovesTime, Locks, Spins, Counts, Tests, Opens, Leaves, Rechecks DEF barrier
<1>4. ASSUME NEW t \in Tid, threadFini(t) \/ sysBefore(t) \/ sysAfter(t)
      PROVE  IInv' /\ [Abstract!Next]_(Abstract!barrierVars)
  BY <1>4, Finishes, Suspends, Resumes
<1>5. CASE UNCHANGED vars
  BY <1>5, Stuttering
<1>6. QED
  BY <1>1, <1>2, <1>3, <1>4, <1>5 DEF Next, Step

\* Whatever threads do - start, finish, wait in system calls for as long as
\* they like - nobody leaves a barrier that somebody has not reached, and
\* nobody enters the next one before the last has been left.
THEOREM BarrierImplemented ==
  ASSUME InOrder
  PROVE  Spec => IsBarrier
<1>1. Init => IInv /\ Abstract!Init
  BY Starting
<1>2. IInv /\ [Next]_vars => IInv' /\ [Abstract!Next]_(Abstract!barrierVars)
  BY EveryStep
<1>3. QED
  BY <1>1, <1>2, PTL DEF Spec, IsBarrier, Abstract!Spec
----------------------------------------------------------------------------
(***************************************************************************)
(* The clocks.                                                             *)
(***************************************************************************)
\* The latest of the clocks, and their average, are clocks.
LEMMA LatestClock ==
  ASSUME cycle \in [Tid -> Nat]
  PROVE  Max({0} \cup {cycle[i] : i \in Scanned}) \in Nat
<1> DEFINE S == {0} \cup {cycle[i] : i \in Scanned}
           N == MaxTid + 1
           B == {m \in 0..N : \E x \in Nat : \A i \in Tid : i < m => cycle[i] <= x}
           T == {x \in Nat : \A y \in S : y <= x}
<1>1. N \in Nat /\ S \subseteq Nat
  BY DEF Scanned
<1>2. 0 \in B
  <2>1. \A i \in Tid : ~(i < 0)
    OBVIOUS
  <2>2. QED
    BY <1>1, <2>1
<1>3. ASSUME NEW m \in 1..N, m - 1 \in B
      PROVE  m \in B
  <2>1. PICK x \in Nat : \A i \in Tid : i < m - 1 => cycle[i] <= x
    BY <1>3
  <2>2. m - 1 \in Tid /\ cycle[m - 1] \in Nat
    BY <1>1
  <2>3. \E z \in Nat : x <= z /\ cycle[m - 1] <= z
    <3>1. CASE x <= cycle[m - 1]
      BY <2>2, <3>1
    <3>2. CASE ~(x <= cycle[m - 1])
      BY <2>2, <3>2
    <3>3. QED
      BY <3>1, <3>2
  <2>4. PICK z \in Nat : x <= z /\ cycle[m - 1] <= z
    BY <2>3
  <2>5. \A i \in Tid : i < m => cycle[i] <= z
    <3> SUFFICES ASSUME NEW i \in Tid, i < m PROVE cycle[i] <= z
      OBVIOUS
    <3>1. CASE i = m - 1
      BY <2>4, <3>1
    <3>2. CASE i # m - 1
      <4>1. i < m - 1 /\ cycle[i] \in Nat
        BY <1>1, <3>2
      <4>2. QED
        BY <2>1, <2>4, <4>1
    <3>3. QED
      BY <3>1, <3>2
  <2>6. m \in 0..N
    BY <1>1
  <2>7. QED
    BY <2>5, <2>6
<1>4. N \in B
  <2> HIDE DEF B, N
  <2>1. 0..N \subseteq B
    BY <1>1, <1>2, <1>3, BoundedInduction
  <2>2. QED
    BY <1>1, <2>1
<1>5. T # {}
  <2>1. PICK x \in Nat : \A i \in Tid : i < N => cycle[i] <= x
    BY <1>4
  <2>2. \A i \in Tid : i < N
    OBVIOUS
  <2>3. x \in T
    BY <2>1, <2>2 DEF Scanned
  <2>4. QED
    BY <2>3
<1>6. PICK x \in T : \A z \in T : x <= z
  <2> HIDE DEF T
  <2>1. T \subseteq Nat
    BY DEF T
  <2>2. QED
    BY <1>5, <2>1, LeastNumber
<1>7. x \in S
  <2>1. SUFFICES ASSUME x \notin S PROVE FALSE
    OBVIOUS
  <2>2. x \in Nat /\ x # 0
    BY <2>1
  <2>3. \A y \in S : y \in Nat /\ y <= x /\ y # x
    BY <1>1, <2>1
  <2> HIDE DEF S
  <2>4. x - 1 \in T
    BY <2>2, <2>3
  <2>5. QED
    BY <1>6, <2>2, <2>4
<1>8. \E y \in S : \A z \in S : y >= z
  <2>1. \A z \in S : z <= x /\ z \in Nat
    BY <1>1
  <2> HIDE DEF S, T
  <2>2. x \in Nat
    BY <1>6 DEF T
  <2>3. QED
    BY <1>7, <2>1, <2>2
<1>9. Max(S) \in S
  <2> HIDE DEF S
  <2> QED BY <1>8 DEF Max
<1>10. QED
  BY <1>1, <1>9

\* So is the sum of the clocks of the active threads.
LEMMA SumOfClocks ==
  ASSUME cycle \in [Tid -> Nat]
  PROVE  ActiveSum \in [0..MaxTid + 1 -> Nat]
<1> DEFINE N == MaxTid + 1
           Part(i) == IF state[i - 1] = "ACTIVE" THEN cycle[i - 1] ELSE 0
           F == [i \in 1..N |-> [x \in Nat |-> x + Part(i)]]
           Sums(f) == f = [n \in 0..N |-> IF n = 0 THEN 0 ELSE f[n - 1] + Part(n)]
<1>1. N \in Nat
  OBVIOUS
<1>2. \A i \in 1..N : Part(i) \in Nat
  <2>1. \A i \in 1..N : i - 1 \in Tid
    OBVIOUS
  <2>2. QED
    BY <2>1
<1> HIDE DEF Part
<1>3. \A i \in 1..N : F[i] \in [Nat -> Nat]
  BY <1>2
<1>4. \E f \in [0..N -> Nat] : IsRun(f, 0, F, N)
  <2> HIDE DEF F, N
  <2> QED BY <1>1, <1>3, RunExists
<1>5. PICK f \in [0..N -> Nat] : IsRun(f, 0, F, N)
  BY <1>4
<1>6. f[0] = 0 /\ \A n \in 1..N : f[n] = f[n - 1] + Part(n)
  <2>1. \A n \in 1..N : n - 1 \in 0..N /\ f[n - 1] \in Nat
    BY <1>1
  <2>2. QED
    BY <1>5, <2>1 DEF IsRun
<1> HIDE DEF N
<1>7. Sums(f)
  <2>1. \A n \in 0..N : f[n] = IF n = 0 THEN 0 ELSE f[n - 1] + Part(n)
    BY <1>1, <1>6
  <2>2. f = [n \in 0..N |-> f[n]]
    OBVIOUS
  <2>3. QED
    BY <2>1, <2>2, Zenon
<1>8. ActiveSum = CHOOSE g : Sums(g)
  BY DEF ActiveSum, N, Part
<1> HIDE DEF Sums
<1>9. Sums(ActiveSum)
  BY <1>7, <1>8
<1>10. \A n \in 0..N : ActiveSum[n] = IF n = 0 THEN 0 ELSE ActiveSum[n - 1] + Part(n)
  BY <1>9, Zenon DEF Sums
<1> DEFINE K == {n \in 0..N : ActiveSum[n] \in Nat}
<1>11. 0 \in K
  <2>1. 0 \in 0..N
    BY <1>1
  <2>2. ActiveSum[0] = 0
    BY <1>10, <2>1
  <2>3. QED
    BY <2>1, <2>2
<1>12. ASSUME NEW n \in 1..N, n - 1 \in K PROVE n \in K
  <2>1. n \in 0..N /\ n # 0
    BY <1>1
  <2>2. ActiveSum[n] = ActiveSum[n - 1] + Part(n)
    BY <1>10, <2>1
  <2>3. QED
    BY <1>2, <1>12, <2>1, <2>2
<1>13. 0..N \subseteq K
  <2> HIDE DEF K
  <2> QED BY <1>1, <1>11, <1>12, BoundedInduction
<1>14. ActiveSum = [n \in 0..N |-> ActiveSum[n]]
  BY <1>9, Zenon DEF Sums
<1>15. QED
  BY <1>13, <1>14 DEF N

LEMMA AverageClock ==
  ASSUME cycle \in [Tid -> Nat], maxThreads \in 0..MaxTid + 1
  PROVE  AvgCycle \in Nat
<1> DEFINE active == {i \in Scanned : state[i] = "ACTIVE"}
<1>1. CASE active = {}
  BY <1>1, LatestClock DEF AvgCycle
<1>2. CASE active # {}
  <2>1. IsFiniteSet(active) /\ Cardinality(active) \in Nat
    BY FiniteTid DEF Scanned
  <2>2. Cardinality(active) # 0
    <3> HIDE DEF active
    <3> QED BY <1>2, <2>1, FS_EmptySet
  <2>3. ActiveSum[maxThreads] \in Nat
    BY SumOfClocks
  <2>4. AvgCycle = ActiveSum[maxThreads] \div Cardinality(active)
    BY <1>2 DEF AvgCycle
  <2> HIDE DEF active
  <2>5. \A x \in Nat, y \in Nat \ {0} : x \div y \in Nat
    OBVIOUS
  <2>6. QED
    BY <2>1, <2>2, <2>3, <2>4, <2>5
<1>3. QED
  BY <1>1, <1>2
----------------------------------------------------------------------------
\* The types of what the barrier does not depend on.
Clocks ==
  /\ cycle \in [Tid -> Nat] /\ calls \in [Tid -> 0..MaxCalls]
  /\ numProcs \in 1..NumProcs /\ barrierTime \in Nat /\ maxThreads \in 0..MaxTid + 1

\* The inductive types and numbers imply those that are stated.
LEMMA AllTyped ==
  ASSUME IInv, Clocks
  PROVE  TypeOK
<1>1. \A S \in SUBSET Tid : Cardinality(S) \in 0..MaxTid + 1
  <2> SUFFICES ASSUME NEW S \in SUBSET Tid PROVE Cardinality(S) \in 0..MaxTid + 1
    OBVIOUS
  <2>1. IsFiniteSet(Tid) /\ Cardinality(Tid) = MaxTid + 1
    BY FS_Interval
  <2>2. Cardinality(S) <= Cardinality(Tid)
    BY <2>1, FS_Subset
  <2>3. QED
    BY <2>1, <2>2, FiniteTid
<1>2. numThreads \in 0..MaxTid + 1 /\ barrierCounter \in 0..MaxTid + 1
  <2>1. Cardinality(Taking) \in 0..MaxTid + 1 /\ Cardinality(Counted) \in 0..MaxTid + 1
    BY <1>1, Subsets
  <2>2. QED
    BY <2>1 DEF IInv, Numbers
<1>3. QED
  BY <1>2 DEF TypeOK, IInv, Types, Clocks, Labels, States

LEMMA ClocksStep ==
  ASSUME InOrder, IInv, Clocks, [Next]_vars
  PROVE  Clocks'
<1> USE DEF Clocks, Goto, SetState, barrierVars
<1>1. ASSUME NEW t \in Tid, threadStart(t) PROVE Clocks'
  <2>1. PICK i \in {0} \cup 0..maxThreads - 1 : cycle' = [cycle EXCEPT ![t] = cycle[i]]
    BY <1>1 DEF threadStart
  <2>2. i \in Tid
    OBVIOUS
  <2>3. cycle' \in [Tid -> Nat]
    BY <2>1, <2>2
  <2>4. QED
    BY <1>1, <2>3 DEF threadStart
<1>2. ASSUME NEW t \in Tid, exec(t) PROVE Clocks'
  <2>1. PICK n \in Nat : cycle' = [cycle EXCEPT ![t] = n]
    <3>1. PICK c \in Costs : \/ \E d \in Delays : cycle' = [cycle EXCEPT ![t] = cycle[t] + c + d]
                             \/ cycle' = [cycle EXCEPT ![t] = cycle[t] + c]
      BY <1>2 DEF exec
    <3>2. QED
      BY <3>1
  <2>2. QED
    BY <1>2, <2>1 DEF exec
<1>3. ASSUME NEW t \in Tid, barrier(t) PROVE Clocks'
  <2>1. ASSUME open(t) PROVE Clocks'
    <3>1. numProcs' \in 1..NumProcs /\ barrierTime' = barrierTime + Interval
      BY <2>1 DEF open
    <3>2. QED
      BY <2>1, <3>1 DEF open
  <2>2. ASSUME solo(t) PROVE Clocks'
    BY <2>2 DEF solo
  <2>3. QED
    BY <1>3, <2>1, <2>2 DEF barrier, lock, spin, count, test, leave, recheck
<1>4. ASSUME NEW t \in Tid, threadFini(t) PROVE Clocks'
  BY <1>4 DEF threadFini
<1>5. ASSUME NEW t \in Tid, sysBefore(t) PROVE Clocks'
  <2>1. calls' = [calls EXCEPT ![t] = calls[t] + 1] /\ calls[t] < MaxCalls
    BY <1>5 DEF sysBefore
  <2>2. calls' \in [Tid -> 0..MaxCalls]
    BY <2>1
  <2>3. QED
    BY <1>5, <2>2 DEF sysBefore
<1>6. ASSUME NEW t \in Tid, sysAfter(t) PROVE Clocks'
  <2>1. PICK n \in Nat : cycle' = [cycle EXCEPT ![t] = n]
    <3>1. AvgCycle \in Nat
      BY AverageClock
    <3>2. \/ cycle' = [cycle EXCEPT ![t] = AvgCycle]
          \/ cycle' = [cycle EXCEPT ![t] = cycle[t] + SyscallCost]
      BY <1>6 DEF sysAfter
    <3>3. QED
      BY <3>1, <3>2
  <2>2. QED
    BY <1>6, <2>1 DEF sysAfter
<1>7. CASE UNCHANGED vars
  BY <1>7 DEF vars, threadVars
<1>8. QED
  BY <1>1, <1>2, <1>3, <1>4, <1>5, <1>6, <1>7 DEF Next, Step
----------------------------------------------------------------------------
(***************************************************************************)
(* The time of the barrier, while there are other processes.               *)
(***************************************************************************)
Grid == {k * Interval : k \in Nat}

\* Who is on the way to the barrier has reached its time, or that of the last
\* one; the latter only until the next one closes.
Late(t) ==
  /\ pc[t] = "lock" =>
       cycle[t] + Interval >= barrierTime /\ (Closing => cycle[t] >= barrierTime)
  /\ pc[t] \in {"spin", "count"} => cycle[t] + Interval >= barrierTime
  /\ t \in Counted /\ barrierCounter > 0 => cycle[t] + Interval >= barrierTime

Timely == numProcs > 1 =>
  /\ barrierTime \in Grid
  /\ \A t \in Tid : pc[t] # "solo" /\ Late(t)

Safe == IInv /\ Clocks

\* A step of thread t that leaves the barrier as it is.
Aside(t) ==
  /\ barrierTime' = barrierTime /\ barrierCounter' = barrierCounter /\ numProcs' = numProcs
  /\ \A i \in Tid \ {t} : pc'[i] = pc[i] /\ cycle'[i] = cycle[i]
  /\ pc'[t] \in {"run", "sys", "gone"}

LEMMA AsideStep ==
  ASSUME Safe, Timely, NEW t \in Tid, Aside(t)
  PROVE  Timely'
<1>1. Closing' => Closing
  BY DEF Aside, Closing
<1>2. \A i \in Tid \ {t} : i \in Counted' => i \in Counted
  BY DEF Aside, Counted
<1>3. t \notin Counted'
  BY DEF Aside, Counted
<1>4. ASSUME numProcs > 1, NEW i \in Tid PROVE pc'[i] # "solo" /\ Late(i)'
  <2>1. CASE i = t
    BY <1>3, <2>1 DEF Aside, Late
  <2>2. CASE i # t
    BY <1>1, <1>2, <1>4, <2>2 DEF Aside, Late, Timely
  <2>3. QED
    BY <2>1, <2>2
<1>5. QED
  BY <1>4 DEF Timely, Aside, Grid

LEMMA ExecTimely ==
  ASSUME Safe, Timely, NEW t \in Tid, exec(t)
  PROVE  Timely'
<1> USE DEF Goto
<1>1. pc \in [Tid -> Labels] /\ cycle \in [Tid -> Nat] /\ barrierTime \in Nat /\ numProcs \in Nat
  BY DEF Safe, IInv, Types, Clocks
<1>2. PICK c \in Costs :
        LET now == cycle[t] + c IN
        IF (numThreads > 1 \/ numProcs > 1) /\ now >= barrierTime
        THEN /\ \E d \in Delays : cycle' = [cycle EXCEPT ![t] = now + d]
             /\ Goto(t, "lock")
        ELSE /\ cycle' = [cycle EXCEPT ![t] = now]
             /\ Goto(t, IF numThreads = 1 /\ numProcs = 1 THEN "solo" ELSE "run")
  BY DEF exec
<1>3. UNCHANGED <<barrierTime, barrierCounter, numProcs>> /\ pc[t] = "run"
  BY DEF exec, barrierVars
<1>4. ASSUME numProcs > 1 PROVE Timely'
  <2>1. CASE cycle[t] + c >= barrierTime
    <3>1. PICK d \in Delays : cycle' = [cycle EXCEPT ![t] = cycle[t] + c + d] /\ pc' = [pc EXCEPT ![t] = "lock"]
      BY <1>2, <1>4, <2>1
    <3>2. cycle'[t] = cycle[t] + c + d /\ cycle'[t] >= barrierTime /\ cycle'[t] \in Nat /\ pc'[t] = "lock"
      BY <1>1, <2>1, <3>1
    <3>3. \A i \in Tid \ {t} : pc'[i] = pc[i] /\ cycle'[i] = cycle[i]
      BY <1>1, <3>1
    <3>4. Closing' => Closing
      BY <3>2, <3>3 DEF Closing
    <3>5. \A i \in Tid \ {t} : i \in Counted' => i \in Counted
      BY <3>3 DEF Counted
    <3>6. t \notin Counted'
      BY <3>2 DEF Counted
    <3>7. ASSUME NEW i \in Tid PROVE pc'[i] # "solo" /\ Late(i)'
      <4>1. CASE i = t
        BY <1>1, <1>3, <3>2, <3>6, <4>1 DEF Late
      <4>2. CASE i # t
        BY <1>3, <1>4, <3>3, <3>4, <3>5, <4>2 DEF Late, Timely
      <4>3. QED
        BY <4>1, <4>2
    <3>8. QED
      BY <1>3, <1>4, <3>7 DEF Timely, Grid
  <2>2. CASE ~(cycle[t] + c >= barrierTime)
    <3>1. cycle' = [cycle EXCEPT ![t] = cycle[t] + c] /\ pc' = [pc EXCEPT ![t] = "run"]
      BY <1>2, <1>4, <2>2
    <3>2. Aside(t)
      BY <1>1, <1>3, <3>1 DEF Aside
    <3>3. QED
      BY <3>2, AsideStep
  <2>3. QED
    BY <2>1, <2>2
<1>5. QED
  BY <1>3, <1>4 DEF Timely

LEMMA StartTimely ==
  ASSUME Safe, Timely, NEW t \in Tid, threadStart(t)
  PROVE  Timely'
<1>1. pc \in [Tid -> Labels] /\ cycle \in [Tid -> Nat]
  BY DEF Safe, IInv, Types, Clocks
<1>2. PICK i \in {0} \cup 0..maxThreads - 1 : cycle' = [cycle EXCEPT ![t] = cycle[i]]
  BY DEF threadStart
<1>3. Aside(t)
  BY <1>1, <1>2 DEF Aside, threadStart, Goto, barrierVars
<1>4. QED
  BY <1>3, AsideStep

LEMMA QuietTimely ==
  ASSUME Safe, Timely, NEW t \in Tid, threadFini(t) \/ sysBefore(t) \/ sysAfter(t) \/ leave(t)
  PROVE  Timely'
<1>1. pc \in [Tid -> Labels] /\ cycle \in [Tid -> Nat]
  BY DEF Safe, IInv, Types, Clocks
<1>2. \E n : cycle' = [cycle EXCEPT ![t] = n]
  <2>1. CASE threadFini(t) \/ sysBefore(t) \/ leave(t)
    <3>1. cycle' = cycle
      BY <2>1 DEF threadFini, sysBefore, leave
    <3>2. cycle = [cycle EXCEPT ![t] = cycle[t]]
      BY <1>1
    <3>3. QED
      BY <3>1, <3>2
  <2>2. CASE sysAfter(t)
    BY <2>2 DEF sysAfter
  <2>3. QED
    BY <2>1, <2>2
<1>3. PICK n : cycle' = [cycle EXCEPT ![t] = n]
  BY <1>2
<1>4. Aside(t)
  BY <1>1, <1>3 DEF Aside, threadFini, sysBefore, sysAfter, leave, Goto, barrierVars
<1>5. QED
  BY <1>4, AsideStep
----------------------------------------------------------------------------
\* A step that moves thread t within the barrier and leaves its time alone.
Within(t, label) ==
  /\ pc \in [Tid -> Labels] /\ pc' = [pc EXCEPT ![t] = label]
  /\ cycle' = cycle /\ barrierTime' = barrierTime /\ numProcs' = numProcs

LEMMA LockTimely ==
  ASSUME Safe, Timely, NEW t \in Tid, lock(t)
  PROVE  Timely'
<1>1. PICK label \in {"spin", "count"} : Within(t, label)
  BY DEF Within, Safe, IInv, Types, lock, Goto
<1>2. pc[t] = "lock" /\ barrierCounter' = barrierCounter
  BY DEF lock
<1>3. /\ pc'[t] = label
      /\ \A i \in Tid \ {t} : pc'[i] = pc[i]
  BY <1>1 DEF Within
<1>4. ~Closing'
  <2>1. ~Closing
    BY DEF lock, Safe, IInv, Mutual, Closing, Holding
  <2>2. QED
    BY <1>3, <2>1 DEF Closing
<1>5. \A i \in Tid : i \in Counted' <=> i \in Counted
  BY <1>2, <1>3 DEF Counted
<1>6. ASSUME numProcs > 1, NEW i \in Tid PROVE pc'[i] # "solo" /\ Late(i)'
  <2>1. pc[i] # "solo" /\ Late(i)
    BY <1>6 DEF Timely
  <2>2. CASE i = t
    BY <1>1, <1>2, <1>3, <1>5, <2>1, <2>2 DEF Late, Within
  <2>3. CASE i # t
    BY <1>1, <1>2, <1>3, <1>4, <1>5, <2>1, <2>3 DEF Late, Within
  <2>4. QED
    BY <2>2, <2>3
<1>7. QED
  BY <1>1, <1>6 DEF Timely, Grid, Within

LEMMA SpinTimely ==
  ASSUME Safe, Timely, NEW t \in Tid, spin(t)
  PROVE  Timely'
<1>1. Within(t, "count") /\ pc[t] = "spin" /\ barrierCounter' = barrierCounter
  BY DEF Within, Safe, IInv, Types, spin, Goto
<1>2. /\ pc'[t] = "count"
      /\ \A i \in Tid \ {t} : pc'[i] = pc[i]
  BY <1>1 DEF Within
<1>3. Closing' => Closing
  BY <1>2 DEF Closing
<1>4. \A i \in Tid : i \in Counted' <=> i \in Counted
  BY <1>1, <1>2 DEF Counted
<1>5. ASSUME numProcs > 1, NEW i \in Tid PROVE pc'[i] # "solo" /\ Late(i)'
  <2>1. pc[i] # "solo" /\ Late(i)
    BY <1>5 DEF Timely
  <2>2. QED
    BY <1>1, <1>2, <1>3, <1>4, <2>1 DEF Late, Within
<1>6. QED
  BY <1>1, <1>5 DEF Timely, Grid, Within

LEMMA CountTimely ==
  ASSUME Safe, Timely, NEW t \in Tid, count(t)
  PROVE  Timely'
<1>1. Within(t, "test") /\ pc[t] = "count"
  BY DEF Within, Safe, IInv, Types, count, Goto
<1>2. /\ pc'[t] = "test"
      /\ \A i \in Tid \ {t} : pc'[i] = pc[i]
  BY <1>1 DEF Within
<1>3. Closing' => Closing
  BY <1>2 DEF Closing
<1>4. \A i \in Tid \ {t} : i \in Counted' => i \in Counted
  BY <1>2 DEF Counted
<1>5. Counted # {} => barrierCounter > 0
  BY <1>1 DEF Safe, IInv, Types, Steady
<1>6. ASSUME numProcs > 1, NEW i \in Tid PROVE pc'[i] # "solo" /\ Late(i)'
  <2>1. pc[i] # "solo" /\ Late(i)
    BY <1>6 DEF Timely
  <2>2. CASE i = t
    BY <1>1, <1>2, <2>1, <2>2 DEF Late, Within
  <2>3. CASE i # t
    BY <1>1, <1>2, <1>3, <1>4, <1>5, <2>1, <2>3 DEF Late, Within
  <2>4. QED
    BY <2>2, <2>3
<1>7. QED
  BY <1>1, <1>6 DEF Timely, Grid, Within

\* Who closes a barrier finds nobody on the way to it.
LEMMA NobodyAtLock ==
  ASSUME Safe, barrierCounter = numThreads, NEW t \in Tid, pc[t] \in {"test", "timed"},
         NEW i \in Tid
  PROVE  pc[i] # "lock"
<1>1. Counted = Taking
  BY AllCounted DEF Safe
<1>2. pc[i] = "lock" => i \in Taking /\ i \notin Counted
  BY DEF Safe, IInv, Placed, Taking, Counted
<1>3. QED
  BY <1>1, <1>2

LEMMA CloseTimely ==
  ASSUME Safe, Timely, NEW t \in Tid, test(t) \/ recheck(t)
  PROVE  Timely'
<1>1. PICK label \in {"open", "timed", "reopen"} :
        /\ Within(t, label)
        /\ label # "timed" => barrierCounter = numThreads
  BY DEF Within, Safe, IInv, Types, test, recheck, Goto
<1>2. pc[t] \in {"test", "timed"} /\ barrierCounter' = barrierCounter
  BY DEF test, recheck
<1>3. /\ pc'[t] = label
      /\ \A i \in Tid \ {t} : pc'[i] = pc[i]
  BY <1>1 DEF Within
<1>4. \A i \in Tid : i \in Counted' <=> i \in Counted
  BY <1>2, <1>3 DEF Counted
<1>5. \A i \in Tid : pc'[i] = "lock" => (Closing' => Closing)
  <2>1. CASE label = "timed"
    BY <1>3, <2>1 DEF Closing
  <2>2. CASE label # "timed"
    <3>1. \A i \in Tid : pc[i] # "lock"
      BY <1>1, <1>2, <2>2, NobodyAtLock
    <3>2. QED
      BY <1>3, <3>1
  <2>3. QED
    BY <2>1, <2>2
<1>6. ASSUME numProcs > 1, NEW i \in Tid PROVE pc'[i] # "solo" /\ Late(i)'
  <2>1. pc[i] # "solo" /\ Late(i)
    BY <1>6 DEF Timely
  <2>2. CASE i = t
    BY <1>1, <1>2, <1>3, <1>4, <2>1, <2>2 DEF Late, Within
  <2>3. CASE i # t
    BY <1>1, <1>2, <1>3, <1>4, <1>5, <2>1, <2>3 DEF Late, Within
  <2>4. QED
    BY <2>2, <2>3
<1>7. QED
  BY <1>1, <1>6 DEF Timely, Grid, Within

LEMMA OpenTimely ==
  ASSUME Safe, Timely, NEW t \in Tid, open(t)
  PROVE  Timely'
<1>1. /\ pc \in [Tid -> Labels] /\ cycle \in [Tid -> Nat] /\ barrierTime \in Nat
      /\ numProcs \in Nat
  BY DEF Safe, IInv, Types, Clocks
<1>2. /\ pc' = [pc EXCEPT ![t] = "timed"] /\ pc[t] \in {"open", "reopen"}
      /\ cycle' = cycle /\ barrierTime' = barrierTime + Interval /\ barrierCounter' = 0
  BY DEF open, Goto
<1>3. numProcs' > 1 => numProcs > 1
  BY <1>1 DEF open
<1>4. Closing
  BY <1>2 DEF Closing
<1>5. \A i \in Tid \ {t} : pc[i] \notin Holding
  BY <1>2 DEF Safe, IInv, Types, Mutual, Holding
<1>6. /\ pc'[t] = "timed"
      /\ \A i \in Tid \ {t} : pc'[i] = pc[i]
  BY <1>1, <1>2
<1>7. ~Closing'
  BY <1>5, <1>6 DEF Closing, Holding
<1>8. ASSUME numProcs > 1, NEW i \in Tid PROVE pc'[i] # "solo" /\ Late(i)'
  <2>1. pc[i] # "solo" /\ Late(i)
    BY <1>8 DEF Timely
  <2>2. CASE i = t
    BY <1>2, <1>6, <2>2 DEF Late
  <2>3. CASE i # t
    <3>1. pc'[i] = "lock" => cycle'[i] + Interval >= barrierTime'
      BY <1>1, <1>2, <1>4, <1>6, <2>1, <2>3 DEF Late
    <3>2. pc'[i] \notin {"spin", "count"}
      BY <1>5, <1>6, <2>3 DEF Holding
    <3>3. QED
      BY <1>2, <1>6, <1>7, <2>1, <2>3, <3>1, <3>2 DEF Late
  <2>4. QED
    BY <2>2, <2>3
<1>9. ASSUME numProcs > 1 PROVE barrierTime' \in Grid
  <2>1. PICK k \in Nat : barrierTime = k * Interval
    BY <1>9 DEF Timely, Grid
  <2>2. barrierTime' = (k + 1) * Interval /\ k + 1 \in Nat
    BY <1>2, <2>1
  <2>3. QED
    BY <2>2 DEF Grid
<1>10. QED
  BY <1>3, <1>8, <1>9 DEF Timely, Grid

LEMMA TimelyStep ==
  ASSUME Safe, Timely, [Next]_vars
  PROVE  Timely'
<1>1. ASSUME NEW t \in Tid, barrier(t) PROVE Timely'
  <2>1. ASSUME solo(t) PROVE Timely'
    BY <2>1 DEF Timely, solo, barrierVars
  <2>2. QED
    BY <1>1, <2>1, LockTimely, SpinTimely, CountTimely, CloseTimely, OpenTimely, QuietTimely
       DEF barrier
<1>2. CASE UNCHANGED vars
  BY <1>2 DEF vars, threadVars, barrierVars, Timely, Grid, Late, Closing, Counted
<1>3. QED
  BY <1>1, <1>2, StartTimely, ExecTimely, QuietTimely DEF Next, Step

LEMMA StartsTimely ==
  ASSUME Init
  PROVE  Clocks /\ Timely
<1>1. Clocks
  BY DEF Init, Clocks
<1>2. barrierTime \in Grid
  <2>1. Interval = 1 * Interval
    OBVIOUS
  <2>2. QED
    BY <2>1 DEF Init, Grid
<1>3. \A t \in Tid : pc[t] # "solo" /\ Late(t)
  BY DEF Init, Late, Counted
<1>4. QED
  BY <1>1, <1>2, <1>3 DEF Timely

LEMMA BarrierInvariants ==
  ASSUME InOrder
  PROVE  Spec => [](Safe /\ Timely)
<1>1. Init => Safe /\ Timely
  BY Starting, StartsTimely DEF Safe
<1>2. Safe /\ Timely /\ [Next]_vars => (Safe /\ Timely)'
  BY EveryStep, ClocksStep, TimelyStep DEF Safe
<1>3. QED
  BY <1>1, <1>2, PTL DEF Spec

\* Both rules ask whether the same multiple of the interval is one of the
\* longer interval.
LEMMA SameMultiples ==
  ASSUME NEW i \in Nat \ {0}, NEW m \in Nat \ {0}, NEW k \in Nat
  PROVE  ((k * i) \div i) % ((m * i) \div i) = 0 <=> (k * i) % (m * i) = 0
<1>1. \A x \in Nat : (x * i) \div i = x
  <2> SUFFICES ASSUME NEW x \in Nat PROVE (x * i) \div i = x
    OBVIOUS
  <2>1. x * i \in Nat
    OBVIOUS
  <2> DEFINE q == (x * i) \div i
             r == (x * i) % i
  <2>2. q \in Nat /\ r \in 0..i - 1 /\ x * i = i * q + r
    BY <2>1
  <2> HIDE DEF q, r
  <2>3. i * (x - q) = r /\ x - q \in Int
    BY <2>2
  <2>4. ~(x - q >= 1)
    <3>1. x - q >= 1 => i * (x - q) >= i * 1
      BY <2>3
    <3>2. QED
      BY <2>2, <2>3, <3>1
  <2>5. ~(x - q <= -1)
    <3>1. x - q <= -1 => i * (x - q) <= i * (-1)
      BY <2>3
    <3>2. QED
      BY <2>2, <2>3, <3>1
  <2>6. x = q
    BY <2>2, <2>3, <2>4, <2>5
  <2>7. QED
    BY <2>6 DEF q
<1>2. k % m = 0 <=> (k * i) % (m * i) = 0
  <2> DEFINE q == k \div m
             r == k % m
             Q == (k * i) \div (m * i)
             R == (k * i) % (m * i)
  <2>1. q \in Nat /\ r \in 0..m - 1 /\ k = m * q + r
    OBVIOUS
  <2>2. m * i \in Nat \ {0} /\ k * i \in Nat
    OBVIOUS
  <2>3. Q \in Nat /\ R \in 0..m * i - 1 /\ k * i = (m * i) * Q + R
    BY <2>2
  <2> HIDE DEF q, r, Q, R
  <2>4. r = 0 => R = 0
    <3> SUFFICES ASSUME r = 0 PROVE R = 0
      OBVIOUS
    <3>1. k * i = (m * i) * q
      BY <2>1
    <3>2. (m * i) * (q - Q) = R /\ q - Q \in Int
      BY <2>1, <2>2, <2>3, <3>1
    <3>3. q - Q >= 1 => (m * i) * (q - Q) >= (m * i) * 1
      BY <2>2, <3>2
    <3>4. q - Q <= -1 => (m * i) * (q - Q) <= (m * i) * (-1)
      BY <2>2, <3>2
    <3>5. q - Q = 0
      BY <2>2, <2>3, <3>2, <3>3, <3>4
    <3>6. QED
      BY <2>2, <3>2, <3>5
  <2>5. R = 0 => r = 0
    <3> SUFFICES ASSUME R = 0 PROVE r = 0
      OBVIOUS
    <3>1. k * i = (m * Q) * i
      BY <2>2, <2>3
    <3>2. k = m * Q
      BY <2>3, <3>1
    <3>3. m * (Q - q) = r /\ Q - q \in Int
      BY <2>1, <2>3, <3>2
    <3>4. Q - q >= 1 => m * (Q - q) >= m * 1
      BY <3>3
    <3>5. Q - q <= -1 => m * (Q - q) <= m * (-1)
      BY <3>3
    <3>6. QED
      BY <2>1, <3>3, <3>4, <3>5
  <2>6. QED
    BY <2>4, <2>5 DEF r, R
<1>3. QED
  BY <1>1, <1>2
----------------------------------------------------------------------------
\* TypeOK: clocks are numbers, the average over the active threads included,
\* and neither counter ever exceeds the number of threads or falls below 0.
THEOREM ThreadsTyped ==
  ASSUME InOrder
  PROVE  Spec => []TypeOK
<1>1. Safe => TypeOK
  BY AllTyped DEF Safe
<1>2. QED
  BY <1>1, BarrierInvariants, PTL

\* Reached: no barrier opens before all who wait in it have come to its time,
\* or to that of the one before it.
THEOREM BarrierTimes ==
  ASSUME InOrder
  PROVE  Spec => Reached
<1> DEFINE Came == \A t \in Tid :
             open(t) /\ numProcs > 1 => \A i \in Counted : cycle[i] + Interval >= barrierTime
<1>1. Safe /\ Timely => Came
  <2> SUFFICES ASSUME Safe, Timely, NEW t \in Tid, open(t), numProcs > 1, NEW i \in Counted
               PROVE  cycle[i] + Interval >= barrierTime
    OBVIOUS
  <2>1. barrierCounter > 0
    BY DEF Safe, IInv, Steady, open
  <2>2. i \in Tid
    BY DEF Counted
  <2>3. QED
    BY <2>1, <2>2 DEF Timely, Late
<1>2. QED
  BY <1>1, BarrierInvariants, PTL DEF Reached

\* SameRounds: the two places of barrier() that decide whether the processes
\* meet agree, if the longer interval is a multiple of the shorter one.
THEOREM RoundsAgree ==
  ASSUME InOrder, ProcInterval % Interval = 0
  PROVE  Spec => []SameRounds
<1>1. Timely => SameRounds
  <2> SUFFICES ASSUME Timely, numProcs > 1 PROVE Due("open") <=> Due("reopen")
    BY DEF SameRounds
  <2>1. PICK k \in Nat : barrierTime = k * Interval
    BY DEF Timely, Grid
  <2> DEFINE m == ProcInterval \div Interval
  <2>2. m \in Nat /\ ProcInterval = Interval * m + (ProcInterval % Interval)
    OBVIOUS
  <2> HIDE DEF m
  <2>3. ProcInterval = m * Interval /\ m # 0
    BY <2>2
  <2>4. ((k * Interval) \div Interval) % ((m * Interval) \div Interval) = 0
          <=> (k * Interval) % (m * Interval) = 0
    <3>1. Interval \in Nat \ {0} /\ m \in Nat \ {0}
      BY <2>2, <2>3
    <3>2. QED
      BY <3>1, SameMultiples
  <2>5. (barrierTime \div Interval) % (ProcInterval \div Interval) = 0
          <=> barrierTime % ProcInterval = 0
    BY <2>1, <2>3, <2>4, Zenon
  <2>6. QED
    BY <2>5 DEF Due
<1>2. QED
  BY <1>1, BarrierInvariants, PTL
=============================================================================
