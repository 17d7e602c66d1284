---------------------------- MODULE ServerProofs ----------------------------
(***************************************************************************)
(* The server and its processes, for any number of processes, threads and  *)
(* cores: threads keep their cores apart, every answer reaches who waits   *)
(* for it, nobody laps a barrier, and the server exits last.               *)
(*                                                                         *)
(* All of it holds if no message overtakes a PROCESS_STARTING              *)
(* (StartsFirst) and thread 0 awaits no batch in a barrier of its process  *)
(* (Undisturbed): its answer and the barrier's have the same tag, and TLC  *)
(* shows that one is then taken for the other.  Any thread may wait in     *)
(* system calls.                                                           *)
(*                                                                         *)
(* Lemmas first turn the queues into predicates, one step at a time: which *)
(* messages of a process are Pending, and what a thread has been answered. *)
(* The invariant and the proofs of the actions use nothing else of them.   *)
(***************************************************************************)
EXTENDS Server, FiniteSetTheorems, SequenceTheorems, WellFoundedInduction, TLAPS

\* What the theorems need of thread 0, unless the specification has it as a
\* bound: it awaits no batch while its process is in an inter-process barrier.
\* It may wait in system calls, be left out of a barrier and come back in it.
Undisturbed == Tag0Shared => TagsApart

MsgType == {"PROCESS_STARTING", "PROCESS_FINISHING", "INTER_PROCESS_BARRIERS", "NEW_THREAD",
            "THREAD_FINISHING", "MEM_REQUESTS", "PROGRAM_EXITING"}
Kinds   == {"core", "delay", "barrier", "finish"}
Phases  == {"new", "started", "running", "barrier", "finishing", "done"}
States  == {"DEAD", "STARTING", "ACTIVE", "REQUESTING", "SUSPEND", "WAIT", "FINISH"}

Message == [type : MsgType, tid : Tid]
Answers == [kind : Kinds, val : Nat]

\* At most one answer is under way on a channel, and no message twice.
Channel == {s \in Seq(Answers) : Len(s) <= 1}

Channels(R) == R \in [Proc -> [Tid -> Channel]]

Queues ==
  /\ inbox \in [Proc -> Seq(Message)]
  /\ \A p \in Proc : \A i, j \in DOMAIN inbox[p] : inbox[p][i] = inbox[p][j] => i = j

Types ==
  /\ server \in {"running", "aborted", "exited"}
  /\ progList \in SUBSET Proc /\ progCount \in Nat
  /\ coreStat \in [CoreId -> {0} \cup Proc] /\ coreMap \in [Thread -> {-1} \cup CoreId]
  /\ phase \in [Proc -> Phases] /\ thread \in [Thread -> States]
  /\ numProcs \in [Proc -> Nat] /\ work \in [Proc -> 0..MaxWork]
  /\ entered \in [Proc -> 0..MaxRounds]
  /\ Queues /\ Channels(replies)

\* What thread t of process p has been answered and has not received.
Kind(R, p, t)   == IF R[p][t] = <<>> THEN "none" ELSE R[p][t][1].kind
Amount(R, p, t) == R[p][t][1].val

Rep(p, t) == Kind(replies, p, t)
Val(p, t) == Amount(replies, p, t)
St(p, t)  == thread[<<p, t>>]
Core(p, t) == coreMap[<<p, t>>]

Over == \A q \in Proc : phase[q] \in {"finishing", "done"}
----------------------------------------------------------------------------
\* Who sent a message waits for what it asks, and has no answer yet.
Sent(p, type, t) ==
  CASE type = "PROCESS_STARTING"       -> t = 0 /\ phase[p] = "started"
    [] type = "INTER_PROCESS_BARRIERS" -> t = 0 /\ phase[p] = "barrier" /\ Rep(p, 0) = "none"
    [] type = "PROCESS_FINISHING"      -> t = 0 /\ phase[p] = "finishing" /\ Rep(p, 0) = "none"
    [] type = "PROGRAM_EXITING"        -> t = 0 /\ phase[p] = "done" /\ Over
    [] type = "NEW_THREAD"             -> St(p, t) = "STARTING" /\ Rep(p, t) = "none"
    [] type = "MEM_REQUESTS"           -> St(p, t) = "REQUESTING" /\ Rep(p, t) = "none"
    [] OTHER                           -> St(p, t) = "FINISH"

Asks(p) == \A type \in MsgType, t \in Tid : Pending(p, type, t) => Sent(p, type, t)

\* Who is answered waits for this answer.
Gets(p) ==
  /\ \A t \in Tid : /\ Rep(p, t) = "core" => St(p, t) = "STARTING"
                    /\ Rep(p, t) = "delay" => St(p, t) = "REQUESTING"
                    /\ Rep(p, t) \in {"barrier", "finish"} => t = 0
  /\ Rep(p, 0) = "barrier" => phase[p] = "barrier"
  /\ Rep(p, 0) = "finish" => phase[p] = "finishing" /\ (Val(p, 0) = 0 => Over)

\* Thread 0 comes first, and neither asks nor starts in a barrier, where it
\* may be suspended, go on or finish.
Threads(p) ==
  /\ phase[p] \in {"new", "started"} => \A t \in Tid : St(p, t) = "DEAD"
  /\ phase[p] \in {"finishing", "done"} => \A t \in Tid : St(p, t) \in {"DEAD", "FINISH"}
  /\ phase[p] = "barrier" => St(p, 0) \in {"ACTIVE", "SUSPEND", "WAIT", "FINISH"}
  /\ \A t \in Tid : /\ St(p, t) # "DEAD" => St(p, 0) # "DEAD"
                    /\ St(p, t) = "WAIT" => phase[p] = "barrier"

Local == \A p \in Proc : Asks(p) /\ Gets(p) /\ Threads(p)

Started ==
  \A p, q \in Proc : phase[p] \notin {"new", "started"} =>
    phase[q] # "new" /\ ~Pending(q, "PROCESS_STARTING", 0)

Listed ==
  \A p \in Proc : p \in progList <=>
    \/ phase[p] = "started" /\ ~Pending(p, "PROCESS_STARTING", 0)
    \/ phase[p] \in {"running", "barrier"}
    \/ phase[p] = "finishing" /\ Pending(p, "PROCESS_FINISHING", 0)

\* Whether the server has counted the barrier message of process q.
Waits(q) ==
  phase[q] = "barrier" /\ Rep(q, 0) = "none" /\ ~Pending(q, "INTER_PROCESS_BARRIERS", 0)

Waiting == {q \in Proc : Waits(q)}

Counted ==
  progCount = Cardinality(Waiting) /\ (progCount = 0 \/ progCount < Cardinality(progList))

\* The barriers that have opened for a process: the same for all that go on.
Passed(p) == IF phase[p] = "barrier" /\ Rep(p, 0) = "none" THEN entered[p] - 1 ELSE entered[p]

Gone(p) == phase[p] \in {"finishing", "done"}

Rounds == \A p, q \in Proc : Gone(p) \/ Gone(q) \/ Passed(p) = Passed(q)

Global == Started /\ Listed /\ Counted /\ Rounds /\ (server = "exited" => Over)

\* A thread has a core from the answer on.
InUse(p, t) ==
  \/ St(p, t) \in {"ACTIVE", "REQUESTING", "SUSPEND", "WAIT"}
  \/ St(p, t) = "FINISH" /\ Pending(p, "THREAD_FINISHING", t)
  \/ St(p, t) = "STARTING" /\ Rep(p, t) # "none"

Cores ==
  /\ \A p \in Proc, t \in Tid : InUse(p, t) => Core(p, t) \in CoreId /\ coreStat[Core(p, t)] # 0
  /\ \A p, q \in Proc, t, u \in Tid :
       InUse(p, t) /\ InUse(q, u) /\ Core(p, t) = Core(q, u) => p = q /\ t = u

IInv == Types /\ Local /\ Global /\ Cores
----------------------------------------------------------------------------
\* The constants.
LEMMA Constants ==
  /\ NumProcs \in Nat \ {0} /\ 0 \in Tid /\ Tid \subseteq Nat /\ 1 \in Proc /\ Proc \subseteq Nat \ {0}
  /\ Delays \subseteq Nat /\ MayWait \subseteq Tid /\ CoreId \subseteq Nat
BY ServerAssumption DEF Tid, Proc, CoreId

\* A sent message is one more pending.
LEMMA SendFacts ==
  ASSUME Queues, NEW p \in Proc, NEW type \in MsgType, NEW t \in Tid,
         ~Pending(p, type, t), Send(p, type, t)
  PROVE  /\ Queues'
         /\ \A q \in Proc, ty \in MsgType, u \in Tid :
              Pending(q, ty, u)' <=> Pending(q, ty, u) \/ (q = p /\ ty = type /\ u = t)
<1> DEFINE m == [type |-> type, tid |-> t]
           s == inbox[p]
<1>1. s \in Seq(Message) /\ m \in Message /\ Len(s) \in Nat
  <2>1. s \in Seq(Message)
    BY DEF Queues
  <2>2. m \in Message
    BY DEF Message
  <2>3. QED
    BY <2>1, <2>2, LenProperties
<1>2. inbox' = [inbox EXCEPT ![p] = Append(s, m)]
  BY DEF Send
<1>3. \A i \in 1..Len(s) : s[i] # m
  BY <1>1 DEF Pending
<1>4. /\ Append(s, m) \in Seq(Message) /\ DOMAIN Append(s, m) = 1..Len(s) + 1
      /\ Append(s, m)[Len(s) + 1] = m /\ \A i \in 1..Len(s) : Append(s, m)[i] = s[i]
  BY <1>1, AppendProperties
<1>5. /\ inbox' \in [Proc -> Seq(Message)] /\ inbox'[p] = Append(s, m)
      /\ \A q \in Proc : q # p => inbox'[q] = inbox[q]
  BY <1>1, <1>2, <1>4 DEF Queues
<1>6. \A i, j \in 1..Len(s) : s[i] = s[j] => i = j
  BY <1>1 DEF Queues
<1>7. \A i, j \in 1..Len(s) + 1 : Append(s, m)[i] = Append(s, m)[j] => i = j
  <2> TAKE i, j \in 1..Len(s) + 1
  <2>1. CASE i \in 1..Len(s) /\ j \in 1..Len(s)
    BY <1>4, <1>6, <2>1
  <2>2. CASE i = Len(s) + 1 /\ j \in 1..Len(s)
    BY <1>3, <1>4, <2>2
  <2>3. CASE j = Len(s) + 1 /\ i \in 1..Len(s)
    BY <1>3, <1>4, <2>3
  <2>4. CASE i = Len(s) + 1 /\ j = Len(s) + 1
    BY <2>4
  <2>5. i \in 1..Len(s) \/ i = Len(s) + 1
    BY <1>1
  <2>6. j \in 1..Len(s) \/ j = Len(s) + 1
    BY <1>1
  <2>7. QED
    BY <2>1, <2>2, <2>3, <2>4, <2>5, <2>6
<1>8. Queues'
  BY <1>4, <1>5, <1>7 DEF Queues
<1>9. \A q \in Proc, ty \in MsgType, u \in Tid :
        Pending(q, ty, u)' <=> Pending(q, ty, u) \/ (q = p /\ ty = type /\ u = t)
  <2> SUFFICES ASSUME NEW q \in Proc, NEW ty \in MsgType, NEW u \in Tid
               PROVE  Pending(q, ty, u)' <=> Pending(q, ty, u) \/ (q = p /\ ty = type /\ u = t)
    OBVIOUS
  <2>1. CASE q # p
    BY <1>5, <2>1 DEF Pending
  <2>2. CASE q = p
    <3> DEFINE n == [type |-> ty, tid |-> u]
    <3>1. Pending(p, ty, u) <=> \E i \in 1..Len(s) : s[i] = n
      BY <1>1 DEF Pending
    <3>2. Pending(p, ty, u)' <=> \E i \in 1..Len(s) + 1 : Append(s, m)[i] = n
      BY <1>4, <1>5 DEF Pending
    <3>3. m = n <=> ty = type /\ u = t
      OBVIOUS
    <3>4. (\E i \in 1..Len(s) + 1 : Append(s, m)[i] = n) <=> (\E i \in 1..Len(s) : s[i] = n) \/ m = n
      <4> HIDE DEF m, n
      <4>1. \A i \in 1..Len(s) + 1 : i \in 1..Len(s) \/ i = Len(s) + 1
        BY <1>1
      <4>2. \A i \in 1..Len(s) : i \in 1..Len(s) + 1
        BY <1>1
      <4>3. Len(s) + 1 \in 1..Len(s) + 1
        BY <1>1
      <4> QED
        BY <1>4, <4>1, <4>2, <4>3
    <3>5. QED
      BY <2>2, <3>1, <3>2, <3>3, <3>4
  <2>3. QED
    BY <2>1, <2>2
<1>10. QED
  BY <1>8, <1>9

\* The message that is handled is pending no more.
LEMMA PopFacts ==
  ASSUME Queues, NEW p \in Proc, inbox[p] # <<>>,
         inbox' = [inbox EXCEPT ![p] = Tail(@)]
  PROVE  LET m == Head(inbox[p]) IN
         /\ m.type \in MsgType /\ m.tid \in Tid /\ Pending(p, m.type, m.tid)
         /\ Queues'
         /\ \A q \in Proc, ty \in MsgType, u \in Tid :
              Pending(q, ty, u)' <=> Pending(q, ty, u) /\ ~(q = p /\ ty = m.type /\ u = m.tid)
<1> DEFINE s == inbox[p]
           m == Head(s)
<1>1. s \in Seq(Message) /\ s # <<>> /\ Len(s) \in Nat /\ Len(s) > 0
  BY EmptySeq, LenProperties DEF Queues
<1>2. m = s[1] /\ m \in Message /\ m = [type |-> m.type, tid |-> m.tid]
  <2>1. m = s[1] /\ s[1] \in Message
    BY <1>1, ElementOfSeq, HeadTailProperties
  <2>2. \A n \in Message : n = [type |-> n.type, tid |-> n.tid]
    BY DEF Message
  <2>3. QED
    BY <2>1, <2>2
<1>3. m.type \in MsgType /\ m.tid \in Tid
  BY <1>2 DEF Message
<1>4. /\ Tail(s) \in Seq(Message) /\ Len(Tail(s)) = Len(s) - 1
      /\ \A i \in 1..Len(s) - 1 : Tail(s)[i] = s[i + 1]
  BY <1>1, HeadTailProperties
<1>5. /\ inbox' \in [Proc -> Seq(Message)] /\ inbox'[p] = Tail(s)
      /\ \A q \in Proc : q # p => inbox'[q] = inbox[q]
  BY <1>4 DEF Queues
<1>6. \A i, j \in 1..Len(s) : s[i] = s[j] => i = j
  BY <1>1 DEF Queues
<1>7. DOMAIN Tail(s) = 1..Len(s) - 1
  BY <1>1, <1>4
<1>8. Queues'
  <2>1. \A i, j \in 1..Len(s) - 1 : Tail(s)[i] = Tail(s)[j] => i = j
    <3> HIDE DEF s
    <3> TAKE i, j \in 1..Len(s) - 1
    <3>1. i + 1 \in 1..Len(s) /\ j + 1 \in 1..Len(s) /\ (i + 1 = j + 1 => i = j)
      BY <1>1
    <3>2. QED
      BY <1>4, <1>6, <3>1
  <2>2. QED
    BY <1>5, <1>7, <2>1 DEF Queues
<1>9. Pending(p, m.type, m.tid)
  BY <1>1, <1>2 DEF Pending
<1>10. \A q \in Proc, ty \in MsgType, u \in Tid :
         Pending(q, ty, u)' <=> Pending(q, ty, u) /\ ~(q = p /\ ty = m.type /\ u = m.tid)
  <2> SUFFICES ASSUME NEW q \in Proc, NEW ty \in MsgType, NEW u \in Tid
               PROVE  Pending(q, ty, u)' <=>
                        Pending(q, ty, u) /\ ~(q = p /\ ty = m.type /\ u = m.tid)
    OBVIOUS
  <2>1. CASE q # p
    BY <1>5, <2>1 DEF Pending
  <2>2. CASE q = p
    <3> DEFINE n == [type |-> ty, tid |-> u]
    <3>1. Pending(p, ty, u) <=> \E i \in 1..Len(s) : s[i] = n
      BY <1>1 DEF Pending
    <3>2. Pending(p, ty, u)' <=> \E i \in 1..Len(s) - 1 : Tail(s)[i] = n
      BY <1>5, <1>7 DEF Pending
    <3>3. s[1] = n <=> ty = m.type /\ u = m.tid
      BY <1>2
    <3>4. (\E i \in 1..Len(s) - 1 : Tail(s)[i] = n) <=> (\E i \in 1..Len(s) : s[i] = n) /\ s[1] # n
      <4> HIDE DEF n, m, s
      <4>1. ASSUME NEW i \in 1..Len(s) - 1, Tail(s)[i] = n
            PROVE  (\E j \in 1..Len(s) : s[j] = n) /\ s[1] # n
        <5>1. i + 1 \in 1..Len(s) /\ 1 \in 1..Len(s) /\ s[i + 1] = n /\ i + 1 # 1
          BY <1>1, <1>4, <4>1
        <5>2. QED
          BY <1>6, <5>1
      <4>2. ASSUME NEW j \in 1..Len(s), s[j] = n, s[1] # n
            PROVE  \E i \in 1..Len(s) - 1 : Tail(s)[i] = n
        <5>1. j # 1
          BY <4>2
        <5>2. j - 1 \in 1..Len(s) - 1 /\ (j - 1) + 1 = j
          BY <1>1, <5>1
        <5>3. QED
          BY <1>4, <4>2, <5>2
      <4> QED
        BY <4>1, <4>2
    <3>5. QED
      BY <2>2, <3>1, <3>2, <3>3, <3>4
  <2>3. QED
    BY <2>1, <2>2
<1>11. QED
  BY <1>3, <1>8, <1>9, <1>10

\* A channel holds nothing or one answer.
LEMMA OneAnswer ==
  ASSUME NEW R, Channels(R), NEW p \in Proc, NEW t \in Tid
  PROVE  /\ Kind(R, p, t) = "none" <=> R[p][t] = <<>>
         /\ Kind(R, p, t) \in Kinds \cup {"none"}
         /\ Kind(R, p, t) # "none" =>
              /\ Len(R[p][t]) = 1 /\ Tail(R[p][t]) = <<>>
              /\ Head(R[p][t]) = R[p][t][1] /\ Amount(R, p, t) \in Nat
<1> DEFINE s == R[p][t]
<1>1. s \in Seq(Answers) /\ Len(s) <= 1 /\ Len(s) \in Nat
  BY LenProperties DEF Channels, Channel
<1>2. CASE s = <<>>
  BY <1>2 DEF Kind, Kinds
<1>3. CASE s # <<>>
  <2>1. Len(s) = 1
    <3> HIDE DEF s
    <3>1. Len(s) # 0
      BY <1>1, <1>3, EmptySeq
    <3>2. QED
      BY <1>1, <3>1
  <2>2. s[1] \in Answers
    BY <1>1, <2>1, ElementOfSeq
  <2>3. s[1].kind \in Kinds /\ s[1].val \in Nat
    BY <2>2 DEF Answers
  <2>4. Tail(s) \in Seq(Answers) /\ Len(Tail(s)) = 0 /\ Head(s) = s[1]
    BY <1>1, <1>3, <2>1, HeadTailProperties
  <2>5. Tail(s) = <<>>
    BY <2>4, EmptySeq
  <2>6. "none" \notin Kinds
    BY DEF Kinds
  <2>7. QED
    BY <1>3, <2>1, <2>3, <2>4, <2>5, <2>6 DEF Kind, Amount
<1>4. QED
  BY <1>2, <1>3

LEMMA RepKinds ==
  ASSUME Types
  PROVE  \A p \in Proc, t \in Tid : Rep(p, t) \in {"none", "core", "delay", "barrier", "finish"}
BY OneAnswer DEF Types, Rep, Kinds

\* Channel t of process p becomes s, gets an answer, loses one; all of P
\* get one.
Becomes(Q, R, p, t, s) == Q = [R EXCEPT ![p][t] = s]
Puts(Q, R, p, t, a)    == Q = [R EXCEPT ![p][t] = Append(@, a)]
Takes(Q, R, p, t)      == Q = [R EXCEPT ![p][t] = Tail(@)]
PutsAll(Q, R, P, a)    == Q = ReplyAll(R, P, a)

LEMMA ChannelChanges ==
  ASSUME NEW R, Channels(R), NEW p \in Proc, NEW t \in Tid,
         NEW s \in Channel, NEW Q, Becomes(Q, R, p, t, s)
  PROVE  /\ Channels(Q) /\ Q[p][t] = s
         /\ \A q \in Proc, u \in Tid : ~(q = p /\ u = t) => Q[q][u] = R[q][u]
BY DEF Channels, Becomes

\* The channel with one answer.
LEMMA Singles ==
  ASSUME NEW k \in Kinds, NEW v \in Nat
  PROVE  LET s == <<Answer(k, v)>> IN
         s \in Channel /\ s # <<>> /\ s[1].kind = k /\ s[1].val = v
<1>1. Answer(k, v) \in Answers /\ Answer(k, v).kind = k /\ Answer(k, v).val = v
  BY DEF Answer, Answers
<1>2. QED
  BY <1>1 DEF Channel

\* An answer where there is none.
LEMMA PutFacts ==
  ASSUME NEW R, Channels(R), NEW p \in Proc, NEW t \in Tid, Kind(R, p, t) = "none",
         NEW k \in Kinds, NEW v \in Nat,
         NEW Q, Puts(Q, R, p, t, Answer(k, v))
  PROVE  /\ Channels(Q)
         /\ \A q \in Proc, u \in Tid :
              /\ Kind(Q, q, u) = IF q = p /\ u = t THEN k ELSE Kind(R, q, u)
              /\ Amount(Q, q, u) = IF q = p /\ u = t THEN v ELSE Amount(R, q, u)
<1> DEFINE one == <<Answer(k, v)>>
<1>1. R[p][t] = <<>>
  BY OneAnswer
<1>2. Becomes(Q, R, p, t, one)
  <2> DEFINE a == Answer(k, v)
  <2>1. Q = [R EXCEPT ![p][t] = Append(<<>>, a)]
    BY <1>1 DEF Puts
  <2> HIDE DEF a
  <2>2. Append(<<>>, a) = <<a>>
    OBVIOUS
  <2>3. QED
    BY <2>1, <2>2 DEF Becomes, a
<1>3. one \in Channel /\ one # <<>> /\ one[1].kind = k /\ one[1].val = v
  BY Singles
<1> HIDE DEF one
<1>4. /\ Channels(Q) /\ Q[p][t] = one
      /\ \A q \in Proc, u \in Tid : ~(q = p /\ u = t) => Q[q][u] = R[q][u]
  BY <1>2, <1>3, ChannelChanges
<1>5. ASSUME NEW q \in Proc, NEW u \in Tid
      PROVE  /\ Kind(Q, q, u) = IF q = p /\ u = t THEN k ELSE Kind(R, q, u)
             /\ Amount(Q, q, u) = IF q = p /\ u = t THEN v ELSE Amount(R, q, u)
  <2>1. CASE q = p /\ u = t
    BY <1>3, <1>4, <2>1 DEF Kind, Amount
  <2>2. CASE ~(q = p /\ u = t)
    BY <1>4, <2>2 DEF Kind, Amount
  <2>3. QED
    BY <2>1, <2>2
<1>6. QED
  BY <1>4, <1>5

\* An answer is received.
LEMMA TakeFacts ==
  ASSUME NEW R, Channels(R), NEW p \in Proc, NEW t \in Tid, Kind(R, p, t) # "none",
         NEW Q, Takes(Q, R, p, t)
  PROVE  /\ Channels(Q)
         /\ \A q \in Proc, u \in Tid :
              /\ Kind(Q, q, u) = IF q = p /\ u = t THEN "none" ELSE Kind(R, q, u)
              /\ ~(q = p /\ u = t) => Amount(Q, q, u) = Amount(R, q, u)
<1> DEFINE none == <<>>
<1>1. Tail(R[p][t]) = none
  BY OneAnswer
<1>2. Becomes(Q, R, p, t, none)
  BY <1>1 DEF Becomes, Takes
<1>3. none \in Channel
  BY DEF Channel
<1> HIDE DEF none
<1>4. /\ Channels(Q) /\ Q[p][t] = none
      /\ \A q \in Proc, u \in Tid : ~(q = p /\ u = t) => Q[q][u] = R[q][u]
  BY <1>2, <1>3, ChannelChanges
<1>5. QED
  BY <1>4 DEF Kind, Amount, none

\* An answer with tag 0 to every process of P.
LEMMA PutAllFacts ==
  ASSUME NEW R, Channels(R), NEW P \in SUBSET Proc, \A q \in P : Kind(R, q, 0) = "none",
         NEW k \in Kinds, NEW v \in Nat, NEW Q, PutsAll(Q, R, P, Answer(k, v))
  PROVE  /\ Channels(Q)
         /\ \A q \in Proc, u \in Tid :
              /\ Kind(Q, q, u) = IF q \in P /\ u = 0 THEN k ELSE Kind(R, q, u)
              /\ Amount(Q, q, u) = IF q \in P /\ u = 0 THEN v ELSE Amount(R, q, u)
<1> DEFINE one == <<Answer(k, v)>>
<1>1. 0 \in Tid
  BY Constants
<1>2. \A q \in P : Append(R[q][0], Answer(k, v)) = one
  <2> DEFINE a == Answer(k, v)
  <2>1. \A q \in P : R[q][0] = <<>>
    BY <1>1, OneAnswer
  <2> HIDE DEF a
  <2>2. Append(<<>>, a) = <<a>>
    OBVIOUS
  <2>3. QED
    BY <2>1, <2>2 DEF a
<1>3. one \in Channel /\ one # <<>> /\ one[1].kind = k /\ one[1].val = v
  BY Singles
<1>4. Q = [q \in Proc |-> IF q \in P THEN [R[q] EXCEPT ![0] = one] ELSE R[q]]
  BY <1>2 DEF PutsAll, ReplyAll
<1> HIDE DEF one
<1>5. /\ Channels(Q) /\ \A q \in P : Q[q][0] = one
      /\ \A q \in Proc, u \in Tid : ~(q \in P /\ u = 0) => Q[q][u] = R[q][u]
  BY <1>1, <1>3, <1>4 DEF Channels
<1>6. ASSUME NEW q \in Proc, NEW u \in Tid
      PROVE  /\ Kind(Q, q, u) = IF q \in P /\ u = 0 THEN k ELSE Kind(R, q, u)
             /\ Amount(Q, q, u) = IF q \in P /\ u = 0 THEN v ELSE Amount(R, q, u)
  <2>1. CASE q \in P /\ u = 0
    BY <1>3, <1>5, <2>1 DEF Kind, Amount
  <2>2. CASE ~(q \in P /\ u = 0)
    BY <1>5, <2>2 DEF Kind, Amount
  <2>3. QED
    BY <2>1, <2>2
<1>7. QED
  BY <1>5, <1>6

LEMMA WorkFacts ==
  ASSUME NEW f \in [Proc -> 0..MaxWork], NEW p \in Proc, f[p] > 0,
         NEW g, g = [f EXCEPT ![p] = @ - 1]
  PROVE  g \in [Proc -> 0..MaxWork]
<1>1. f[p] \in 0..MaxWork /\ MaxWork \in Nat
  BY ServerAssumption
<1>2. f[p] - 1 \in 0..MaxWork
  BY <1>1
<1>3. QED
  BY <1>2

\* A thread changes its state.
LEMMA ThreadFacts ==
  ASSUME NEW f \in [Thread -> States], NEW p \in Proc, NEW t \in Tid, NEW a \in States,
         NEW g, g = [f EXCEPT ![<<p, t>>] = a]
  PROVE  /\ g \in [Thread -> States]
         /\ \A q \in Proc, u \in Tid : g[<<q, u>>] = IF q = p /\ u = t THEN a ELSE f[<<q, u>>]
<1>1. \A q \in Proc, u \in Tid : <<q, u>> \in Thread /\ (<<q, u>> = <<p, t>> <=> q = p /\ u = t)
  BY DEF Thread
<1>2. QED
  BY <1>1

\* The threads of a process in state a change to b.
Turns(p, a, b) == thread' = [x \in Thread |-> IF x \in ThreadsOf(p, {a}) THEN b ELSE thread[x]]

LEMMA ThreadsFacts ==
  ASSUME thread \in [Thread -> States], NEW p \in Proc, NEW a, NEW b \in States, Turns(p, a, b)
  PROVE  /\ thread' \in [Thread -> States]
         /\ \A q \in Proc, u \in Tid :
              St(q, u)' = IF q = p /\ St(q, u) = a THEN b ELSE St(q, u)
<1>1. \A q \in Proc, u \in Tid : <<q, u>> \in Thread /\ <<q, u>>[1] = q
  BY DEF Thread
<1>2. \A q \in Proc, u \in Tid : <<q, u>> \in ThreadsOf(p, {a}) <=> q = p /\ St(q, u) = a
  BY <1>1 DEF ThreadsOf, St
<1>3. ASSUME NEW q \in Proc, NEW u \in Tid
      PROVE  St(q, u)' = IF q = p /\ St(q, u) = a THEN b ELSE St(q, u)
  <2>1. thread'[<<q, u>>] = IF <<q, u>> \in ThreadsOf(p, {a}) THEN b ELSE thread[<<q, u>>]
    BY <1>1 DEF Turns
  <2>2. QED
    BY <1>2, <2>1 DEF St
<1>4. thread' \in [Thread -> States]
  BY DEF Turns
<1>5. QED
  BY <1>3, <1>4

----------------------------------------------------------------------------
(***************************************************************************)
(* What a step keeps.                                                      *)
(***************************************************************************)
LEMMA GlobalKept ==
  ASSUME Global, UNCHANGED <<server, progList, progCount, phase, entered>>,
         \A q \in Proc : phase[q] = "barrier" => (Rep(q, 0)' = "none" <=> Rep(q, 0) = "none"),
         \A q \in Proc :
           \A ty \in {"PROCESS_STARTING", "PROCESS_FINISHING", "INTER_PROCESS_BARRIERS"} :
             Pending(q, ty, 0)' <=> Pending(q, ty, 0)
  PROVE  Global'
<1>1. Started' /\ Listed' /\ Rounds' /\ (server' = "exited" => Over')
  BY DEF Global, Started, Listed, Rounds, Passed, Gone, Over
<1>2. \A q \in Proc : Waits(q)' <=> Waits(q)
  BY DEF Waits
<1>3. Waiting' = Waiting
  BY <1>2 DEF Waiting
<1>4. Counted'
  BY <1>3 DEF Global, Counted
<1>5. QED
  BY <1>1, <1>4 DEF Global

LEMMA CoresKept ==
  ASSUME Cores, UNCHANGED <<coreStat, coreMap>>,
         \A q \in Proc, u \in Tid : InUse(q, u)' => InUse(q, u)
  PROVE  Cores'
BY DEF Cores, Core
----------------------------------------------------------------------------
(***************************************************************************)
(* The threads of a process.                                               *)
(***************************************************************************)
LEMMA StepThreadStart ==
  ASSUME IInv, NEW p \in Proc, NEW t \in Tid, threadStart(<<p, t>>)
  PROVE  IInv'
<1>0. Types /\ Local /\ Global /\ Cores /\ 0 \in Tid /\ "NEW_THREAD" \in MsgType /\ "STARTING" \in States
  BY Constants DEF IInv, MsgType, States
<1>1. /\ phase[p] \in {"running", "barrier"} /\ St(p, t) = "DEAD"
      /\ t = 0 \/ \E u \in Tid : St(p, u) # "DEAD"
      /\ Send(p, "NEW_THREAD", t) /\ thread' = [thread EXCEPT ![<<p, t>>] = "STARTING"]
      /\ UNCHANGED <<serverVars, replies, phase, numProcs, work, entered>>
  BY DEF threadStart, ThreadsOf, Thread, St
<1>2. ~Pending(p, "NEW_THREAD", t)
  BY <1>0, <1>1 DEF Local, Asks, Sent
<1>3. /\ Queues'
      /\ \A q \in Proc, ty \in MsgType, u \in Tid :
           Pending(q, ty, u)' <=> Pending(q, ty, u) \/ (q = p /\ ty = "NEW_THREAD" /\ u = t)
  BY <1>0, <1>1, <1>2, SendFacts DEF Types
<1>4. /\ thread' \in [Thread -> States]
      /\ \A q \in Proc, u \in Tid : St(q, u)' = IF q = p /\ u = t THEN "STARTING" ELSE St(q, u)
  BY <1>0, <1>1, ThreadFacts DEF Types, St
<1>5. \A q \in Proc, u \in Tid : Rep(q, u)' = Rep(q, u) /\ Val(q, u)' = Val(q, u)
  BY <1>1 DEF Rep, Val
<1>6. Rep(p, t) = "none"
  BY <1>0, <1>1, RepKinds DEF Local, Gets, Threads
<1>7. Types'
  BY <1>0, <1>1, <1>3, <1>4 DEF Types, serverVars
<1>8. Local'
  <2> SUFFICES ASSUME NEW q \in Proc PROVE Asks(q)' /\ Gets(q)' /\ Threads(q)'
    BY DEF Local
  <2>1. Asks(q)'
    BY <1>0, <1>1, <1>3, <1>4, <1>5, <1>6 DEF Local, Asks, Sent, Over, MsgType
  <2>2. Gets(q)'
    BY <1>0, <1>1, <1>4, <1>5, <1>6 DEF Local, Gets, Over
  <2>3. Threads(q)'
    BY <1>0, <1>1, <1>4 DEF Local, Threads
  <2>4. QED
    BY <2>1, <2>2, <2>3
<1>9. Global'
  BY <1>0, <1>1, <1>3, <1>5, GlobalKept DEF serverVars, MsgType
<1>10. Cores'
  BY <1>0, <1>1, <1>3, <1>4, <1>5, <1>6, CoresKept DEF serverVars, InUse, MsgType
<1>11. QED
  BY <1>7, <1>8, <1>9, <1>10 DEF IInv

LEMMA StepExecMem ==
  ASSUME IInv, NEW p \in Proc, NEW t \in Tid, execMem(<<p, t>>),
         Undisturbed'
  PROVE  IInv'
<1>0. Types /\ Local /\ Global /\ Cores /\ 0 \in Tid /\ "MEM_REQUESTS" \in MsgType /\ "REQUESTING" \in States
  BY Constants DEF IInv, MsgType, States
<1>1. /\ St(p, t) = "ACTIVE"
      /\ Send(p, "MEM_REQUESTS", t) /\ thread' = [thread EXCEPT ![<<p, t>>] = "REQUESTING"]
      /\ work' \in [Proc -> 0..MaxWork]
      /\ UNCHANGED <<serverVars, replies, phase, numProcs, entered>>
  <2>1. work[p] > 0 /\ work' = [work EXCEPT ![p] = @ - 1] /\ work \in [Proc -> 0..MaxWork]
    BY <1>0 DEF execMem, Types
  <2>2. work' \in [Proc -> 0..MaxWork]
    BY <2>1, WorkFacts
  <2>3. QED
    BY <2>2 DEF execMem, St
<1>2. t = 0 => phase[p] # "barrier"
  <2>1. CASE Tag0Shared
    <3>1. St(p, t)' = "REQUESTING"
      BY <1>0, <1>1, ThreadFacts DEF Types, St
    <3>2. QED
      BY <1>1, <2>1, <3>1 DEF Undisturbed, TagsApart, St
  <2>2. CASE ~Tag0Shared
    BY <2>2 DEF execMem
  <2>3. QED
    BY <2>1, <2>2
<1>3. ~Pending(p, "MEM_REQUESTS", t)
  BY <1>0, <1>1 DEF Local, Asks, Sent, MsgType
<1>4. /\ Queues'
      /\ \A q \in Proc, ty \in MsgType, u \in Tid :
           Pending(q, ty, u)' <=> Pending(q, ty, u) \/ (q = p /\ ty = "MEM_REQUESTS" /\ u = t)
  BY <1>0, <1>1, <1>3, SendFacts DEF Types
<1>5. /\ thread' \in [Thread -> States]
      /\ \A q \in Proc, u \in Tid : St(q, u)' = IF q = p /\ u = t THEN "REQUESTING" ELSE St(q, u)
  BY <1>0, <1>1, ThreadFacts DEF Types, St
<1>6. \A q \in Proc, u \in Tid : Rep(q, u)' = Rep(q, u) /\ Val(q, u)' = Val(q, u)
  BY <1>1 DEF Rep, Val
<1>7. Rep(p, t) = "none"
  BY <1>0, <1>1, <1>2, RepKinds DEF Local, Gets, Threads
<1>8. Types'
  BY <1>0, <1>1, <1>4, <1>5 DEF Types, serverVars
<1>9. Local'
  <2> SUFFICES ASSUME NEW q \in Proc PROVE Asks(q)' /\ Gets(q)' /\ Threads(q)'
    BY DEF Local
  <2>1. Asks(q)'
    BY <1>0, <1>1, <1>4, <1>5, <1>6, <1>7 DEF Local, Asks, Sent, Over, MsgType
  <2>2. Gets(q)'
    BY <1>0, <1>1, <1>5, <1>6, <1>7 DEF Local, Gets, Over
  <2>3. Threads(q)'
    BY <1>0, <1>1, <1>5, <1>2 DEF Local, Threads
  <2>4. QED
    BY <2>1, <2>2, <2>3
<1>10. Global'
  BY <1>0, <1>1, <1>4, <1>6, GlobalKept DEF serverVars, MsgType
<1>11. Cores'
  BY <1>0, <1>1, <1>4, <1>5, <1>6, <1>7, CoresKept DEF serverVars, InUse, MsgType
<1>12. QED
  BY <1>8, <1>9, <1>10, <1>11 DEF IInv

LEMMA StepThreadFini ==
  ASSUME IInv, NEW p \in Proc, NEW t \in Tid, threadFini(<<p, t>>)
  PROVE  IInv'
<1>0. Types /\ Local /\ Global /\ Cores /\ 0 \in Tid /\ "THREAD_FINISHING" \in MsgType /\ "FINISH" \in States
  BY Constants DEF IInv, MsgType, States
<1>1. /\ St(p, t) = "ACTIVE"
      /\ Send(p, "THREAD_FINISHING", t) /\ thread' = [thread EXCEPT ![<<p, t>>] = "FINISH"]
      /\ work' \in [Proc -> 0..MaxWork]
      /\ UNCHANGED <<serverVars, replies, phase, numProcs, entered>>
  BY <1>0 DEF threadFini, St, Types
<1>2. ~Pending(p, "THREAD_FINISHING", t)
  BY <1>0, <1>1 DEF Local, Asks, Sent, MsgType
<1>3. /\ Queues'
      /\ \A q \in Proc, ty \in MsgType, u \in Tid :
           Pending(q, ty, u)' <=> Pending(q, ty, u) \/ (q = p /\ ty = "THREAD_FINISHING" /\ u = t)
  BY <1>0, <1>1, <1>2, SendFacts DEF Types
<1>4. /\ thread' \in [Thread -> States]
      /\ \A q \in Proc, u \in Tid : St(q, u)' = IF q = p /\ u = t THEN "FINISH" ELSE St(q, u)
  BY <1>0, <1>1, ThreadFacts DEF Types, St
<1>5. \A q \in Proc, u \in Tid : Rep(q, u)' = Rep(q, u) /\ Val(q, u)' = Val(q, u)
  BY <1>1 DEF Rep, Val
<1>6. Types'
  BY <1>0, <1>1, <1>3, <1>4 DEF Types, serverVars
<1>7. Local'
  <2> SUFFICES ASSUME NEW q \in Proc PROVE Asks(q)' /\ Gets(q)' /\ Threads(q)'
    BY DEF Local
  <2>1. Asks(q)'
    BY <1>0, <1>1, <1>3, <1>4, <1>5 DEF Local, Asks, Sent, Over, MsgType
  <2>2. Gets(q)'
    BY <1>0, <1>1, <1>4, <1>5 DEF Local, Gets, Over
  <2>3. Threads(q)'
    BY <1>0, <1>1, <1>4 DEF Local, Threads
  <2>4. QED
    BY <2>1, <2>2, <2>3
<1>8. Global'
  BY <1>0, <1>1, <1>3, <1>5, GlobalKept DEF serverVars, MsgType
<1>9. Cores'
  BY <1>0, <1>1, <1>3, <1>4, <1>5, CoresKept DEF serverVars, InUse, MsgType
<1>10. QED
  BY <1>6, <1>7, <1>8, <1>9 DEF IInv

LEMMA StepSysBefore ==
  ASSUME IInv, NEW p \in Proc, NEW t \in Tid, sysBefore(<<p, t>>)
  PROVE  IInv'
<1>0. Types /\ Local /\ Global /\ Cores /\ 0 \in Tid /\ "SUSPEND" \in States
  BY Constants DEF IInv, States
<1>1. /\ St(p, t) = "ACTIVE"
      /\ thread' = [thread EXCEPT ![<<p, t>>] = "SUSPEND"]
      /\ work' \in [Proc -> 0..MaxWork]
      /\ UNCHANGED <<serverVars, inbox, replies, phase, numProcs, entered>>
  <2>1. work[p] > 0 /\ work' = [work EXCEPT ![p] = @ - 1] /\ work \in [Proc -> 0..MaxWork]
    BY <1>0 DEF sysBefore, Types
  <2>2. work' \in [Proc -> 0..MaxWork]
    BY <2>1, WorkFacts
  <2>3. QED
    BY <2>2 DEF sysBefore, St
<1>2. /\ thread' \in [Thread -> States]
      /\ \A q \in Proc, u \in Tid : St(q, u)' = IF q = p /\ u = t THEN "SUSPEND" ELSE St(q, u)
  BY <1>0, <1>1, ThreadFacts DEF Types, St
<1>3. /\ \A q \in Proc, u \in Tid : Rep(q, u)' = Rep(q, u) /\ Val(q, u)' = Val(q, u)
      /\ \A q \in Proc, ty \in MsgType, u \in Tid : Pending(q, ty, u)' <=> Pending(q, ty, u)
  BY <1>1 DEF Rep, Val, Pending
<1>4. Types'
  BY <1>0, <1>1, <1>2 DEF Types, Queues, serverVars
<1>5. Local'
  <2> SUFFICES ASSUME NEW q \in Proc PROVE Asks(q)' /\ Gets(q)' /\ Threads(q)'
    BY DEF Local
  <2>1. Asks(q)'
    BY <1>0, <1>1, <1>2, <1>3 DEF Local, Asks, Sent, Over, MsgType
  <2>2. Gets(q)'
    BY <1>0, <1>1, <1>2, <1>3 DEF Local, Gets, Over
  <2>3. Threads(q)'
    BY <1>0, <1>1, <1>2 DEF Local, Threads
  <2>4. QED
    BY <2>1, <2>2, <2>3
<1>6. Global'
  BY <1>0, <1>1, <1>3, GlobalKept DEF serverVars, MsgType
<1>7. Cores'
  BY <1>0, <1>1, <1>2, <1>3, CoresKept DEF serverVars, InUse, MsgType
<1>8. QED
  BY <1>4, <1>5, <1>6, <1>7 DEF IInv

LEMMA StepSysAfter ==
  ASSUME IInv, NEW p \in Proc, NEW t \in Tid, sysAfter(<<p, t>>)
  PROVE  IInv'
<1>0. Types /\ Local /\ Global /\ Cores /\ 0 \in Tid /\ "ACTIVE" \in States
  BY Constants DEF IInv, States
<1>1. /\ St(p, t) = "SUSPEND"
      /\ thread' = [thread EXCEPT ![<<p, t>>] = "ACTIVE"]
      /\ work' \in [Proc -> 0..MaxWork]
      /\ UNCHANGED <<serverVars, inbox, replies, phase, numProcs, entered>>
  BY <1>0 DEF sysAfter, St, Types, Local, Threads
<1>2. /\ thread' \in [Thread -> States]
      /\ \A q \in Proc, u \in Tid : St(q, u)' = IF q = p /\ u = t THEN "ACTIVE" ELSE St(q, u)
  BY <1>0, <1>1, ThreadFacts DEF Types, St
<1>3. /\ \A q \in Proc, u \in Tid : Rep(q, u)' = Rep(q, u) /\ Val(q, u)' = Val(q, u)
      /\ \A q \in Proc, ty \in MsgType, u \in Tid : Pending(q, ty, u)' <=> Pending(q, ty, u)
  BY <1>1 DEF Rep, Val, Pending
<1>4. Types'
  BY <1>0, <1>1, <1>2 DEF Types, Queues, serverVars
<1>5. Local'
  <2> SUFFICES ASSUME NEW q \in Proc PROVE Asks(q)' /\ Gets(q)' /\ Threads(q)'
    BY DEF Local
  <2>1. Asks(q)'
    BY <1>0, <1>1, <1>2, <1>3 DEF Local, Asks, Sent, Over, MsgType
  <2>2. Gets(q)'
    BY <1>0, <1>1, <1>2, <1>3 DEF Local, Gets, Over
  <2>3. Threads(q)'
    BY <1>0, <1>1, <1>2 DEF Local, Threads
  <2>4. QED
    BY <2>1, <2>2, <2>3
<1>6. Global'
  BY <1>0, <1>1, <1>3, GlobalKept DEF serverVars, MsgType
<1>7. Cores'
  BY <1>0, <1>1, <1>2, <1>3, CoresKept DEF serverVars, InUse, MsgType
<1>8. QED
  BY <1>4, <1>5, <1>6, <1>7 DEF IInv

\* A thread may get an answer of tag 0 that is not for the main program.
LEMMA StepReceive ==
  ASSUME IInv, NEW p \in Proc, NEW t \in Tid, Receive(<<p, t>>)
  PROVE  IInv'
<1>0. Types /\ Local /\ Global /\ Cores /\ 0 \in Tid /\ "ACTIVE" \in States
  BY Constants DEF IInv, States
<1>1. /\ St(p, t) \in {"STARTING", "REQUESTING"} /\ Rep(p, t) # "none"
      /\ thread' = [thread EXCEPT ![<<p, t>>] = "ACTIVE"] /\ Takes(replies', replies, p, t)
      /\ UNCHANGED <<serverVars, inbox, phase, numProcs, work, entered>>
  BY <1>0, OneAnswer DEF Receive, St, Rep, Takes, Types
<1>2. /\ thread' \in [Thread -> States]
      /\ \A q \in Proc, u \in Tid : St(q, u)' = IF q = p /\ u = t THEN "ACTIVE" ELSE St(q, u)
  BY <1>0, <1>1, ThreadFacts DEF Types, St
<1>3. /\ Channels(replies')
      /\ \A q \in Proc, u \in Tid :
           /\ Rep(q, u)' = IF q = p /\ u = t THEN "none" ELSE Rep(q, u)
           /\ ~(q = p /\ u = t) => Val(q, u)' = Val(q, u)
  BY <1>0, <1>1, TakeFacts DEF Types, Rep, Val
<1>4. \A q \in Proc, ty \in MsgType, u \in Tid : Pending(q, ty, u)' <=> Pending(q, ty, u)
  BY <1>1 DEF Pending
<1>5. t = 0 => phase[p] # "barrier"
  BY <1>0, <1>1 DEF Local, Threads
<1>6. Types'
  BY <1>0, <1>1, <1>2, <1>3 DEF Types, Queues, serverVars
<1>7. Local'
  <2> SUFFICES ASSUME NEW q \in Proc PROVE Asks(q)' /\ Gets(q)' /\ Threads(q)'
    BY DEF Local
  <2>1. Asks(q)'
    BY <1>0, <1>1, <1>2, <1>3, <1>4 DEF Local, Asks, Sent, Over, MsgType
  <2>2. Gets(q)'
    BY <1>0, <1>1, <1>2, <1>3 DEF Local, Gets, Over
  <2>3. Threads(q)'
    BY <1>0, <1>1, <1>2, <1>5 DEF Local, Threads
  <2>4. QED
    BY <2>1, <2>2, <2>3
<1>8. Global'
  BY <1>0, <1>1, <1>3, <1>4, <1>5, GlobalKept DEF serverVars, MsgType
<1>9. Cores'
  BY <1>0, <1>1, <1>2, <1>3, <1>4, CoresKept DEF serverVars, InUse, MsgType
<1>10. QED
  BY <1>6, <1>7, <1>8, <1>9 DEF IInv
----------------------------------------------------------------------------
(***************************************************************************)
(* The main program of a process.                                          *)
(***************************************************************************)
LEMMA StepStartSim ==
  ASSUME IInv, NEW p \in Proc, startSim(p)
  PROVE  IInv'
<1>0. Types /\ Local /\ Global /\ Cores /\ 0 \in Tid /\ "PROCESS_STARTING" \in MsgType
  BY Constants DEF IInv, MsgType
<1>1. /\ phase[p] = "new" /\ Send(p, "PROCESS_STARTING", 0)
      /\ UNCHANGED <<serverVars, replies, thread, numProcs, work, entered>>
  BY DEF startSim
<1>2. /\ phase' \in [Proc -> Phases]
      /\ \A q \in Proc : phase'[q] = IF q = p THEN "started" ELSE phase[q]
  BY <1>0 DEF startSim, Types, Phases
<1>3. \A ty \in MsgType, t \in Tid : ~Pending(p, ty, t)
  BY <1>0, <1>1 DEF Local, Asks, Sent, Threads, MsgType
<1>4. /\ Queues'
      /\ \A q \in Proc, ty \in MsgType, u \in Tid :
           Pending(q, ty, u)' <=> Pending(q, ty, u) \/ (q = p /\ ty = "PROCESS_STARTING" /\ u = 0)
  BY <1>0, <1>1, <1>3, SendFacts DEF Types
<1>5. \A q \in Proc, u \in Tid :
        Rep(q, u)' = Rep(q, u) /\ Val(q, u)' = Val(q, u) /\ St(q, u)' = St(q, u)
  BY <1>1 DEF Rep, Val, St
<1>6. ~Over
  BY <1>1 DEF Over
<1>7. Types'
  BY <1>0, <1>1, <1>2, <1>4 DEF Types, serverVars
<1>8. Local'
  <2> SUFFICES ASSUME NEW q \in Proc PROVE Asks(q)' /\ Gets(q)' /\ Threads(q)'
    BY DEF Local
  <2>1. Asks(q)'
    BY <1>0, <1>1, <1>2, <1>3, <1>4, <1>5, <1>6 DEF Local, Asks, Sent, MsgType
  <2>2. Gets(q)'
    BY <1>0, <1>1, <1>2, <1>5, <1>6 DEF Local, Gets
  <2>3. Threads(q)'
    BY <1>0, <1>1, <1>2, <1>5 DEF Local, Threads
  <2>4. QED
    BY <2>1, <2>2, <2>3
<1>9. Global'
  <2>1. Started'
    BY <1>0, <1>1, <1>2, <1>4 DEF Global, Started, MsgType
  <2>2. Listed'
    BY <1>0, <1>1, <1>2, <1>4 DEF Global, Listed, MsgType, serverVars
  <2>3. Waiting' = Waiting
    BY <1>0, <1>1, <1>2, <1>4, <1>5 DEF Waiting, Waits, MsgType
  <2>4. Counted'
    BY <1>0, <1>1, <2>3 DEF Global, Counted, serverVars
  <2>5. Rounds'
    BY <1>0, <1>1, <1>2, <1>5 DEF Global, Rounds, Passed, Gone
  <2>6. QED
    BY <1>0, <1>1, <1>6, <2>1, <2>2, <2>4, <2>5 DEF Global, serverVars
<1>10. Cores'
  BY <1>0, <1>1, <1>4, <1>5, CoresKept DEF serverVars, InUse, MsgType
<1>11. QED
  BY <1>7, <1>8, <1>9, <1>10 DEF IInv

LEMMA StepBegin ==
  ASSUME IInv, StartsFirst, NEW p \in Proc, Begin(p)
  PROVE  IInv'
<1>0. Types /\ Local /\ Global /\ Cores /\ 0 \in Tid
  BY Constants DEF IInv
<1>1. /\ phase[p] = "started" /\ \A q \in Proc : phase[q] # "new" /\ ~Pending(q, "PROCESS_STARTING", 0)
      /\ UNCHANGED <<serverVars, inbox, replies, thread, numProcs, work, entered>>
  BY DEF Begin
<1>2. /\ phase' \in [Proc -> Phases]
      /\ \A q \in Proc : phase'[q] = IF q = p THEN "running" ELSE phase[q]
  BY <1>0 DEF Begin, Types, Phases
<1>3. \A q \in Proc, ty \in MsgType, u \in Tid : Pending(q, ty, u)' <=> Pending(q, ty, u)
  BY <1>1 DEF Pending
<1>4. \A q \in Proc, u \in Tid :
        Rep(q, u)' = Rep(q, u) /\ Val(q, u)' = Val(q, u) /\ St(q, u)' = St(q, u)
  BY <1>1 DEF Rep, Val, St
<1>5. ~Over
  BY <1>1 DEF Over
<1>6. Types'
  BY <1>0, <1>1, <1>2 DEF Types, Queues, serverVars
<1>7. Local'
  <2> SUFFICES ASSUME NEW q \in Proc PROVE Asks(q)' /\ Gets(q)' /\ Threads(q)'
    BY DEF Local
  <2>1. Asks(q)'
    BY <1>0, <1>1, <1>2, <1>3, <1>4, <1>5 DEF Local, Asks, Sent, MsgType
  <2>2. Gets(q)'
    BY <1>0, <1>1, <1>2, <1>4, <1>5 DEF Local, Gets
  <2>3. Threads(q)'
    BY <1>0, <1>1, <1>2, <1>4 DEF Local, Threads
  <2>4. QED
    BY <2>1, <2>2, <2>3
<1>8. Global'
  <2>1. Started'
    BY <1>0, <1>1, <1>2, <1>3 DEF Global, Started, MsgType
  <2>2. Listed'
    BY <1>0, <1>1, <1>2, <1>3 DEF Global, Listed, MsgType, serverVars
  <2>3. Waiting' = Waiting
    BY <1>0, <1>1, <1>2, <1>3, <1>4 DEF Waiting, Waits, MsgType
  <2>4. Counted'
    BY <1>0, <1>1, <2>3 DEF Global, Counted, serverVars
  <2>5. Rounds'
    BY <1>0, <1>1, <1>2, <1>4 DEF Global, Rounds, Passed, Gone
  <2>6. QED
    BY <1>0, <1>1, <1>5, <2>1, <2>2, <2>4, <2>5 DEF Global, serverVars
<1>9. Cores'
  BY <1>0, <1>1, <1>3, <1>4, CoresKept DEF serverVars, InUse, MsgType
<1>10. QED
  BY <1>6, <1>7, <1>8, <1>9 DEF IInv
LEMMA StepBarrier ==
  ASSUME IInv, NEW p \in Proc, barrier(p)
  PROVE  IInv'
<1>0. /\ Types /\ Local /\ Global /\ Cores /\ 0 \in Tid
      /\ "INTER_PROCESS_BARRIERS" \in MsgType /\ "WAIT" \in States
  BY Constants DEF IInv, MsgType, States
<1>1. /\ phase[p] = "running" /\ Send(p, "INTER_PROCESS_BARRIERS", 0)
      /\ \E u \in Tid : St(p, u) = "ACTIVE"
      /\ \A u \in Tid : St(p, u) \notin {"STARTING", "REQUESTING"}
      /\ Turns(p, "ACTIVE", "WAIT")
      /\ UNCHANGED <<serverVars, replies, numProcs, work>>
  <2>1. Turns(p, "ACTIVE", "WAIT")
    BY DEF barrier, Turns
  <2>2. QED
    BY <2>1 DEF barrier, ThreadsOf, Thread, St
<1>2. /\ phase' \in [Proc -> Phases]
      /\ \A q \in Proc : phase'[q] = IF q = p THEN "barrier" ELSE phase[q]
  BY <1>0 DEF barrier, Types, Phases
<1>3. /\ entered' \in [Proc -> 0..MaxRounds]
      /\ \A q \in Proc : entered'[q] = IF q = p THEN entered[q] + 1 ELSE entered[q]
  <2>1. /\ entered \in [Proc -> 0..MaxRounds] /\ entered[p] < MaxRounds
        /\ entered' = [entered EXCEPT ![p] = @ + 1]
    BY <1>0 DEF barrier, Types
  <2>2. entered[p] + 1 \in 0..MaxRounds
    BY <2>1, ServerAssumption
  <2>3. QED
    BY <2>1, <2>2
<1>4. /\ thread' \in [Thread -> States]
      /\ \A q \in Proc, u \in Tid :
           St(q, u)' = IF q = p /\ St(q, u) = "ACTIVE" THEN "WAIT" ELSE St(q, u)
  BY <1>0, <1>1, ThreadsFacts DEF Types, St
<1>5. ~Pending(p, "INTER_PROCESS_BARRIERS", 0)
  BY <1>0, <1>1 DEF Local, Asks, Sent
<1>6. /\ Queues'
      /\ \A q \in Proc, ty \in MsgType, u \in Tid :
           Pending(q, ty, u)' <=>
             Pending(q, ty, u) \/ (q = p /\ ty = "INTER_PROCESS_BARRIERS" /\ u = 0)
  BY <1>0, <1>1, <1>5, SendFacts DEF Types
<1>7. \A q \in Proc, u \in Tid : Rep(q, u)' = Rep(q, u) /\ Val(q, u)' = Val(q, u)
  BY <1>1 DEF Rep, Val
<1>8. Rep(p, 0) = "none" /\ ~Over
  BY <1>0, <1>1, RepKinds DEF Local, Gets, Over
<1>9. Types'
  BY <1>0, <1>1, <1>2, <1>3, <1>4, <1>6 DEF Types, serverVars
<1>10. Local'
  <2> SUFFICES ASSUME NEW q \in Proc PROVE Asks(q)' /\ Gets(q)' /\ Threads(q)'
    BY DEF Local
  <2>1. Asks(q)'
    BY <1>0, <1>1, <1>2, <1>4, <1>6, <1>7, <1>8 DEF Local, Asks, Sent, MsgType
  <2>2. Gets(q)'
    BY <1>0, <1>1, <1>2, <1>4, <1>7, <1>8 DEF Local, Gets
  <2>3. Threads(q)'
    <3>1. CASE q # p
      BY <1>0, <1>2, <1>4, <3>1 DEF Local, Threads
    <3>2. CASE q = p
      <4>1. /\ St(p, 0) # "DEAD"
            /\ \A u \in Tid : St(p, u) \in States /\ St(p, u) # "WAIT"
        BY <1>0, <1>1 DEF Local, Threads, Types, St, Thread
      <4>2. St(p, 0)' \in {"SUSPEND", "WAIT", "FINISH"}
        BY <1>0, <1>1, <1>4, <4>1 DEF States
      <4>3. QED
        BY <1>0, <1>2, <1>4, <3>2, <4>1, <4>2 DEF Threads
    <3>3. QED
      BY <3>1, <3>2
  <2>4. QED
    BY <2>1, <2>2, <2>3
<1>11. Global'
  <2>1. Started'
    BY <1>0, <1>1, <1>2, <1>6 DEF Global, Started, MsgType
  <2>2. Listed'
    BY <1>0, <1>1, <1>2, <1>6 DEF Global, Listed, MsgType, serverVars
  <2>3. Waiting' = Waiting
    BY <1>0, <1>1, <1>2, <1>6, <1>7 DEF Waiting, Waits, MsgType
  <2>4. Counted'
    BY <1>0, <1>1, <2>3 DEF Global, Counted, serverVars
  <2>5. Rounds'
    <3>1. entered[p] \in Nat
      BY <1>0, ServerAssumption DEF Types
    <3>2. \A q \in Proc : Passed(q)' = Passed(q)
      <4> TAKE q \in Proc
      <4>1. CASE q # p
        BY <1>0, <1>2, <1>3, <1>7, <4>1 DEF Passed
      <4>2. CASE q = p
        BY <1>0, <1>1, <1>2, <1>3, <1>7, <1>8, <3>1, <4>2 DEF Passed
      <4>3. QED
        BY <4>1, <4>2
    <3>3. QED
      BY <1>0, <1>1, <1>2, <3>2 DEF Global, Rounds, Gone
  <2>6. QED
    BY <1>0, <1>1, <1>8, <2>1, <2>2, <2>4, <2>5 DEF Global, serverVars
<1>12. Cores'
  BY <1>0, <1>1, <1>4, <1>6, <1>7, CoresKept DEF serverVars, InUse, MsgType
<1>13. QED
  BY <1>9, <1>10, <1>11, <1>12 DEF IInv

\* The answer the main program takes is the one to its barrier.
LEMMA StepLeaveBarrier ==
  ASSUME IInv, NEW p \in Proc, LeaveBarrier(p)
  PROVE  IInv'
<1>0. Types /\ Local /\ Global /\ Cores /\ 0 \in Tid /\ "ACTIVE" \in States
  BY Constants DEF IInv, States
<1>1. /\ phase[p] = "barrier" /\ Rep(p, 0) # "none" /\ Takes(replies', replies, p, 0)
      /\ Turns(p, "WAIT", "ACTIVE")
      /\ UNCHANGED <<serverVars, inbox, work, entered>>
  BY <1>0, OneAnswer DEF LeaveBarrier, Rep, Takes, Types, Turns
<1>2. /\ phase' \in [Proc -> Phases]
      /\ \A q \in Proc : phase'[q] = IF q = p THEN "running" ELSE phase[q]
  BY <1>0 DEF LeaveBarrier, Types, Phases
<1>3. numProcs' \in [Proc -> Nat]
  <2>1. Head(replies[p][0]).val \in Nat
    BY <1>0, <1>1, OneAnswer DEF Types, Rep, Amount
  <2>2. QED
    BY <1>0, <2>1 DEF LeaveBarrier, Types
<1>4. /\ thread' \in [Thread -> States]
      /\ \A q \in Proc, u \in Tid :
           St(q, u)' = IF q = p /\ St(q, u) = "WAIT" THEN "ACTIVE" ELSE St(q, u)
  BY <1>0, <1>1, ThreadsFacts DEF Types, St
<1>5. /\ Channels(replies')
      /\ \A q \in Proc, u \in Tid :
           /\ Rep(q, u)' = IF q = p /\ u = 0 THEN "none" ELSE Rep(q, u)
           /\ ~(q = p /\ u = 0) => Val(q, u)' = Val(q, u)
  BY <1>0, <1>1, TakeFacts DEF Types, Rep, Val
<1>6. \A q \in Proc, ty \in MsgType, u \in Tid : Pending(q, ty, u)' <=> Pending(q, ty, u)
  BY <1>1 DEF Pending
<1>7. /\ ~Pending(p, "INTER_PROCESS_BARRIERS", 0) /\ ~Over
      /\ St(p, 0) \in {"ACTIVE", "SUSPEND", "WAIT", "FINISH"}
  BY <1>0, <1>1 DEF Local, Asks, Sent, Threads, MsgType, Over
<1>8. Types'
  BY <1>0, <1>1, <1>2, <1>3, <1>4, <1>5 DEF Types, Queues, serverVars
<1>9. Local'
  <2> SUFFICES ASSUME NEW q \in Proc PROVE Asks(q)' /\ Gets(q)' /\ Threads(q)'
    BY DEF Local
  <2>1. Asks(q)'
    BY <1>0, <1>1, <1>2, <1>4, <1>5, <1>6, <1>7 DEF Local, Asks, Sent, MsgType
  <2>2. Gets(q)'
    BY <1>0, <1>1, <1>2, <1>4, <1>5, <1>7 DEF Local, Gets
  <2>3. Threads(q)'
    BY <1>0, <1>1, <1>2, <1>4, <1>7 DEF Local, Threads
  <2>4. QED
    BY <2>1, <2>2, <2>3
<1>10. Global'
  <2>1. Started'
    BY <1>0, <1>1, <1>2, <1>6 DEF Global, Started, MsgType
  <2>2. Listed'
    BY <1>0, <1>1, <1>2, <1>6 DEF Global, Listed, MsgType, serverVars
  <2>3. Waiting' = Waiting
    BY <1>0, <1>1, <1>2, <1>5, <1>6 DEF Waiting, Waits, MsgType
  <2>4. Counted'
    BY <1>0, <1>1, <2>3 DEF Global, Counted, serverVars
  <2>5. Rounds'
    <3>1. \A q \in Proc : Passed(q)' = Passed(q)
      BY <1>0, <1>1, <1>2, <1>5 DEF Passed
    <3>2. QED
      BY <1>0, <1>1, <1>2, <3>1 DEF Global, Rounds, Gone
  <2>6. QED
    BY <1>0, <1>1, <1>7, <2>1, <2>2, <2>4, <2>5 DEF Global, serverVars
<1>11. Cores'
  BY <1>0, <1>1, <1>4, <1>5, <1>6, <1>7, CoresKept DEF serverVars, InUse, MsgType
<1>12. QED
  BY <1>8, <1>9, <1>10, <1>11 DEF IInv

LEMMA StepFinishSim ==
  ASSUME IInv, NEW p \in Proc, finishSim(p)
  PROVE  IInv'
<1>0. Types /\ Local /\ Global /\ Cores /\ 0 \in Tid /\ "PROCESS_FINISHING" \in MsgType
  BY Constants DEF IInv, MsgType
<1>1. /\ phase[p] = "running" /\ Send(p, "PROCESS_FINISHING", 0)
      /\ UNCHANGED <<serverVars, replies, thread, numProcs, work, entered>>
  BY DEF finishSim
<1>2. \A u \in Tid : St(p, u) \in {"DEAD", "FINISH"}
  <2>1. \A u \in Tid : <<p, u>> \in ThreadsOf(p, {"DEAD", "FINISH"})
    BY DEF finishSim
  <2>2. QED
    BY <2>1 DEF ThreadsOf, St
<1>3. /\ phase' \in [Proc -> Phases]
      /\ \A q \in Proc : phase'[q] = IF q = p THEN "finishing" ELSE phase[q]
  BY <1>0 DEF finishSim, Types, Phases
<1>4. ~Pending(p, "PROCESS_FINISHING", 0)
  BY <1>0, <1>1 DEF Local, Asks, Sent
<1>5. /\ Queues'
      /\ \A q \in Proc, ty \in MsgType, u \in Tid :
           Pending(q, ty, u)' <=> Pending(q, ty, u) \/ (q = p /\ ty = "PROCESS_FINISHING" /\ u = 0)
  BY <1>0, <1>1, <1>4, SendFacts DEF Types
<1>6. \A q \in Proc, u \in Tid :
        Rep(q, u)' = Rep(q, u) /\ Val(q, u)' = Val(q, u) /\ St(q, u)' = St(q, u)
  BY <1>1 DEF Rep, Val, St
<1>7. Rep(p, 0) = "none" /\ ~Over
  BY <1>0, <1>1, <1>2, RepKinds DEF Local, Gets, Over
<1>8. Types'
  BY <1>0, <1>1, <1>3, <1>5 DEF Types, serverVars
<1>9. Local'
  <2> SUFFICES ASSUME NEW q \in Proc PROVE Asks(q)' /\ Gets(q)' /\ Threads(q)'
    BY DEF Local
  <2>1. Asks(q)'
    BY <1>0, <1>1, <1>2, <1>3, <1>5, <1>6, <1>7 DEF Local, Asks, Sent, MsgType
  <2>2. Gets(q)'
    BY <1>0, <1>1, <1>3, <1>6, <1>7 DEF Local, Gets
  <2>3. Threads(q)'
    BY <1>0, <1>1, <1>2, <1>3, <1>6 DEF Local, Threads
  <2>4. QED
    BY <2>1, <2>2, <2>3
<1>10. Global'
  <2>1. Started'
    BY <1>0, <1>1, <1>3, <1>5 DEF Global, Started, MsgType
  <2>2. Listed'
    BY <1>0, <1>1, <1>3, <1>5 DEF Global, Listed, MsgType, serverVars
  <2>3. Waiting' = Waiting
    BY <1>0, <1>1, <1>3, <1>5, <1>6 DEF Waiting, Waits, MsgType
  <2>4. Counted'
    BY <1>0, <1>1, <2>3 DEF Global, Counted, serverVars
  <2>5. Rounds'
    BY <1>0, <1>1, <1>3, <1>6 DEF Global, Rounds, Passed, Gone
  <2>6. QED
    BY <1>0, <1>1, <1>7, <2>1, <2>2, <2>4, <2>5 DEF Global, serverVars
<1>11. Cores'
  BY <1>0, <1>1, <1>5, <1>6, CoresKept DEF serverVars, InUse, MsgType
<1>12. QED
  BY <1>8, <1>9, <1>10, <1>11 DEF IInv

\* Who is told that no process is left tells the server.
LEMMA StepExit ==
  ASSUME IInv, NEW p \in Proc, Exit(p)
  PROVE  IInv'
<1>0. Types /\ Local /\ Global /\ Cores /\ 0 \in Tid /\ "PROGRAM_EXITING" \in MsgType
  BY Constants DEF IInv, MsgType
<1> DEFINE last == numProcs'[p] = 0
<1>1. /\ phase[p] = "finishing" /\ Rep(p, 0) # "none" /\ Takes(replies', replies, p, 0)
      /\ IF last THEN Send(p, "PROGRAM_EXITING", 0) ELSE UNCHANGED inbox
      /\ UNCHANGED <<serverVars, thread, work, entered>>
  BY <1>0, OneAnswer DEF Exit, Rep, Takes, Types
<1>2. /\ phase' \in [Proc -> Phases]
      /\ \A q \in Proc : phase'[q] = IF q = p THEN "done" ELSE phase[q]
  BY <1>0 DEF Exit, Types, Phases
<1>3. numProcs' \in [Proc -> Nat] /\ (last => Val(p, 0) = 0)
  <2>1. Head(replies[p][0]).val \in Nat /\ Head(replies[p][0]).val = Val(p, 0)
    BY <1>0, <1>1, OneAnswer DEF Types, Rep, Val, Amount
  <2>2. QED
    BY <1>0, <2>1 DEF Exit, Types
<1>4. /\ Channels(replies')
      /\ \A q \in Proc, u \in Tid :
           /\ Rep(q, u)' = IF q = p /\ u = 0 THEN "none" ELSE Rep(q, u)
           /\ ~(q = p /\ u = 0) => Val(q, u)' = Val(q, u)
  BY <1>0, <1>1, TakeFacts DEF Types, Rep, Val
<1>5. ~Pending(p, "PROGRAM_EXITING", 0) /\ ~Pending(p, "PROCESS_FINISHING", 0)
  BY <1>0, <1>1 DEF Local, Asks, Sent, MsgType
<1>6. /\ Queues'
      /\ \A q \in Proc, ty \in MsgType, u \in Tid :
           Pending(q, ty, u)' <=>
             Pending(q, ty, u) \/ (last /\ q = p /\ ty = "PROGRAM_EXITING" /\ u = 0)
  <2> HIDE DEF last
  <2>1. CASE last
    BY <1>0, <1>1, <1>5, <2>1, SendFacts DEF Types
  <2>2. CASE ~last
    BY <1>0, <1>1, <2>2 DEF Types, Queues, Pending
  <2>3. QED
    BY <2>1, <2>2
<1>7. \A q \in Proc, u \in Tid : St(q, u)' = St(q, u)
  BY <1>1 DEF St
<1>8. /\ \A u \in Tid : St(p, u) \in {"DEAD", "FINISH"}
      /\ Rep(p, 0) = "finish" /\ (last => Over)
  BY <1>0, <1>1, <1>3, RepKinds DEF Local, Gets, Threads
<1>9. Over' <=> Over
  BY <1>1, <1>2 DEF Over
<1> HIDE DEF last
<1>10. Types'
  BY <1>0, <1>1, <1>2, <1>3, <1>4, <1>6 DEF Types, serverVars
<1>11. Local'
  <2> SUFFICES ASSUME NEW q \in Proc PROVE Asks(q)' /\ Gets(q)' /\ Threads(q)'
    BY DEF Local
  <2>1. Asks(q)'
    BY <1>0, <1>1, <1>2, <1>4, <1>6, <1>7, <1>8, <1>9 DEF Local, Asks, Sent, MsgType
  <2>2. Gets(q)'
    BY <1>0, <1>1, <1>2, <1>4, <1>7, <1>8, <1>9 DEF Local, Gets
  <2>3. Threads(q)'
    BY <1>0, <1>1, <1>2, <1>7, <1>8 DEF Local, Threads
  <2>4. QED
    BY <2>1, <2>2, <2>3
<1>12. Global'
  <2>1. Started'
    BY <1>0, <1>1, <1>2, <1>6 DEF Global, Started, MsgType
  <2>2. Listed'
    BY <1>0, <1>1, <1>2, <1>5, <1>6 DEF Global, Listed, MsgType, serverVars
  <2>3. Waiting' = Waiting
    BY <1>0, <1>1, <1>2, <1>4, <1>6 DEF Waiting, Waits, MsgType
  <2>4. Counted'
    BY <1>0, <1>1, <2>3 DEF Global, Counted, serverVars
  <2>5. Rounds'
    BY <1>0, <1>1, <1>2, <1>4 DEF Global, Rounds, Passed, Gone
  <2>6. QED
    BY <1>0, <1>1, <1>9, <2>1, <2>2, <2>4, <2>5 DEF Global, serverVars
<1>13. Cores'
  BY <1>0, <1>1, <1>4, <1>6, <1>7, CoresKept DEF serverVars, InUse, MsgType
<1>14. QED
  BY <1>10, <1>11, <1>12, <1>13 DEF IInv
----------------------------------------------------------------------------
(***************************************************************************)
(* The server.                                                             *)
(***************************************************************************)
\* The server takes the message (type, t) of process p; the clients stand.
Popped(p, type, t) ==
  /\ Pending(p, type, t) /\ Queues'
  /\ \A q \in Proc, ty \in MsgType, u \in Tid :
       Pending(q, ty, u)' <=> Pending(q, ty, u) /\ ~(q = p /\ ty = type /\ u = t)
  /\ UNCHANGED clientVars

\* A set of numbers has a least element.
LEMMA LeastExists ==
  ASSUME NEW S \in SUBSET Nat, S # {}
  PROVE  \E j \in S : \A k \in S : j <= k
<1>1. PICK j \in S : \A k \in S : <<k, j>> \notin OpToRel(<, Nat)
  BY NatLessThanWellFounded, WFMin
<1>2. \A k, n \in Nat : k < n => <<k, n>> \in OpToRel(<, Nat)
  BY Zenon DEF OpToRel
<1>3. \A k \in S : ~(k < j)
  BY <1>1, <1>2
<1>4. QED
  BY <1>3

\* Sets of processes.
LEMMA ProcSets ==
  ASSUME NEW P \in SUBSET Proc
  PROVE  /\ IsFiniteSet(P) /\ Cardinality(P) \in Nat /\ Cardinality(P) <= NumProcs
         /\ (Cardinality(P) = 0 <=> P = {})
         /\ \A Q \in SUBSET P : /\ Cardinality(Q) <= Cardinality(P)
                                /\ Cardinality(Q) = Cardinality(P) => Q = P
<1>1. IsFiniteSet(Proc) /\ Cardinality(Proc) = NumProcs
  BY Constants, FS_Interval DEF Proc
<1>2. IsFiniteSet(P) /\ Cardinality(P) <= NumProcs
  BY <1>1, FS_Subset
<1>3. QED
  BY <1>2, FS_CardinalityType, FS_EmptySet, FS_Subset

\* The clients see nothing of a step that answers nobody.
LEMMA LocalKept ==
  ASSUME Local, NEW p \in Proc, NEW type, NEW t, Popped(p, type, t), UNCHANGED replies
  PROVE  Local' /\ (Over' <=> Over)
<1>1. \A q \in Proc, u \in Tid :
        Rep(q, u)' = Rep(q, u) /\ Val(q, u)' = Val(q, u) /\ St(q, u)' = St(q, u)
  BY DEF Popped, clientVars, Rep, Val, St
<1>2. /\ UNCHANGED phase
      /\ \A q \in Proc, ty \in MsgType, u \in Tid : Pending(q, ty, u)' => Pending(q, ty, u)
  BY DEF Popped, clientVars
<1>3. Over' <=> Over
  BY <1>2 DEF Over
<1>4. ASSUME NEW q \in Proc PROVE Asks(q)' /\ Gets(q)' /\ Threads(q)'
  <2>1. Asks(q)'
    BY <1>1, <1>2, <1>3, Constants DEF Local, Asks, Sent, MsgType
  <2>2. Gets(q)' /\ Threads(q)'
    BY <1>1, <1>2, <1>3, Constants DEF Local, Gets, Threads
  <2>3. QED
    BY <2>1, <2>2
<1>5. QED
  BY <1>3, <1>4 DEF Local

LEMMA StepStarting ==
  ASSUME IInv, NEW p \in Proc, NEW m, m.tid \in Tid,
         Popped(p, m.type, m.tid), Starting(p, m)
  PROVE  IInv'
<1>0. Types /\ Local /\ Global /\ Cores /\ 0 \in Tid
  BY Constants DEF IInv
<1>1. /\ m.type = "PROCESS_STARTING" /\ progList' = progList \cup {p}
      /\ UNCHANGED <<server, progCount, coreStat, coreMap, replies>>
  BY DEF Starting
<1>2. m.tid = 0 /\ phase[p] = "started"
  BY <1>0, <1>1 DEF Popped, Local, Asks, Sent, MsgType
<1>3. \A q \in Proc, ty \in MsgType, u \in Tid :
        Pending(q, ty, u)' <=> Pending(q, ty, u) /\ ~(q = p /\ ty = "PROCESS_STARTING" /\ u = 0)
  BY <1>1, <1>2 DEF Popped
<1>4. /\ UNCHANGED clientVars /\ Queues'
      /\ \A q \in Proc, u \in Tid : Rep(q, u)' = Rep(q, u) /\ St(q, u)' = St(q, u)
  BY <1>1 DEF Popped, clientVars, Rep, St
<1>5. Types'
  BY <1>0, <1>1, <1>4 DEF Types, clientVars
<1>6. Local' /\ (Over' <=> Over)
  BY <1>0, <1>1, LocalKept
<1>7. Global'
  <2>1. Started'
    BY <1>0, <1>3, <1>4 DEF Global, Started, MsgType, clientVars
  <2>2. Listed'
    BY <1>0, <1>1, <1>2, <1>3, <1>4 DEF Global, Listed, MsgType, clientVars
  <2>3. Waiting' = Waiting
    BY <1>0, <1>3, <1>4 DEF Waiting, Waits, MsgType, clientVars
  <2>4. Counted'
    <3>1. progList \in SUBSET progList' /\ progList' \in SUBSET Proc
      BY <1>0, <1>1 DEF Types
    <3>2. /\ Cardinality(progList) <= Cardinality(progList') /\ Cardinality(progList') \in Nat
          /\ Cardinality(progList) \in Nat /\ progCount \in Nat
      BY <1>0, <3>1, ProcSets DEF Types
    <3>3. QED
      BY <1>0, <1>1, <2>3, <3>2 DEF Global, Counted
  <2>5. Rounds'
    BY <1>0, <1>4 DEF Global, Rounds, Passed, Gone, clientVars
  <2>6. QED
    BY <1>0, <1>1, <1>6, <2>1, <2>2, <2>4, <2>5 DEF Global
<1>8. Cores'
  BY <1>0, <1>1, <1>3, <1>4, CoresKept DEF InUse, MsgType
<1>9. QED
  BY <1>5, <1>6, <1>7, <1>8 DEF IInv

\* The thread keeps its core until here, and no other thread has it.
LEMMA StepThreadFinishing ==
  ASSUME IInv, NEW p \in Proc, NEW m, m.tid \in Tid,
         Popped(p, m.type, m.tid), ThreadFinishing(p, m)
  PROVE  IInv'
<1> DEFINE t == m.tid
           i == Core(p, t)
<1>0. Types /\ Local /\ Global /\ Cores /\ 0 \in Tid /\ t \in Tid
  BY Constants DEF IInv
<1>1. m.type = "THREAD_FINISHING" /\ UNCHANGED <<server, progList, progCount, replies>>
  BY DEF ThreadFinishing
<1>2. Pending(p, "THREAD_FINISHING", t) /\ St(p, t) = "FINISH"
  BY <1>0, <1>1 DEF Popped, Local, Asks, Sent, MsgType
<1>3. i \in CoreId /\ coreMap[<<p, t>>] = i /\ <<p, t>> \in Thread
  BY <1>0, <1>2 DEF Cores, InUse, Core, Thread
<1>4. coreMap' = coreMap
  <2>1. coreMap' = [coreMap EXCEPT ![<<p, t>>] = IF @ = -1 THEN 0 ELSE @]
    BY DEF ThreadFinishing, getCoreId
  <2>2. i # -1
    BY <1>3, Constants
  <2>3. coreMap' = [coreMap EXCEPT ![<<p, t>>] = i]
    BY <1>3, <2>1, <2>2
  <2>4. QED
    BY <1>0, <1>3, <2>3 DEF Types
<1>5. coreStat' = IF coreStat[i] = 1 THEN [coreStat EXCEPT ![i] = 0] ELSE coreStat
  BY <1>3, <1>4 DEF ThreadFinishing
<1>6. /\ coreStat' \in [CoreId -> {0} \cup Proc]
      /\ \A j \in CoreId : j # i => coreStat'[j] = coreStat[j]
  BY <1>0, <1>3, <1>5 DEF Types
<1> HIDE DEF t, i
<1>7. \A q \in Proc, ty \in MsgType, u \in Tid :
        Pending(q, ty, u)' <=> Pending(q, ty, u) /\ ~(q = p /\ ty = "THREAD_FINISHING" /\ u = t)
  BY <1>1 DEF Popped, t
<1>8. /\ UNCHANGED clientVars /\ Queues'
      /\ \A q \in Proc, u \in Tid : Rep(q, u)' = Rep(q, u) /\ St(q, u)' = St(q, u)
  BY <1>1 DEF Popped, clientVars, Rep, St
<1>9. Types'
  BY <1>0, <1>1, <1>4, <1>6, <1>8 DEF Types, clientVars
<1>10. Local'
  BY <1>0, <1>1, LocalKept
<1>11. Global'
  BY <1>0, <1>1, <1>7, <1>8, GlobalKept DEF MsgType, clientVars
<1>12. Cores'
  <2>1. \A q \in Proc, u \in Tid : InUse(q, u)' => InUse(q, u) /\ ~(q = p /\ u = t)
    BY <1>0, <1>2, <1>7, <1>8 DEF InUse, MsgType
  <2>2. \A q \in Proc, u \in Tid : Core(q, u)' = Core(q, u)
    BY <1>4 DEF Core
  <2>3. InUse(p, t)
    BY <1>2 DEF InUse
  <2>4. \A q \in Proc, u \in Tid : InUse(q, u)' => Core(q, u) # i
    BY <1>0, <2>1, <2>3 DEF Cores, i
  <2>5. QED
    BY <1>0, <1>6, <2>1, <2>2, <2>4 DEF Cores
<1>13. QED
  BY <1>9, <1>10, <1>11, <1>12 DEF IInv

LEMMA StepExiting ==
  ASSUME IInv, NEW p \in Proc, NEW m, m.tid \in Tid,
         Popped(p, m.type, m.tid), Exiting(p, m)
  PROVE  IInv'
<1>0. Types /\ Local /\ Global /\ Cores /\ 0 \in Tid
  BY Constants DEF IInv
<1>1. /\ m.type = "PROGRAM_EXITING" /\ server' = "exited"
      /\ UNCHANGED <<progList, progCount, coreStat, coreMap, replies>>
  BY DEF Exiting
<1>2. Over
  BY <1>0, <1>1 DEF Popped, Local, Asks, Sent, MsgType
<1>3. \A q \in Proc, ty \in MsgType, u \in Tid :
        Pending(q, ty, u)' <=> Pending(q, ty, u) /\ ~(q = p /\ ty = "PROGRAM_EXITING" /\ u = m.tid)
  BY <1>1 DEF Popped
<1>4. /\ UNCHANGED clientVars /\ Queues'
      /\ \A q \in Proc, u \in Tid : Rep(q, u)' = Rep(q, u) /\ St(q, u)' = St(q, u)
  BY <1>1 DEF Popped, clientVars, Rep, St
<1>5. Types'
  BY <1>0, <1>1, <1>4 DEF Types, clientVars
<1>6. Local' /\ (Over' <=> Over)
  BY <1>0, <1>1, LocalKept
<1>7. Global'
  <2>1. Started' /\ Listed'
    BY <1>0, <1>1, <1>3, <1>4 DEF Global, Started, Listed, MsgType, clientVars
  <2>2. Waiting' = Waiting
    BY <1>0, <1>3, <1>4 DEF Waiting, Waits, MsgType, clientVars
  <2>3. Counted' /\ Rounds'
    BY <1>0, <1>1, <1>4, <2>2 DEF Global, Counted, Rounds, Passed, Gone, clientVars
  <2>4. QED
    BY <1>2, <1>6, <2>1, <2>3 DEF Global
<1>8. Cores'
  BY <1>0, <1>1, <1>3, <1>4, CoresKept DEF InUse, MsgType
<1>9. QED
  BY <1>5, <1>6, <1>7, <1>8 DEF IInv
LEMMA StepRequests ==
  ASSUME IInv, NEW p \in Proc, NEW m, m.tid \in Tid,
         Popped(p, m.type, m.tid), Requests(p, m)
  PROVE  IInv'
<1> DEFINE t == m.tid
<1>0. Types /\ Local /\ Global /\ Cores /\ 0 \in Tid /\ t \in Tid
  BY Constants DEF IInv
<1>1. m.type = "MEM_REQUESTS" /\ UNCHANGED <<server, progList, progCount, coreStat>>
  BY DEF Requests
<1>2. Pending(p, "MEM_REQUESTS", t) /\ St(p, t) = "REQUESTING" /\ Rep(p, t) = "none"
  BY <1>0, <1>1 DEF Popped, Local, Asks, Sent, MsgType
<1>3. Core(p, t) \in CoreId /\ coreMap[<<p, t>>] = Core(p, t) /\ <<p, t>> \in Thread
  BY <1>0, <1>2 DEF Cores, InUse, Core, Thread
<1>4. coreMap' = coreMap
  <2>1. coreMap' = [coreMap EXCEPT ![<<p, t>>] = IF @ = -1 THEN 0 ELSE @]
    BY DEF Requests, getCoreId
  <2>2. Core(p, t) # -1
    BY <1>3, Constants
  <2>3. coreMap' = [coreMap EXCEPT ![<<p, t>>] = Core(p, t)]
    BY <1>3, <2>1, <2>2
  <2>4. QED
    BY <1>0, <1>3, <2>3 DEF Types, Core
<1>5. PICK d \in Delays : Puts(replies', replies, p, t, Answer("delay", d))
  BY DEF Requests, Reply, Puts
<1> HIDE DEF t
<1>6. /\ Channels(replies')
      /\ \A q \in Proc, u \in Tid :
           /\ Rep(q, u)' = IF q = p /\ u = t THEN "delay" ELSE Rep(q, u)
           /\ ~(q = p /\ u = t) => Val(q, u)' = Val(q, u)
  <2>1. d \in Nat /\ "delay" \in Kinds
    BY Constants DEF Kinds
  <2>2. QED
    BY <1>0, <1>2, <1>5, <2>1, PutFacts DEF Types, Rep, Val
<1>7. \A q \in Proc, ty \in MsgType, u \in Tid :
        Pending(q, ty, u)' <=> Pending(q, ty, u) /\ ~(q = p /\ ty = "MEM_REQUESTS" /\ u = t)
  BY <1>1 DEF Popped, t
<1>8. UNCHANGED clientVars /\ Queues' /\ \A q \in Proc, u \in Tid : St(q, u)' = St(q, u)
  BY DEF Popped, clientVars, St
<1>9. Types'
  BY <1>0, <1>1, <1>4, <1>6, <1>8 DEF Types, clientVars
<1>10. phase[p] = "barrier" => t # 0
  BY <1>0, <1>2 DEF Local, Threads
<1>11. Local'
  <2> SUFFICES ASSUME NEW q \in Proc PROVE Asks(q)' /\ Gets(q)' /\ Threads(q)'
    BY DEF Local
  <2>0. phase[p] \notin {"finishing", "done"}
    BY <1>0, <1>2 DEF Local, Threads
  <2>1. Asks(q)'
    BY <1>0, <1>2, <1>6, <1>7, <1>8, <1>10, <2>0 DEF Local, Asks, Sent, MsgType, Over, clientVars
  <2>2. Gets(q)'
    BY <1>0, <1>2, <1>6, <1>8, <2>0 DEF Local, Gets, Over, clientVars
  <2>3. Threads(q)'
    BY <1>0, <1>8 DEF Local, Threads, clientVars
  <2>4. QED
    BY <2>1, <2>2, <2>3
<1>12. Global'
  BY <1>0, <1>1, <1>6, <1>7, <1>8, <1>10, GlobalKept DEF MsgType, clientVars
<1>13. Cores'
  BY <1>0, <1>1, <1>2, <1>4, <1>6, <1>7, <1>8, CoresKept DEF InUse, MsgType
<1>14. QED
  BY <1>9, <1>11, <1>12, <1>13 DEF IInv

\* The core that is given is free, and the cores in use are not.
LEMMA StepNewThread ==
  ASSUME IInv, NEW p \in Proc, NEW m, m.tid \in Tid,
         Popped(p, m.type, m.tid), NewThread(p, m)
  PROVE  IInv'
<1> DEFINE t == m.tid
           free == {i \in CoreId : coreStat[i] = 0}
<1>0. Types /\ Local /\ Global /\ Cores /\ 0 \in Tid /\ t \in Tid
  BY Constants DEF IInv
<1>1. m.type = "NEW_THREAD" /\ UNCHANGED <<progList, progCount>>
  BY DEF NewThread
<1>2. Pending(p, "NEW_THREAD", t) /\ St(p, t) = "STARTING" /\ Rep(p, t) = "none"
  BY <1>0, <1>1 DEF Popped, Local, Asks, Sent, MsgType
<1>3. \A q \in Proc, ty \in MsgType, u \in Tid :
        Pending(q, ty, u)' <=> Pending(q, ty, u) /\ ~(q = p /\ ty = "NEW_THREAD" /\ u = t)
  BY <1>1 DEF Popped
<1>4. UNCHANGED clientVars /\ Queues' /\ \A q \in Proc, u \in Tid : St(q, u)' = St(q, u)
  BY DEF Popped, clientVars, St
<1>5. CASE free = {}
  <2>1. server' = "aborted" /\ UNCHANGED <<coreStat, coreMap, replies>>
    BY <1>5 DEF NewThread
  <2>2. \A q \in Proc, u \in Tid : Rep(q, u)' = Rep(q, u)
    BY <2>1 DEF Rep
  <2>3. Types'
    BY <1>0, <1>1, <1>4, <2>1 DEF Types, clientVars
  <2>4. Local'
    BY <1>0, <2>1, LocalKept
  <2>5. Global'
    <3>1. Started' /\ Listed'
      BY <1>0, <1>1, <1>3, <1>4 DEF Global, Started, Listed, MsgType, clientVars
    <3>2. Waiting' = Waiting
      BY <1>0, <1>3, <1>4, <2>2 DEF Waiting, Waits, MsgType, clientVars
    <3>3. Counted' /\ Rounds'
      BY <1>0, <1>1, <1>4, <2>2, <3>2 DEF Global, Counted, Rounds, Passed, Gone, clientVars
    <3>4. QED
      BY <2>1, <3>1, <3>3 DEF Global
  <2>6. Cores'
    BY <1>0, <1>3, <1>4, <2>1, <2>2, CoresKept DEF InUse, MsgType
  <2>7. QED
    BY <2>3, <2>4, <2>5, <2>6 DEF IInv
<1>6. CASE free # {}
  <2> DEFINE i == CHOOSE j \in free : \A k \in free : j <= k
  <2>1. i \in free
    <3>1. free \in SUBSET Nat
      BY Constants
    <3>2. \E j \in free : \A k \in free : j <= k
      BY <1>6, <3>1, LeastExists
    <3>3. QED
      BY <3>2
  <2>2. /\ coreStat' = [coreStat EXCEPT ![i] = p]
        /\ coreMap' = [coreMap EXCEPT ![<<p, t>>] = i]
        /\ Puts(replies', replies, p, t, Answer("core", 0)) /\ UNCHANGED server
    BY <1>6 DEF NewThread, Reply, Puts
  <2>3. i \in CoreId /\ coreStat[i] = 0
    BY <2>1
  <2> HIDE DEF i, free
  <2>4. /\ coreStat' \in [CoreId -> {0} \cup Proc] /\ coreStat'[i] # 0
        /\ \A j \in CoreId : j # i => coreStat'[j] = coreStat[j]
    BY <1>0, <2>2, <2>3, Constants DEF Types
  <2>5. /\ coreMap' \in [Thread -> {-1} \cup CoreId]
        /\ \A q \in Proc, u \in Tid : Core(q, u)' = IF q = p /\ u = t THEN i ELSE Core(q, u)
    <3>1. \A q \in Proc, u \in Tid :
            <<q, u>> \in Thread /\ (<<q, u>> = <<p, t>> <=> q = p /\ u = t)
      BY DEF Thread
    <3>2. QED
      BY <1>0, <2>2, <2>3, <3>1 DEF Types, Core
  <2>6. /\ Channels(replies')
        /\ \A q \in Proc, u \in Tid :
             /\ Rep(q, u)' = IF q = p /\ u = t THEN "core" ELSE Rep(q, u)
             /\ ~(q = p /\ u = t) => Val(q, u)' = Val(q, u)
    <3>1. 0 \in Nat /\ "core" \in Kinds
      BY DEF Kinds
    <3>2. QED
      BY <1>0, <1>2, <2>2, <3>1, PutFacts DEF Types, Rep, Val
  <2> HIDE DEF t
  <2>7. Types'
    BY <1>0, <1>1, <1>4, <2>2, <2>4, <2>5, <2>6 DEF Types, clientVars
  <2>8. (phase[p] = "barrier" => t # 0) /\ phase[p] \notin {"finishing", "done"}
    BY <1>0, <1>2 DEF Local, Threads
  <2>9. Local'
    <3> SUFFICES ASSUME NEW q \in Proc PROVE Asks(q)' /\ Gets(q)' /\ Threads(q)'
      BY DEF Local
    <3>1. Asks(q)'
      BY <1>0, <1>2, <1>3, <1>4, <2>6, <2>8 DEF Local, Asks, Sent, MsgType, Over, clientVars
    <3>2. Gets(q)'
      BY <1>0, <1>2, <1>4, <2>6, <2>8 DEF Local, Gets, Over, clientVars
    <3>3. Threads(q)'
      BY <1>0, <1>4 DEF Local, Threads, clientVars
    <3>4. QED
      BY <3>1, <3>2, <3>3
  <2>10. Global'
    BY <1>0, <1>1, <1>3, <1>4, <2>2, <2>6, <2>8, GlobalKept DEF MsgType, clientVars
  <2>11. Cores'
    <3>1. \A q \in Proc, u \in Tid : ~(q = p /\ u = t) /\ InUse(q, u)' => InUse(q, u)
      BY <1>0, <1>3, <1>4, <2>6 DEF InUse, MsgType
    <3>2. \A q \in Proc, u \in Tid : InUse(q, u) => Core(q, u) \in CoreId /\ Core(q, u) # i
      BY <1>0, <2>3 DEF Cores
    <3>3. QED
      BY <1>0, <2>3, <2>4, <2>5, <3>1, <3>2 DEF Cores
  <2>12. QED
    BY <2>7, <2>9, <2>10, <2>11 DEF IInv
<1>7. QED
  BY <1>5, <1>6
\* The processes the server waits for are in the list.
LEMMA WaitingListed ==
  ASSUME Types, Global
  PROVE  /\ Waiting \in SUBSET progList /\ progList \in SUBSET Proc
         /\ Cardinality(Waiting) = progCount /\ progCount \in Nat
BY DEF Types, Global, Listed, Waiting, Waits, Counted

\* After the start, who is not in the list has gone.
LEMMA ListedOrGone ==
  ASSUME Types, Global, NEW p \in Proc, phase[p] \notin {"new", "started"}
  PROVE  \A q \in Proc : q \in progList \/ Gone(q)
<1>1. \A q \in Proc : phase[q] \in Phases /\ phase[q] # "new" /\ ~Pending(q, "PROCESS_STARTING", 0)
  BY DEF Types, Global, Started
<1>2. QED
  BY <1>1 DEF Global, Listed, Gone, Phases

\* The last process to arrive opens the barrier for all that are listed:
\* the set of those that wait, with it, has as many elements as the list.
LEMMA StepBarriers ==
  ASSUME IInv, NEW p \in Proc, NEW m, m.tid \in Tid,
         Popped(p, m.type, m.tid), Barriers(p, m)
  PROVE  IInv'
<1> DEFINE n == Cardinality(progList)
<1>0. Types /\ Local /\ Global /\ Cores /\ 0 \in Tid
  BY Constants DEF IInv
<1>1. m.type = "INTER_PROCESS_BARRIERS" /\ UNCHANGED <<server, progList, coreStat, coreMap>>
  BY DEF Barriers
<1>2. /\ m.tid = 0 /\ Pending(p, "INTER_PROCESS_BARRIERS", 0)
      /\ phase[p] = "barrier" /\ Rep(p, 0) = "none"
  BY <1>0, <1>1 DEF Popped, Local, Asks, Sent, MsgType
<1>3. \A q \in Proc, ty \in MsgType, u \in Tid :
        Pending(q, ty, u)' <=>
          Pending(q, ty, u) /\ ~(q = p /\ ty = "INTER_PROCESS_BARRIERS" /\ u = 0)
  BY <1>1, <1>2 DEF Popped
<1>4. UNCHANGED clientVars /\ Queues' /\ \A q \in Proc, u \in Tid : St(q, u)' = St(q, u)
  BY DEF Popped, clientVars, St
<1>5. p \in progList /\ p \notin Waiting
  BY <1>0, <1>2 DEF Global, Listed, Waiting, Waits
<1>6. /\ Waiting \cup {p} \in SUBSET progList /\ Cardinality(Waiting \cup {p}) = progCount + 1
      /\ progList \in SUBSET Proc /\ n \in Nat /\ progCount \in Nat
  <2>1. /\ Waiting \in SUBSET progList /\ progList \in SUBSET Proc
        /\ Cardinality(Waiting) = progCount /\ progCount \in Nat
    BY <1>0, WaitingListed
  <2>2. IsFiniteSet(Waiting) /\ n \in Nat
    BY <2>1, ProcSets
  <2>3. Cardinality(Waiting \cup {p}) = progCount + 1
    BY <1>5, <2>1, <2>2, FS_AddElement
  <2>4. QED
    BY <1>5, <2>1, <2>2, <2>3
<1>7. CASE progCount + 1 >= n
  <2>1. Waiting \cup {p} = progList
    <3>1. Cardinality(Waiting \cup {p}) <= n
      BY <1>6, ProcSets
    <3>2. Cardinality(Waiting \cup {p}) = n
      BY <1>6, <1>7, <3>1
    <3>3. QED
      BY <1>6, <3>2, ProcSets
  <2>2. \A q \in progList :
          /\ phase[q] = "barrier" /\ Rep(q, 0) = "none"
          /\ St(q, 0) \in {"ACTIVE", "SUSPEND", "WAIT", "FINISH"}
          /\ ~Pending(q, "INTER_PROCESS_BARRIERS", 0)'
    BY <1>0, <1>2, <1>3, <1>6, <2>1 DEF Waiting, Waits, MsgType, Local, Threads
  <2>3. progCount' = 0 /\ PutsAll(replies', replies, progList, Answer("barrier", n))
    BY <1>7 DEF Barriers, PutsAll
  <2>4. /\ Channels(replies')
        /\ \A q \in Proc, u \in Tid :
             /\ Rep(q, u)' = IF q \in progList /\ u = 0 THEN "barrier" ELSE Rep(q, u)
             /\ ~(q \in progList /\ u = 0) => Val(q, u)' = Val(q, u)
    <3>1. /\ Channels(replies) /\ progList \in SUBSET Proc /\ n \in Nat /\ "barrier" \in Kinds
          /\ \A q \in progList : Kind(replies, q, 0) = "none"
      BY <1>0, <1>6, <2>2 DEF Kinds, Rep, Types
    <3> HIDE DEF n
    <3>2. /\ Channels(replies')
          /\ \A q \in Proc, u \in Tid :
               /\ Kind(replies', q, u) =
                    IF q \in progList /\ u = 0 THEN "barrier" ELSE Kind(replies, q, u)
               /\ Amount(replies', q, u) =
                    IF q \in progList /\ u = 0 THEN n ELSE Amount(replies, q, u)
      BY <2>3, <3>1, PutAllFacts
    <3>3. QED
      BY <3>2 DEF Rep, Val
  <2> HIDE DEF n
  <2>5. Types'
    BY <1>0, <1>1, <1>4, <2>3, <2>4 DEF Types, clientVars
  <2>6. Local'
    <3> SUFFICES ASSUME NEW q \in Proc PROVE Asks(q)' /\ Gets(q)' /\ Threads(q)'
      BY DEF Local
    <3>1. Asks(q)'
      BY <1>0, <1>3, <1>4, <2>2, <2>4 DEF Local, Asks, Sent, MsgType, Over, clientVars
    <3>2. Gets(q)'
      BY <1>0, <1>4, <2>2, <2>4 DEF Local, Gets, Over, clientVars
    <3>3. Threads(q)'
      BY <1>0, <1>4 DEF Local, Threads, clientVars
    <3>4. QED
      BY <3>1, <3>2, <3>3
  <2>7. Global'
    <3>1. Started' /\ Listed'
      BY <1>0, <1>1, <1>3, <1>4 DEF Global, Started, Listed, MsgType, clientVars
    <3>2. Counted'
      <4>1. \A q \in Proc : phase[q] = "barrier" => q \in progList
        BY <1>0 DEF Global, Listed
      <4>2. Waiting' = {}
        BY <1>0, <1>4, <2>4, <4>1 DEF Waiting, Waits, clientVars
      <4>3. QED
        BY <2>3, <4>2, FS_EmptySet DEF Counted
    <3>3. Rounds'
      <4>1. \A q \in Proc : q \in progList \/ Gone(q)
        BY <1>0, <1>2, ListedOrGone
      <4>2. \A q \in progList : /\ q \in Proc /\ ~Gone(q) /\ entered[q] \in Nat
                                /\ Passed(q) = entered[q] - 1 /\ Passed(q)' = entered[q]
        BY <1>0, <1>4, <1>6, <2>2, <2>4, ServerAssumption DEF Passed, Gone, Types, clientVars
      <4>3. \A q, r \in progList : entered[q] = entered[r]
        BY <1>0, <4>2 DEF Global, Rounds
      <4>4. \A q \in Proc : Gone(q)' <=> Gone(q)
        BY <1>4 DEF Gone, clientVars
      <4>5. QED
        BY <4>1, <4>2, <4>3, <4>4 DEF Rounds
    <3>4. QED
      BY <1>0, <1>1, <1>4, <3>1, <3>2, <3>3 DEF Global, Over, clientVars
  <2>8. Cores'
    BY <1>0, <1>1, <1>3, <1>4, <2>2, <2>4, CoresKept DEF InUse, MsgType
  <2>9. QED
    BY <2>5, <2>6, <2>7, <2>8 DEF IInv
<1>8. CASE ~(progCount + 1 >= n)
  <2>1. progCount' = progCount + 1 /\ UNCHANGED replies
    BY <1>8 DEF Barriers
  <2>2. \A q \in Proc, u \in Tid : Rep(q, u)' = Rep(q, u)
    BY <2>1 DEF Rep
  <2>3. Types'
    BY <1>0, <1>1, <1>4, <1>6, <2>1 DEF Types, clientVars
  <2>4. Local'
    BY <1>0, <2>1, LocalKept
  <2>5. Global'
    <3>1. Started' /\ Listed'
      BY <1>0, <1>1, <1>3, <1>4 DEF Global, Started, Listed, MsgType, clientVars
    <3>2. Waiting' = Waiting \cup {p}
      BY <1>0, <1>2, <1>3, <1>4, <2>2 DEF Waiting, Waits, MsgType, clientVars
    <3>3. Counted'
      BY <1>1, <1>6, <1>8, <2>1, <3>2 DEF Counted
    <3>4. Rounds'
      BY <1>0, <1>4, <2>2 DEF Global, Rounds, Passed, Gone, clientVars
    <3>5. QED
      BY <1>0, <1>1, <1>4, <3>1, <3>3, <3>4 DEF Global, Over, clientVars
  <2>6. Cores'
    BY <1>0, <1>1, <1>3, <1>4, <2>2, CoresKept DEF InUse, MsgType
  <2>7. QED
    BY <2>3, <2>4, <2>5, <2>6 DEF IInv
<1>9. QED
  BY <1>7, <1>8
\* Two answers at once: that of the process that finishes, and, if all the
\* others wait, those that open their barrier.
LEMMA StepFinishing ==
  ASSUME IInv, NEW p \in Proc, NEW m, m.tid \in Tid,
         Popped(p, m.type, m.tid), Finishing(p, m)
  PROVE  IInv'
<1> DEFINE L == progList \ {p}
           n == Cardinality(L)
           told == [replies EXCEPT ![p][0] = Append(@, Answer("finish", n))]
<1>0. Types /\ Local /\ Global /\ Cores /\ 0 \in Tid
  BY Constants DEF IInv
<1>1. /\ m.type = "PROCESS_FINISHING" /\ progList' = L
      /\ UNCHANGED <<server, coreStat, coreMap>>
  BY DEF Finishing
<1>2. /\ m.tid = 0 /\ Pending(p, "PROCESS_FINISHING", 0)
      /\ phase[p] = "finishing" /\ Rep(p, 0) = "none"
  BY <1>0, <1>1 DEF Popped, Local, Asks, Sent, MsgType
<1>3. \A q \in Proc, ty \in MsgType, u \in Tid :
        Pending(q, ty, u)' <=> Pending(q, ty, u) /\ ~(q = p /\ ty = "PROCESS_FINISHING" /\ u = 0)
  BY <1>1, <1>2 DEF Popped
<1>4. UNCHANGED clientVars /\ Queues' /\ \A q \in Proc, u \in Tid : St(q, u)' = St(q, u)
  BY DEF Popped, clientVars, St
<1>5. /\ Waiting \in SUBSET L /\ L \in SUBSET Proc /\ n \in Nat
      /\ Cardinality(Waiting) = progCount /\ progCount \in Nat
  <2>1. /\ Waiting \in SUBSET progList /\ progList \in SUBSET Proc
        /\ Cardinality(Waiting) = progCount /\ progCount \in Nat
    BY <1>0, WaitingListed
  <2>2. p \notin Waiting
    BY <1>2 DEF Waiting, Waits
  <2>3. L \in SUBSET Proc
    BY <2>1
  <2>4. n \in Nat
    BY <2>3, ProcSets
  <2>5. QED
    BY <2>1, <2>2, <2>3, <2>4
<1>6. \A q \in Proc : q \in L \/ Gone(q)
  BY <1>0, <1>2, ListedOrGone DEF Gone
<1>7. n = 0 => Over
  <2>1. n = 0 => L = {}
    BY <1>5, ProcSets
  <2>2. QED
    BY <1>6, <2>1 DEF Gone, Over
<1>8. /\ Channels(told)
      /\ \A q \in Proc, u \in Tid :
           /\ Kind(told, q, u) = IF q = p /\ u = 0 THEN "finish" ELSE Rep(q, u)
           /\ Amount(told, q, u) = IF q = p /\ u = 0 THEN n ELSE Val(q, u)
  <2>1. Puts(told, replies, p, 0, Answer("finish", n))
    BY DEF Puts
  <2>2. Channels(replies) /\ Kind(replies, p, 0) = "none" /\ "finish" \in Kinds
    BY <1>0, <1>2 DEF Types, Rep, Kinds
  <2> HIDE DEF told, n
  <2>3. QED
    BY <1>0, <1>5, <2>1, <2>2, PutFacts DEF Rep, Val
<1>9. /\ progCount >= n => progCount' = 0 /\ PutsAll(replies', told, L, Answer("barrier", n))
      /\ ~(progCount >= n) => replies' = told /\ progCount' = progCount
  BY DEF Finishing, PutsAll
<1> HIDE DEF told, n, L
<1>10. Started'
  BY <1>0, <1>1, <1>3, <1>4 DEF Global, Started, MsgType, clientVars
<1>11. Listed'
  BY <1>0, <1>1, <1>2, <1>3, <1>4 DEF Global, Listed, L, MsgType, clientVars
<1>12. (Over' <=> Over) /\ \A q \in Proc : Gone(q)' <=> Gone(q)
  BY <1>4 DEF Over, Gone, clientVars
<1>13. p \notin L /\ \A u \in Tid : St(p, u) \in {"DEAD", "FINISH"}
  BY <1>0, <1>2 DEF L, Local, Threads
<1>14. CASE progCount >= n
  <2>1. Waiting = L
    <3>1. Cardinality(Waiting) <= n
      BY <1>5, ProcSets DEF n
    <3>2. Cardinality(Waiting) = n
      BY <1>5, <1>14, <3>1
    <3>3. QED
      BY <1>5, <3>2, ProcSets DEF n
  <2>2. \A q \in L :
          /\ phase[q] = "barrier" /\ Rep(q, 0) = "none"
          /\ St(q, 0) \in {"ACTIVE", "SUSPEND", "WAIT", "FINISH"}
          /\ q \in Proc /\ ~Pending(q, "INTER_PROCESS_BARRIERS", 0)'
    BY <1>0, <1>3, <1>5, <2>1 DEF Waiting, Waits, MsgType, Local, Threads
  <2>3. /\ Channels(replies')
        /\ \A q \in Proc, u \in Tid :
             /\ Rep(q, u)' = IF q \in L /\ u = 0 THEN "barrier"
                             ELSE IF q = p /\ u = 0 THEN "finish" ELSE Rep(q, u)
             /\ ~(q \in L /\ u = 0) => Val(q, u)' = IF q = p /\ u = 0 THEN n ELSE Val(q, u)
    <3>1. /\ L \in SUBSET Proc /\ n \in Nat /\ "barrier" \in Kinds
          /\ \A q \in L : Kind(told, q, 0) = "none"
      BY <1>0, <1>5, <1>8, <1>13, <2>2 DEF Kinds
    <3>2. /\ Channels(replies')
          /\ \A q \in Proc, u \in Tid :
               /\ Kind(replies', q, u) = IF q \in L /\ u = 0 THEN "barrier" ELSE Kind(told, q, u)
               /\ Amount(replies', q, u) = IF q \in L /\ u = 0 THEN n ELSE Amount(told, q, u)
      BY <1>8, <1>9, <1>14, <3>1, PutAllFacts
    <3>3. QED
      BY <1>8, <3>2 DEF Rep, Val
  <2>4. Types'
    BY <1>0, <1>1, <1>4, <1>5, <1>9, <1>14, <2>3 DEF Types, clientVars
  <2>5. Local'
    <3> SUFFICES ASSUME NEW q \in Proc PROVE Asks(q)' /\ Gets(q)' /\ Threads(q)'
      BY DEF Local
    <3>1. Asks(q)'
      BY <1>0, <1>2, <1>3, <1>4, <1>12, <1>13, <2>2, <2>3 DEF Local, Asks, Sent, MsgType, clientVars
    <3>2. Gets(q)'
      BY <1>0, <1>2, <1>4, <1>7, <1>12, <1>13, <2>2, <2>3 DEF Local, Gets, clientVars
    <3>3. Threads(q)'
      BY <1>0, <1>4 DEF Local, Threads, clientVars
    <3>4. QED
      BY <3>1, <3>2, <3>3
  <2>6. Counted'
    <3>1. \A q \in Proc : phase[q] = "barrier" => q \in L
      BY <1>6 DEF Gone
    <3>2. Waiting' = {}
      BY <1>0, <1>4, <2>3, <3>1 DEF Waiting, Waits, clientVars
    <3>3. QED
      BY <1>9, <1>14, <3>2, FS_EmptySet DEF Counted
  <2>7. Rounds'
    <3>1. \A q \in L : /\ q \in Proc /\ ~Gone(q) /\ entered[q] \in Nat
                       /\ Passed(q) = entered[q] - 1 /\ Passed(q)' = entered[q]
      BY <1>0, <1>4, <2>2, <2>3, ServerAssumption DEF Passed, Gone, Types, clientVars
    <3>2. \A q, r \in L : entered[q] = entered[r]
      BY <1>0, <3>1 DEF Global, Rounds
    <3>3. QED
      BY <1>6, <1>12, <3>1, <3>2 DEF Rounds
  <2>8. Cores'
    BY <1>0, <1>1, <1>3, <1>4, <1>13, <2>2, <2>3, CoresKept DEF InUse, MsgType
  <2>9. QED
    BY <1>0, <1>1, <1>10, <1>11, <1>12, <2>4, <2>5, <2>6, <2>7, <2>8 DEF IInv, Global
<1>15. CASE ~(progCount >= n)
  <2>1. /\ Channels(replies')
        /\ \A q \in Proc, u \in Tid :
             /\ Rep(q, u)' = IF q = p /\ u = 0 THEN "finish" ELSE Rep(q, u)
             /\ Val(q, u)' = IF q = p /\ u = 0 THEN n ELSE Val(q, u)
    BY <1>8, <1>9, <1>15 DEF Rep, Val
  <2>2. Types'
    BY <1>0, <1>1, <1>4, <1>5, <1>9, <1>15, <2>1 DEF Types, clientVars
  <2>3. Local'
    <3> SUFFICES ASSUME NEW q \in Proc PROVE Asks(q)' /\ Gets(q)' /\ Threads(q)'
      BY DEF Local
    <3>1. Asks(q)'
      BY <1>0, <1>2, <1>3, <1>4, <1>12, <1>13, <2>1 DEF Local, Asks, Sent, MsgType, clientVars
    <3>2. Gets(q)'
      BY <1>0, <1>2, <1>4, <1>7, <1>12, <1>13, <2>1 DEF Local, Gets, clientVars
    <3>3. Threads(q)'
      BY <1>0, <1>4 DEF Local, Threads, clientVars
    <3>4. QED
      BY <3>1, <3>2, <3>3
  <2>4. Counted'
    <3>1. Waiting' = Waiting
      BY <1>0, <1>2, <1>3, <1>4, <2>1 DEF Waiting, Waits, MsgType, clientVars
    <3>2. QED
      BY <1>1, <1>5, <1>9, <1>15, <3>1 DEF Counted, n
  <2>5. Rounds'
    <3>1. \A q \in Proc : Passed(q)' = Passed(q)
      BY <1>0, <1>2, <1>4, <2>1 DEF Passed, clientVars
    <3>2. QED
      BY <1>0, <1>12, <3>1 DEF Global, Rounds
  <2>6. Cores'
    BY <1>0, <1>1, <1>3, <1>4, <1>13, <2>1, CoresKept DEF InUse, MsgType
  <2>7. QED
    BY <1>0, <1>1, <1>10, <1>11, <1>12, <2>2, <2>3, <2>4, <2>5, <2>6 DEF IInv, Global
<1>16. QED
  BY <1>14, <1>15
----------------------------------------------------------------------------
(***************************************************************************)
(* The theorems.                                                           *)
(***************************************************************************)
LEMMA Initially == Init => IInv
<1> SUFFICES ASSUME Init PROVE IInv
  OBVIOUS
<1>0. 0 \in Tid /\ 0 \in Nat /\ 0 \in 0..MaxRounds /\ MaxWork \in 0..MaxWork /\ NumProcs \in Nat
  BY ServerAssumption, Constants
<1>1. Queues
  BY DEF Init, Queues
<1>2. Channels(replies)
  <2>1. <<>> \in Channel
    BY DEF Channel
  <2>2. QED
    BY <2>1 DEF Init, Channels
<1>3. Types
  BY <1>0, <1>1, <1>2 DEF Init, Types, Phases, States
<1>4. /\ \A q \in Proc, ty \in MsgType, u \in Tid : ~Pending(q, ty, u)
      /\ \A q \in Proc, u \in Tid : Rep(q, u) = "none" /\ St(q, u) = "DEAD"
      /\ \A q \in Proc : phase[q] = "new" /\ entered[q] = 0
  BY DEF Init, Pending, Rep, Kind, St, Thread
<1>5. Local
  BY <1>0, <1>4 DEF Local, Asks, Gets, Threads
<1>6. Global
  <2>1. Started /\ Listed /\ Rounds /\ server # "exited"
    BY <1>4 DEF Init, Started, Listed, Rounds, Passed
  <2>2. Waiting = {}
    BY <1>4 DEF Waiting, Waits
  <2>3. Counted
    BY <2>2, FS_EmptySet DEF Init, Counted
  <2>4. QED
    BY <2>1, <2>3 DEF Global
<1>7. Cores
  BY <1>4 DEF Cores, InUse
<1>8. QED
  BY <1>3, <1>5, <1>6, <1>7 DEF IInv

LEMMA StepServer ==
  ASSUME IInv, NEW p \in Proc, msgHandler(p)
  PROVE  IInv'
<1> DEFINE m == Head(inbox[p])
<1>1. m.tid \in Tid /\ Popped(p, m.type, m.tid)
  <2>1. Queues /\ inbox[p] # <<>> /\ inbox' = [inbox EXCEPT ![p] = Tail(@)] /\ UNCHANGED clientVars
    BY DEF IInv, Types, msgHandler
  <2>2. QED
    BY <2>1, PopFacts DEF Popped
<1>2. \/ Starting(p, m) \/ Finishing(p, m) \/ Barriers(p, m) \/ NewThread(p, m)
      \/ ThreadFinishing(p, m) \/ Requests(p, m) \/ Exiting(p, m)
  BY DEF msgHandler
<1> HIDE DEF m
<1>3. QED
  BY <1>1, <1>2, StepStarting, StepFinishing, StepBarriers, StepNewThread,
     StepThreadFinishing, StepRequests, StepExiting

LEMMA StepClient ==
  ASSUME IInv, StartsFirst, Undisturbed', NEW p \in Proc, Client(p)
  PROVE  IInv'
<1>1. CASE startSim(p) \/ Begin(p) \/ barrier(p) \/ LeaveBarrier(p) \/ finishSim(p) \/ Exit(p)
  BY <1>1, StepStartSim, StepBegin, StepBarrier, StepLeaveBarrier, StepFinishSim, StepExit
<1>2. ASSUME NEW t \in Tid,
             \/ threadStart(<<p, t>>) \/ execMem(<<p, t>>) \/ Receive(<<p, t>>)
             \/ sysBefore(<<p, t>>) \/ sysAfter(<<p, t>>) \/ threadFini(<<p, t>>)
      PROVE  IInv'
  BY <1>2, StepThreadStart, StepExecMem, StepReceive, StepSysBefore, StepSysAfter, StepThreadFini
<1>3. QED
  BY <1>1, <1>2 DEF Client

LEMMA IInvStep ==
  ASSUME StartsFirst, Undisturbed', IInv, [Next]_vars
  PROVE  IInv'
<1>1. CASE Next
  BY <1>1, StepServer, StepClient DEF Next, Serve
<1>2. CASE UNCHANGED vars
  <2> USE <1>2 DEF vars, serverVars, clientVars
  <2>1. /\ \A q \in Proc, ty \in MsgType, u \in Tid : Pending(q, ty, u)' <=> Pending(q, ty, u)
        /\ \A q \in Proc, u \in Tid :
             Rep(q, u)' = Rep(q, u) /\ Val(q, u)' = Val(q, u) /\ St(q, u)' = St(q, u)
    BY DEF Pending, Rep, Val, St
  <2>2. Types'
    BY DEF IInv, Types, Queues
  <2>3. Local'
    <3> SUFFICES ASSUME NEW q \in Proc PROVE Asks(q)' /\ Gets(q)' /\ Threads(q)'
      BY DEF Local
    <3>1. Asks(q)'
      BY <2>1, Constants DEF IInv, Local, Asks, Sent, Over
    <3>2. Gets(q)' /\ Threads(q)'
      BY <2>1, Constants DEF IInv, Local, Gets, Threads, Over
    <3>3. QED
      BY <3>1, <3>2
  <2>4. Global'
    BY <2>1, Constants, GlobalKept DEF IInv, MsgType
  <2>5. Cores'
    BY <2>1, CoresKept DEF IInv, InUse, MsgType
  <2>6. QED
    BY <2>2, <2>3, <2>4, <2>5 DEF IInv
<1>3. QED
  BY <1>1, <1>2

LEMMA Invariant ==
  ASSUME StartsFirst
  PROVE  Spec /\ []Undisturbed => []IInv
<1>1. Init => IInv
  BY Initially
<1>2. IInv /\ [Next]_vars /\ Undisturbed' => IInv'
  BY IInvStep
<1>3. QED
  BY <1>1, <1>2, PTL DEF Spec

\* The list and the counts of the server, the cores and the states of the
\* threads keep their types: prog_count stays below the number of processes
\* (src/src/prime.cpp:137-170), while no message overtakes a PROCESS_STARTING
\* and thread 0 awaits no batch in a barrier.
THEOREM ServerTyped ==
  ASSUME StartsFirst
  PROVE  Spec /\ []Undisturbed => []TypeOK
<1>1. IInv => TypeOK
  <2> SUFFICES ASSUME IInv PROVE TypeOK
    OBVIOUS
  <2>1. progCount \in 0..NumProcs - 1
    <3>1. Types /\ Counted
      BY DEF IInv, Global
    <3>2. progCount \in Nat /\ Cardinality(progList) \in Nat /\ Cardinality(progList) <= NumProcs
      BY <3>1, ProcSets DEF Types
    <3>3. QED
      BY <3>1, <3>2, Constants DEF Counted
  <2>2. QED
    BY <2>1 DEF IInv, Types, TypeOK, Phases, States
<1>2. QED
  BY <1>1, Invariant, PTL

\* allocCore and deallocCore (src/src/thread_sched.cpp) never let two threads
\* be simulated on the same core, while no message overtakes a
\* PROCESS_STARTING and thread 0 awaits no batch in a barrier.
THEOREM CoresKeptApart ==
  ASSUME StartsFirst
  PROVE  Spec /\ []Undisturbed => []CoresExclusive
<1>1. IInv => CoresExclusive
  <2> SUFFICES ASSUME IInv, NEW x \in Thread, NEW y \in Thread, Placed(x), Placed(y), x # y
               PROVE  coreMap[x] # coreMap[y]
    BY DEF CoresExclusive
  <2>1. /\ x = <<x[1], x[2]>> /\ x[1] \in Proc /\ x[2] \in Tid
        /\ y = <<y[1], y[2]>> /\ y[1] \in Proc /\ y[2] \in Tid
    BY DEF Thread
  <2>2. InUse(x[1], x[2]) /\ InUse(y[1], y[2])
    BY <2>1 DEF Placed, InUse, St
  <2>3. Core(x[1], x[2]) # Core(y[1], y[2])
    BY <2>1, <2>2 DEF IInv, Cores
  <2>4. QED
    BY <2>1, <2>3 DEF Core
<1>2. QED
  BY <1>1, Invariant, PTL

\* What the server sends with a tag is what its receiver waits for
\* (src/src/core_manager.cpp): no delay is taken for a number of processes,
\* whichever threads wait in system calls and come back in a barrier, as long
\* as thread 0 does not ask there with the tag of the barrier's answer.
THEOREM AnswersExpected ==
  ASSUME StartsFirst
  PROVE  Spec /\ []Undisturbed => []RepliesExpected
<1>1. IInv => RepliesExpected
  <2> SUFFICES ASSUME IInv, NEW p \in Proc, NEW t \in Tid
               PROVE  /\ Len(replies[p][t]) <= 1
                      /\ \A i \in DOMAIN replies[p][t] :
                           CASE replies[p][t][i].kind = "core"    -> thread[<<p, t>>] = "STARTING"
                             [] replies[p][t][i].kind = "delay"   -> thread[<<p, t>>] = "REQUESTING"
                             [] replies[p][t][i].kind = "barrier" -> phase[p] = "barrier"
                             [] OTHER                             -> phase[p] = "finishing"
    BY DEF RepliesExpected
  <2> DEFINE s == replies[p][t]
  <2>1. s \in Seq(Answers) /\ Len(s) <= 1 /\ Len(s) \in Nat
    BY LenProperties DEF IInv, Types, Channels, Channel
  <2>2. CASE s = <<>>
    BY <2>2
  <2>3. CASE s # <<>>
    <3>1. Rep(p, t) = s[1].kind /\ Rep(p, t) \in {"core", "delay", "barrier", "finish"}
      BY <2>3, RepKinds, OneAnswer DEF IInv, Types, Rep, Kind
    <3>2. /\ Rep(p, t) = "core" => thread[<<p, t>>] = "STARTING"
          /\ Rep(p, t) = "delay" => thread[<<p, t>>] = "REQUESTING"
          /\ Rep(p, t) = "barrier" => phase[p] = "barrier"
          /\ Rep(p, t) = "finish" => phase[p] = "finishing"
      BY DEF IInv, Local, Gets, St
    <3>3. \A i \in DOMAIN s : i = 1
      BY <2>1
    <3> HIDE DEF s
    <3>4. \A i \in DOMAIN s :
            CASE s[i].kind = "core"    -> thread[<<p, t>>] = "STARTING"
              [] s[i].kind = "delay"   -> thread[<<p, t>>] = "REQUESTING"
              [] s[i].kind = "barrier" -> phase[p] = "barrier"
              [] OTHER                 -> phase[p] = "finishing"
      BY <3>1, <3>2, <3>3
    <3>5. QED
      BY <2>1, <3>4 DEF s
  <2>4. QED
    BY <2>2, <2>3
<1>2. QED
  BY <1>1, Invariant, PTL

\* The server is told to exit by a process that has been told that no other
\* is left (src/src/prime.cpp, src/src/core_manager.cpp), while no message
\* overtakes a PROCESS_STARTING and thread 0 awaits no batch in a barrier.
THEOREM ServerExitsLast ==
  ASSUME StartsFirst
  PROVE  Spec /\ []Undisturbed => []ExitsLast
<1>1. IInv => ExitsLast
  BY DEF IInv, Global, ExitsLast, Over
<1>2. QED
  BY <1>1, Invariant, PTL

\* Nobody leaves an inter-process barrier before every process that goes on
\* has entered it (src/src/core_manager.cpp:103), whichever threads wait in
\* system calls and come back in the barrier, as long as thread 0 does not ask
\* there with the tag of the barrier's answer.
THEOREM NobodyLaps ==
  ASSUME StartsFirst
  PROVE  Spec /\ []Undisturbed => InStep
<1> DEFINE Step == \A p, q \in Proc :
       phase[p] = "barrier" /\ phase'[p] = "running" /\ phase[q] \in {"running", "barrier"}
         => entered[q] >= entered[p]
<1>1. IInv /\ [Next]_vars => [Step]_vars
  <2> SUFFICES ASSUME IInv, Next, NEW p \in Proc, NEW q \in Proc,
                      phase[p] = "barrier", phase'[p] = "running",
                      phase[q] \in {"running", "barrier"}
               PROVE  entered[q] >= entered[p]
    OBVIOUS
  <2>1. LeaveBarrier(p)
    <3>1. Types /\ phase \in [Proc -> Phases]
      BY DEF IInv, Types
    <3>2. ASSUME NEW r \in Proc, msgHandler(r) PROVE FALSE
      BY <3>2 DEF msgHandler, clientVars
    <3>3. ASSUME NEW r \in Proc, Client(r) PROVE LeaveBarrier(p)
      BY <3>1, <3>3 DEF Client, startSim, Begin, barrier, LeaveBarrier, finishSim, Exit,
         threadStart, execMem, Receive, sysBefore, sysAfter, threadFini
    <3>4. QED
      BY <3>2, <3>3 DEF Next, Serve
  <2>2. Rep(p, 0) # "none"
    BY <2>1, Constants, OneAnswer DEF LeaveBarrier, Rep, IInv, Types
  <2>3. Passed(p) = entered[p] /\ Passed(q) <= entered[q] /\ Passed(p) = Passed(q)
    <3>1. entered[p] \in Nat /\ entered[q] \in Nat
      BY ServerAssumption DEF IInv, Types
    <3>2. Passed(p) = entered[p] /\ Passed(q) <= entered[q]
      BY <2>2, <3>1 DEF Passed
    <3>3. QED
      BY <3>2 DEF IInv, Global, Rounds, Gone
  <2>4. QED
    BY <2>3
<1>2. QED
  BY <1>1, Invariant, PTL DEF Spec, InStep
=============================================================================
