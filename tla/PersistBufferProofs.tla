------------------------ MODULE PersistBufferProofs ------------------------
(***************************************************************************)
(* The order in which the writes of a core persist, for any number of      *)
(* cores, blocks, writes, and lines of a buffer.                           *)
(*                                                                         *)
(* What becomes of a core's lines is seen in one sequence, Order(c): a     *)
(* write appends a line to it or is taken in by a line behind the last     *)
(* barrier, and lines that leave the buffer do not move in it.             *)
(***************************************************************************)
EXTENDS PersistBuffer, TLAPS, SequenceTheorems, WellFoundedInduction

\* A set of numbers up to n has a least and a greatest element.
LEMMA LeastExists ==
  ASSUME NEW T \in SUBSET Nat, T # {}
  PROVE  \E x \in T : \A y \in T : x <= y
<1>1. PICK x \in T : \A y \in T : <<y, x>> \notin OpToRel(<, Nat)
  BY NatLessThanWellFounded, WFMin
<1>2. \A m, n \in Nat : m < n => <<m, n>> \in OpToRel(<, Nat)
  BY Zenon DEF OpToRel
<1>3. \A y \in T : ~(y < x)
  BY <1>1, <1>2
<1>4. QED
  BY <1>3

LEMMA MinMax ==
  ASSUME NEW n \in Nat, NEW T \in SUBSET (0..n), T # {}
  PROVE  /\ Min(T) \in T /\ \A y \in T : Min(T) <= y
         /\ Max(T) \in T /\ \A y \in T : y <= Max(T)
<1>1. \E x \in T : \A y \in T : x <= y
  BY LeastExists
<1>2. Min(T) \in T /\ \A y \in T : Min(T) <= y
  BY <1>1 DEF Min
<1>3. \E x \in T : \A y \in T : x >= y
  <2> DEFINE U == {n - x : x \in T}
  <2>1. U \in SUBSET Nat /\ U # {}
    <3>1. \A x \in T : n - x \in Nat
      OBVIOUS
    <3>2. QED
      BY <3>1
  <2>2. PICK u \in U : \A v \in U : u <= v
    BY <2>1, LeastExists
  <2>3. PICK x \in T : u = n - x
    BY <2>2
  <2>4. \A y \in T : n - x <= n - y
    BY <2>2, <2>3
  <2>5. QED
    BY <2>4
<1>4. Max(T) \in T /\ \A y \in T : Max(T) >= y
  BY <1>3 DEF Max
<1>5. QED
  BY <1>2, <1>4

\* A line whose dependencies are in use is a barrier.
GoodLine == {l \in Line : l.has => l.barrier}

\* What PBuff::access finds is the last line of the block, and there is no
\* barrier from there to the end.
LEMMA AccessFound ==
  ASSUME NEW S, NEW t \in Seq(S), NEW b
  PROVE  /\ access(t, b) \in 0..Len(t)
         /\ access(t, b) > 0 =>
              /\ t[access(t, b)].tag = b
              /\ \A i \in access(t, b)..Len(t) : ~t[i].barrier
              /\ \A i \in 1..Len(t) : access(t, b) < i => t[i].tag # b
<1> DEFINE hits == {i \in 1..Len(t) : t[i].tag = b}
           found == ~(hits = {} \/ \E i \in Min(hits)..Len(t) : t[i].barrier)
<1>1. access(t, b) = IF found THEN Max(hits) ELSE 0
  BY DEF access
<1>2. Len(t) \in Nat
  BY LenProperties
<1>3. CASE ~found
  BY <1>1, <1>2, <1>3
<1>4. CASE found
  <2>1. hits \in SUBSET (0..Len(t)) /\ hits # {}
    BY <1>2, <1>4
  <2>2. /\ Min(hits) \in hits /\ \A y \in hits : Min(hits) <= y
        /\ Max(hits) \in hits /\ \A y \in hits : y <= Max(hits)
    BY <1>2, <2>1, MinMax
  <2>3. \A i \in Min(hits)..Len(t) : ~t[i].barrier
    BY <1>4
  <2> DEFINE h == Max(hits)
             m == Min(hits)
  <2>4. m \in 1..Len(t) /\ h \in 1..Len(t) /\ m <= h /\ t[h].tag = b
    BY <2>2
  <2>5. \A i \in 1..Len(t) : h < i => t[i].tag # b
    BY <1>2, <2>2, <2>4
  <2>6. access(t, b) = h
    BY <1>1, <1>4
  <2> HIDE DEF h, m, hits
  <2>7. \A i \in h..Len(t) : ~t[i].barrier
    BY <1>2, <2>3, <2>4 DEF h, m
  <2>8. QED
    BY <1>2, <2>4, <2>5, <2>6, <2>7
<1>5. QED
  BY <1>3, <1>4
----------------------------------------------------------------------------
(***************************************************************************)
(* The invariant of one core: t its lines in order, w the number of its    *)
(* writes, A the writes after which it acquired, and has whether the last  *)
(* acquire still waits for a write.                                        *)
(***************************************************************************)
Dated(t, w) == \A i \in 1..Len(t) : t[i].first <= t[i].last /\ t[i].last <= w

Split(t) ==
  \A i, j \in 1..Len(t) : i < j /\ (t[i].barrier \/ t[j].barrier) => t[i].last < t[j].first

Newest(t) ==
  \A i, j \in 1..Len(t) : i < j /\ t[i].tag = t[j].tag => t[i].last < t[j].first

Apart(t, A) == \A i \in 1..Len(t) : \A m \in A : ~(t[i].first <= m /\ m < t[i].last)

\* Every acquire has a barrier made by the next write, or waits for it.
Marked(t, w, A, has) ==
  \A m \in A : \/ m = w /\ has
               \/ \E j \in 1..Len(t) : t[j].barrier /\ t[j].first = m + 1

Good(t, w, A, has) ==
  /\ t \in Seq(GoodLine) /\ w \in Nat /\ A \in SUBSET (0..w)
  /\ Dated(t, w) /\ Split(t) /\ Newest(t) /\ Apart(t, A) /\ Marked(t, w, A, has)

\* The numbers of a line.
LEMMA LineType ==
  ASSUME NEW t \in Seq(GoodLine)
  PROVE  /\ Len(t) \in Nat
         /\ \A i \in 1..Len(t) : /\ t[i] \in GoodLine /\ t[i].first \in Nat /\ t[i].last \in Nat
                                 /\ t[i].tag \in Block /\ t[i].barrier \in BOOLEAN
<1>1. Len(t) \in Nat /\ \A i \in 1..Len(t) : t[i] \in GoodLine
  BY LenProperties, ElementOfSeq
<1>2. QED
  BY <1>1 DEF GoodLine, Line

\* An acquire after the last write.
LEMMA GoodAcquire ==
  ASSUME NEW t, NEW w, NEW A, NEW has \in BOOLEAN, NEW now \in BOOLEAN, Good(t, w, A, has),
         has => now, NEW B, \A m \in B : m \in A \/ (m = w /\ now)
  PROVE  Good(t, w, B, now)
<1>1. \A i \in 1..Len(t) : t[i].last <= w /\ t[i].last \in Nat /\ t[i].first \in Nat
  BY LineType DEF Good, Dated
<1>2. w \in Nat /\ \A m \in A : m \in 0..w
  BY DEF Good
<1>3. Apart(t, B)
  <2>1. SUFFICES ASSUME NEW i \in 1..Len(t), NEW m \in B
                 PROVE  ~(t[i].first <= m /\ m < t[i].last)
    BY DEF Apart
  <2>2. CASE m \in A
    BY <2>2 DEF Good, Apart
  <2>3. CASE m = w
    BY <1>1, <1>2, <2>3
  <2>4. QED
    BY <2>2, <2>3
<1>4. Marked(t, w, B, now)
  BY <1>2 DEF Good, Marked
<1>5. B \in SUBSET (0..w)
  BY <1>2
<1>6. QED
  BY <1>3, <1>4, <1>5 DEF Good

\* A write gets a line of its own, which is a barrier after an acquire.
LEMMA GoodNew ==
  ASSUME NEW t, NEW w, NEW A, NEW has \in BOOLEAN, Good(t, w, A, has),
         NEW l \in GoodLine, l.first = w + 1, l.last = w + 1, has => l.barrier
  PROVE  Good(Append(t, l), w + 1, A, FALSE)
<1> DEFINE u == Append(t, l)
           n == Len(t)
<1>1. n \in Nat /\ w \in Nat /\ A \in SUBSET (0..w) /\ t \in Seq(GoodLine)
  BY LineType DEF Good
<1>2. u \in Seq(GoodLine) /\ Len(u) = n + 1
  BY <1>1, AppendProperties
<1>3. (\A i \in 1..n : u[i] = t[i]) /\ u[n + 1] = l
  BY <1>1, AppendProperties
<1>4. \A i \in 1..n : /\ t[i].first \in Nat /\ t[i].last \in Nat
                      /\ t[i].first <= t[i].last /\ t[i].last <= w
  BY LineType DEF Good, Dated
<1> HIDE DEF u
<1>5. \A i \in 1..Len(u) : i \in 1..n \/ i = n + 1
  BY <1>1, <1>2
<1>6. Dated(u, w + 1)
  BY <1>1, <1>3, <1>4, <1>5 DEF Dated
<1>7. \A i, j \in 1..Len(u) : i < j =>
        i \in 1..n /\ (j \in 1..n \/ (j = n + 1 /\ u[i].last < u[j].first))
  <2>1. SUFFICES ASSUME NEW i \in 1..Len(u), NEW j \in 1..Len(u), i < j
                 PROVE  i \in 1..n /\ (j \in 1..n \/ (j = n + 1 /\ u[i].last < u[j].first))
    OBVIOUS
  <2>2. i \in 1..n
    BY <1>1, <1>2, <2>1
  <2>3. t[i].last < w + 1
    BY <1>1, <1>4, <2>2
  <2>4. QED
    BY <1>3, <1>5, <2>2, <2>3
<1>8. Split(u)
  BY <1>3, <1>7 DEF Good, Split
<1>9. Newest(u)
  BY <1>3, <1>7 DEF Good, Newest
<1>10. Apart(u, A)
  BY <1>1, <1>3, <1>4, <1>5 DEF Good, Apart
<1>11. Marked(u, w + 1, A, FALSE)
  <2>1. SUFFICES ASSUME NEW m \in A
                 PROVE  \E j \in 1..Len(u) : u[j].barrier /\ u[j].first = m + 1
    BY DEF Marked
  <2>2. CASE m = w /\ has
    BY <1>1, <1>2, <1>3, <2>2
  <2>3. CASE \E j \in 1..n : t[j].barrier /\ t[j].first = m + 1
    BY <1>1, <1>2, <1>3, <2>3
  <2>4. QED
    BY <2>2, <2>3 DEF Good, Marked
<1>12. A \in SUBSET (0..w + 1) /\ w + 1 \in Nat
  BY <1>1
<1>13. Good(u, w + 1, A, FALSE)
  BY <1>1, <1>2, <1>6, <1>8, <1>9, <1>10, <1>11, <1>12, Zenon DEF Good
<1>14. QED
  BY <1>13 DEF u

\* A line takes in a later write.
LEMMA LaterLine ==
  ASSUME NEW l \in GoodLine, NEW w \in Nat
  PROVE  /\ [l EXCEPT !.last = w] \in GoodLine
         /\ [l EXCEPT !.last = w].last = w
         /\ [l EXCEPT !.last = w].first = l.first
         /\ [l EXCEPT !.last = w].barrier = l.barrier
         /\ [l EXCEPT !.last = w].tag = l.tag
<1> DEFINE k == [l EXCEPT !.last = w]
<1>1. /\ l = [tag |-> l.tag, barrier |-> l.barrier, has |-> l.has, on |-> l.on,
              first |-> l.first, last |-> l.last]
      /\ l.tag \in Block /\ l.barrier \in BOOLEAN /\ l.has \in BOOLEAN /\ l.on \in SUBSET Dep
      /\ l.first \in Nat /\ (l.has => l.barrier)
  BY DEF GoodLine, Line
<1>2. k = [tag |-> l.tag, barrier |-> l.barrier, has |-> l.has, on |-> l.on,
           first |-> l.first, last |-> w]
  BY <1>1
<1>3. k \in Line
  BY <1>1, <1>2, Zenon DEF Line
<1>4. QED
  BY <1>1, <1>2, <1>3 DEF GoodLine

\* A write joins the last line of its block, behind which there is no barrier.
LEMMA GoodJoin ==
  ASSUME NEW t, NEW w, NEW A, Good(t, w, A, FALSE), NEW h \in 1..Len(t),
         \A i \in h..Len(t) : ~t[i].barrier,
         \A i \in 1..Len(t) : h < i => t[i].tag # t[h].tag
  PROVE  Good([t EXCEPT ![h].last = w + 1], w + 1, A, FALSE)
<1> DEFINE l == [t[h] EXCEPT !.last = w + 1]
           u == [t EXCEPT ![h] = l]
<1>1. Len(t) \in Nat /\ w \in Nat /\ A \in SUBSET (0..w) /\ t \in Seq(GoodLine)
  BY LineType DEF Good
<1>2. /\ l \in GoodLine /\ l.last = w + 1
      /\ l.first = t[h].first /\ l.barrier = t[h].barrier /\ l.tag = t[h].tag
  <2>1. t[h] \in GoodLine
    BY <1>1, LineType
  <2>2. w + 1 \in Nat
    BY <1>1
  <2>3. QED
    BY <2>1, <2>2, LaterLine
<1> HIDE DEF l
<1>3. /\ u \in Seq(GoodLine) /\ Len(u) = Len(t)
      /\ \A i \in 1..Len(t) : u[i] = IF i = h THEN l ELSE t[i]
  BY <1>1, <1>2, ExceptSeq
<1> HIDE DEF u
<1>4. \A i \in 1..Len(t) : /\ t[i].first \in Nat /\ t[i].last \in Nat
                           /\ t[i].first <= t[i].last /\ t[i].last <= w
  BY LineType DEF Good, Dated
<1>5. Dated(u, w + 1)
  BY <1>1, <1>2, <1>3, <1>4 DEF Dated
<1>6. ~t[h].barrier /\ \A i \in 1..Len(t) : h < i => ~t[i].barrier
  BY <1>1
<1>7. Split(u)
  <2>1. SUFFICES ASSUME NEW i \in 1..Len(t), NEW j \in 1..Len(t), i < j,
                        u[i].barrier \/ u[j].barrier
                 PROVE  u[i].last < u[j].first
    BY <1>3 DEF Split
  <2>2. i # h
    BY <1>2, <1>3, <1>6, <2>1
  <2>3. t[i].barrier \/ t[j].barrier
    BY <1>2, <1>3, <2>1
  <2>4. t[i].last < t[j].first
    BY <2>1, <2>3 DEF Good, Split
  <2>5. QED
    BY <1>2, <1>3, <2>2, <2>4
<1>8. Newest(u)
  <2>1. SUFFICES ASSUME NEW i \in 1..Len(t), NEW j \in 1..Len(t), i < j, u[i].tag = u[j].tag
                 PROVE  u[i].last < u[j].first
    BY <1>3 DEF Newest
  <2>2. t[i].tag = t[j].tag
    BY <1>2, <1>3, <2>1
  <2>3. i # h
    BY <2>1, <2>2
  <2>4. t[i].last < t[j].first
    BY <2>1, <2>2 DEF Good, Newest
  <2>5. QED
    BY <1>2, <1>3, <2>3, <2>4
<1>9. \A m \in A : \E j \in 1..Len(t) : j # h /\ t[j].barrier /\ t[j].first = m + 1
  BY <1>6 DEF Good, Marked
<1>10. Apart(u, A)
  <2>1. SUFFICES ASSUME NEW i \in 1..Len(t), NEW m \in A
                 PROVE  ~(u[i].first <= m /\ m < u[i].last)
    BY <1>3 DEF Apart
  <2>2. CASE i # h
    BY <1>3, <2>2 DEF Good, Apart
  <2>3. CASE i = h
    <3>1. PICK j \in 1..Len(t) : j # h /\ t[j].barrier /\ t[j].first = m + 1
      BY <1>9
    <3>2. j < h
      BY <1>1, <1>6, <3>1
    <3>3. t[j].last < t[h].first
      BY <3>1, <3>2 DEF Good, Split
    <3>4. m < t[h].first
      BY <1>1, <1>4, <3>1, <3>3
    <3>5. QED
      BY <1>1, <1>2, <1>3, <1>4, <2>3, <3>4
  <2>4. QED
    BY <2>2, <2>3
<1>11. Marked(u, w + 1, A, FALSE)
  BY <1>3, <1>9 DEF Marked
<1>12. A \in SUBSET (0..w + 1) /\ w + 1 \in Nat
  BY <1>1
<1>13. Good(u, w + 1, A, FALSE)
  BY <1>1, <1>3, <1>5, <1>7, <1>8, <1>10, <1>11, <1>12, Zenon DEF Good
<1>14. QED
  BY <1>13 DEF u, l
----------------------------------------------------------------------------
(***************************************************************************)
(* The invariant.                                                          *)
(***************************************************************************)
Entry ==
  {e \in [state : {"I", "X", "S"}, sharers : SUBSET Core, owned : BOOLEAN,
          owner : Core \cup {None}, sync : BOOLEAN] : e.state = "X" => e.sharers # {}}

Deps == [has : BOOLEAN, on : SUBSET Dep]

Types ==
  /\ dir \in [Block -> Entry] /\ acc \in [Core -> Deps]
  /\ buf \in [Core -> Seq(GoodLine)] /\ entered \in [Core -> Seq(GoodLine)]
  /\ writes \in [Core -> Nat] /\ acquired \in [Core -> SUBSET Nat]
  /\ \A c \in Core : Len(buf[c]) <= BufferSize

IInv == Types /\ \A c \in Core : Good(Order(c), writes[c], acquired[c], acc[c].has)

LEMMA NewLineGood ==
  ASSUME NEW b \in Block, NEW y \in BOOLEAN, NEW h \in BOOLEAN, h => y,
         NEW o \in SUBSET Dep, NEW m \in Nat, NEW n \in Nat
  PROVE  [tag |-> b, barrier |-> y, has |-> h, on |-> o, first |-> m, last |-> n] \in GoodLine
BY DEF GoodLine, Line

LEMMA NewEntry ==
  ASSUME NEW st \in {"I", "X", "S"}, NEW S \in SUBSET Core, NEW n \in BOOLEAN,
         NEW o \in Core \cup {None}, NEW y \in BOOLEAN, st = "X" => S # {}
  PROVE  [state |-> st, sharers |-> S, owned |-> n, owner |-> o, sync |-> y] \in Entry
BY DEF Entry

LEMMA EntryType ==
  ASSUME NEW d \in Entry
  PROVE  /\ d = [state |-> d.state, sharers |-> d.sharers, owned |-> d.owned,
                 owner |-> d.owner, sync |-> d.sync]
         /\ d.state \in {"I", "X", "S"} /\ d.sharers \in SUBSET Core /\ d.owned \in BOOLEAN
         /\ d.owner \in Core \cup {None} /\ d.sync \in BOOLEAN
         /\ (d.state = "X" => d.sharers # {})
BY DEF Entry

\* The assignments of accessSharedCache and its callees to an entry.
LEMMA ToGood ==
  ASSUME NEW d \in Entry, NEW c \in Core, NEW op
  PROVE  To(d, c, op) \in Entry /\ To(d, c, op).owner = d.owner
<1> DEFINE Rec(t, T) == [state |-> t, sharers |-> T, owned |-> d.owned,
                         owner |-> d.owner, sync |-> d.sync]
           st == IF op = "WR" \/ d.state = "I" THEN "X" ELSE "S"
           S == IF op = "WR" THEN {c} ELSE d.sharers \cup {c}
<1>1. /\ d = Rec(d.state, d.sharers)
      /\ d.sharers \in SUBSET Core /\ d.owned \in BOOLEAN
      /\ d.owner \in Core \cup {None} /\ d.sync \in BOOLEAN
  BY EntryType
<1>2. S \in SUBSET Core /\ S # {} /\ st \in {"I", "X", "S"}
  BY <1>1
<1>3. To(d, c, op) = Rec(st, S)
  <2>1. [d EXCEPT !.state = IF op = "WR" \/ @ = "I" THEN "X" ELSE "S"] = Rec(st, d.sharers)
    BY <1>1
  <2>2. [Rec(st, d.sharers) EXCEPT !.sharers = IF op = "WR" THEN {c} ELSE @ \cup {c}] = Rec(st, S)
    OBVIOUS
  <2>3. QED
    BY <2>1, <2>2, Zenon DEF To
<1> HIDE DEF S, st
<1>4. Rec(st, S) \in Entry
  BY <1>1, <1>2, NewEntry
<1>5. QED
  BY <1>3, <1>4

LEMMA OwnedGood ==
  ASSUME NEW d \in Entry, NEW n \in BOOLEAN
  PROVE  [d EXCEPT !.owned = n] \in Entry /\ [d EXCEPT !.owned = n].owner = d.owner
<1>1. /\ d = [state |-> d.state, sharers |-> d.sharers, owned |-> d.owned,
              owner |-> d.owner, sync |-> d.sync]
      /\ d.state \in {"I", "X", "S"} /\ d.sharers \in SUBSET Core
      /\ d.owner \in Core \cup {None} /\ d.sync \in BOOLEAN
      /\ (d.state = "X" => d.sharers # {})
  BY EntryType
<1>2. [d EXCEPT !.owned = n] = [state |-> d.state, sharers |-> d.sharers, owned |-> n,
                                owner |-> d.owner, sync |-> d.sync]
  BY <1>1
<1>3. QED
  BY <1>1, <1>2, NewEntry

LEMMA OwnerGood ==
  ASSUME NEW d \in Entry, NEW o \in Core, NEW y \in BOOLEAN
  PROVE  Owned(d, o, y) \in Entry /\ Owned(d, o, y).owner = o
<1> DEFINE Rec(n, p, z) == [state |-> d.state, sharers |-> d.sharers, owned |-> n,
                            owner |-> p, sync |-> z]
           yes == TRUE
<1>1. /\ d = Rec(d.owned, d.owner, d.sync)
      /\ d.state \in {"I", "X", "S"} /\ d.sharers \in SUBSET Core
      /\ (d.state = "X" => d.sharers # {})
  BY EntryType
<1>2. yes \in BOOLEAN
  OBVIOUS
<1> HIDE DEF yes
<1>3. Owned(d, o, y) = Rec(yes, o, y)
  <2>1. [d EXCEPT !.owned = yes] = Rec(yes, d.owner, d.sync)
    BY <1>1
  <2>2. [Rec(yes, d.owner, d.sync) EXCEPT !.owner = o] = Rec(yes, o, d.sync)
    OBVIOUS
  <2>3. [Rec(yes, o, d.sync) EXCEPT !.sync = y] = Rec(yes, o, y)
    OBVIOUS
  <2>4. QED
    BY <2>1, <2>2, <2>3, Zenon DEF Owned, yes
<1>4. QED
  BY <1>1, <1>2, <1>3, NewEntry

\* share and inval: the owner gives its name only if it still has the block.
LEMMA RecalledGood ==
  ASSUME NEW d \in Entry, NEW o \in Core, NEW b
  PROVE  Recalled(d, o, b) \in Entry /\ (Keeps(o, b) => Recalled(d, o, b).owner = o)
<1>1. [d EXCEPT !.owned = TRUE] \in Entry
  BY OwnedGood
<1> DEFINE y == level0[o][b] = "sync"
<1>2. y \in BOOLEAN
  OBVIOUS
<1> HIDE DEF y
<1>3. Owned(d, o, y) \in Entry /\ Owned(d, o, y).owner = o
  BY <1>2, OwnerGood
<1>4. Recalled(d, o, b) = IF Keeps(o, b) THEN Owned(d, o, y) ELSE [d EXCEPT !.owned = TRUE]
  BY DEF Recalled, y
<1>5. QED
  BY <1>1, <1>3, <1>4

\* What is known of the owner of a shared block names a core.
LEMMA KnownGood ==
  ASSUME NEW d \in Entry, NEW e \in Known(d)
  PROVE  e \in Entry /\ (d.owned => e.owner \in Core)
<1>1. CASE d.owned /\ d.owner = None
  <2>1. \E i \in Core : \E y \in BOOLEAN : e = Owned(d, i, y)
    BY <1>1 DEF Known
  <2>2. PICK i \in Core : \E y \in BOOLEAN : e = Owned(d, i, y)
    BY <2>1
  <2>3. PICK y \in BOOLEAN : e = Owned(d, i, y)
    BY <2>2
  <2>4. QED
    BY <2>3, OwnerGood
<1>2. CASE ~(d.owned /\ d.owner = None)
  <2>1. e = d
    BY <1>2 DEF Known
  <2>2. QED
    BY <1>2, <2>1, EntryType
<1>3. QED
  BY <1>1, <1>2

\* What the directory answers: a dependency always names a core.
LEMMA AnswerGood ==
  ASSUME NEW c \in Core, NEW b \in Block, NEW op \in Op, dir[b] \in Entry,
         NEW r \in accessSharedCache(c, b, op)
  PROVE  r.entry \in Entry /\ (r.dep => r.entry.owner \in Core)
<1>1. /\ dir[b].state \in {"I", "X", "S"} /\ dir[b].sharers \in SUBSET Core
      /\ (dir[b].state = "X" => dir[b].sharers # {})
  BY EntryType
<1>2. CASE dir[b].state = "I"
  <2>1. PICK n \in BOOLEAN : r = [entry |-> [To(dir[b], c, op) EXCEPT !.owned = n], dep |-> FALSE]
    BY <1>2 DEF accessSharedCache
  <2>2. To(dir[b], c, op) \in Entry
    BY ToGood
  <2>3. [To(dir[b], c, op) EXCEPT !.owned = n] \in Entry
    BY <2>2, OwnedGood
  <2>4. QED
    BY <2>1, <2>3
<1>3. CASE dir[b].state = "X"
  <2>1. PICK o \in Core : r = [entry |-> To(Recalled(dir[b], o, b), c, op), dep |-> Keeps(o, b)]
    BY <1>1, <1>3 DEF accessSharedCache
  <2>2. Recalled(dir[b], o, b) \in Entry /\ (Keeps(o, b) => Recalled(dir[b], o, b).owner = o)
    BY RecalledGood
  <2>3. /\ To(Recalled(dir[b], o, b), c, op) \in Entry
        /\ To(Recalled(dir[b], o, b), c, op).owner = Recalled(dir[b], o, b).owner
    BY <2>2, ToGood
  <2>4. QED
    BY <2>1, <2>2, <2>3
<1>4. CASE dir[b].state = "S"
  <2>1. PICK e \in Known(dir[b]) : r = [entry |-> To(e, c, op), dep |-> dir[b].owned]
    BY <1>4 DEF accessSharedCache
  <2>2. e \in Entry /\ (dir[b].owned => e.owner \in Core)
    BY KnownGood
  <2>3. To(e, c, op) \in Entry /\ To(e, c, op).owner = e.owner
    BY <2>2, ToGood
  <2>4. QED
    BY <2>1, <2>2, <2>3
<1>5. QED
  BY <1>1, <1>2, <1>3, <1>4

\* The newest write of a core to a block is a number.
LEMMA LastWriteType ==
  ASSUME NEW o \in Core, NEW b \in Block, NEW w, NEW A, NEW has, Good(Order(o), w, A, has)
  PROVE  LastWrite(o, b) \in Nat
<1> DEFINE t == Order(o)
           T == {0} \cup {l.last : l \in {m \in ToSet(t) : m.tag = b}}
<1>1. w \in Nat /\ t \in Seq(GoodLine)
  BY DEF Good
<1>2. \A i \in DOMAIN t : t[i].last \in 0..w
  <2>1. DOMAIN t = 1..Len(t)
    BY <1>1, LenProperties
  <2>2. QED
    BY <1>1, <2>1, LineType DEF Good, Dated
<1>3. \A l \in ToSet(t) : l.last \in 0..w
  BY <1>2 DEF ToSet
<1>4. T \in SUBSET (0..w) /\ T # {}
  BY <1>1, <1>3
<1>5. Max(T) \in T
  BY <1>1, <1>4, MinMax
<1>6. QED
  BY <1>1, <1>4, <1>5 DEF LastWrite

\* What a core depends on stays known until its next line.
LEMMA DepsGood ==
  ASSUME IInv, NEW c \in Core, NEW b \in Block, NEW r, r.dep => r.entry.owner \in Core
  PROVE  DepsAfter(c, b, r) \in Deps /\ (acc[c].has => DepsAfter(c, b, r).has)
<1>1. acc[c] \in Deps
  BY DEF IInv, Types
<1>2. CASE r.dep /\ r.entry.sync
  <2> DEFINE o == r.entry.owner
             on == {d \in acc[c].on : d.core # o}
                   \cup IF o = c THEN {} ELSE {[core |-> o, tag |-> b, write |-> LastWrite(o, b)]}
  <2>1. DepsAfter(c, b, r) = [has |-> TRUE, on |-> on]
    BY <1>2 DEF DepsAfter
  <2>2. o \in Core
    BY <1>2
  <2> HIDE DEF o
  <2>3. LastWrite(o, b) \in Nat
    BY <2>2, LastWriteType DEF IInv
  <2>4. on \in SUBSET Dep
    BY <1>1, <2>2, <2>3 DEF Deps, Dep
  <2> HIDE DEF on
  <2>5. QED
    BY <2>1, <2>4 DEF Deps
<1>3. CASE ~(r.dep /\ r.entry.sync)
  <2>1. DepsAfter(c, b, r) = acc[c]
    BY <1>3 DEF DepsAfter
  <2>2. QED
    BY <1>1, <2>1
<1>4. QED
  BY <1>2, <1>3

\* No flush takes more lines out of a buffer than it holds, and a line that
\* enters a full buffer finds room.
LEMMA FlushedGood ==
  ASSUME Types, NEW line, NEW i \in Core
  PROVE  \A k \in Flushed(line, i) : k \in 0..Len(buf[i])
<1>1. buf[i] \in Seq(GoodLine)
  BY DEF Types
<1>2. Len(buf[i]) \in Nat /\ \A b : access(buf[i], b) \in 0..Len(buf[i])
  BY <1>1, LenProperties, AccessFound
<1> DEFINE known == {d.tag : d \in {x \in line.on : x.core = i}}
<1>3. \A k \in Flushed(line, i) : k = 0 \/ \E b : k = access(buf[i], b)
  <2>1. CASE known # {}
    <3>1. Flushed(line, i) = {access(buf[i], b) : b \in known}
      BY <2>1 DEF Flushed
    <3> HIDE DEF known
    <3>2. QED
      BY <3>1
  <2>2. CASE known = {}
    <3>1. Flushed(line, i) = {0} \cup {access(buf[i], b) : b \in Block}
      BY <2>2 DEF Flushed
    <3>2. QED
      BY <3>1
  <2>3. QED
    BY <2>1, <2>2
<1>4. QED
  BY <1>2, <1>3

LEMMA LeavingGood ==
  ASSUME Types, NEW c \in Core, NEW n \in Leaving(c)
  PROVE  /\ \A i \in Core : n[i] \in 0..Len(buf[i])
         /\ Len(buf[c]) - n[c] < BufferSize
<1>1. BufferSize \in Nat \ {0} /\ \A i \in Core : Len(buf[i]) \in Nat
  BY PersistBufferAssumption, LenProperties DEF Types
<1>2. Len(buf[c]) <= BufferSize
  BY DEF Types
<1>3. CASE Len(buf[c]) < BufferSize
  <2>1. n = [i \in Core |-> 0]
    BY <1>3 DEF Leaving
  <2>2. QED
    BY <1>1, <1>3, <2>1
<1>4. CASE ~(Len(buf[c]) < BufferSize)
  <2> DEFINE head == Head(buf[c])
  <2>1. \A i \in Core : n[i] \in IF i = c THEN {1} ELSE IF head.has THEN Flushed(head, i) ELSE {0}
    BY <1>4 DEF Leaving
  <2> HIDE DEF head
  <2>2. n[c] = 1
    BY <2>1
  <2>3. SUFFICES ASSUME NEW i \in Core, i # c PROVE n[i] \in 0..Len(buf[i])
    BY <1>1, <1>2, <1>4, <2>2
  <2>4. n[i] \in Flushed(head, i) \/ n[i] = 0
    BY <2>1, <2>3
  <2>5. QED
    BY <1>1, <2>4, FlushedGood
<1>5. QED
  BY <1>3, <1>4
----------------------------------------------------------------------------
(***************************************************************************)
(* The lines of a core, seen in its buffer and in what left it.            *)
(***************************************************************************)
LEMMA SplitAt ==
  ASSUME NEW S, NEW t \in Seq(S), NEW k \in 0..Len(t)
  PROVE  /\ SubSeq(t, 1, k) \in Seq(S) /\ SubSeq(t, k + 1, Len(t)) \in Seq(S)
         /\ Len(SubSeq(t, k + 1, Len(t))) = Len(t) - k
         /\ SubSeq(t, 1, k) \o SubSeq(t, k + 1, Len(t)) = t
<1>1. Len(t) \in Nat /\ \A i \in 1..Len(t) : t[i] \in S
  BY LenProperties, ElementOfSeq
<1>2. SubSeq(t, 1, k) \in Seq(S)
  <2>1. \A i \in 1..k : t[i] \in S
    BY <1>1
  <2>2. k \in Int /\ 1 \in Int
    BY <1>1
  <2>3. QED
    BY <2>1, <2>2, SubSeqProperties
<1>3. SubSeq(t, k + 1, Len(t)) \in Seq(S) /\ Len(SubSeq(t, k + 1, Len(t))) = Len(t) - k
  <2> DEFINE m == k + 1
  <2>1. \A i \in m..Len(t) : t[i] \in S
    BY <1>1
  <2>2. m \in Int /\ Len(t) \in Int
    BY <1>1
  <2>3. (IF m <= Len(t) THEN Len(t) - m + 1 ELSE 0) = Len(t) - k
    BY <1>1
  <2> HIDE DEF m
  <2>4. SubSeq(t, m, Len(t)) \in Seq(S)
        /\ Len(SubSeq(t, m, Len(t))) = IF m <= Len(t) THEN Len(t) - m + 1 ELSE 0
    BY <2>1, <2>2, SubSeqProperties
  <2>5. QED
    BY <2>3, <2>4 DEF m
<1>4. SubSeq(t, 1, k) \o SubSeq(t, k + 1, Len(t)) = SubSeq(t, 1, Len(t))
  <2>1. 1 \in 1..Len(t) + 1 /\ k \in 1 - 1..Len(t) /\ Len(t) \in k..Len(t)
    BY <1>1
  <2>2. QED
    BY <2>1, ConcatAdjacentSubSeq
<1>5. QED
  BY <1>2, <1>3, <1>4, SubSeqFull

\* Concatenation of lines, as a name that the provers do not look into.
Cat(s, t) == s \o t

LEMMA CatType ==
  ASSUME NEW s \in Seq(GoodLine), NEW t \in Seq(GoodLine)
  PROVE  Cat(s, t) \in Seq(GoodLine) /\ Len(Cat(s, t)) = Len(s) + Len(t)
BY ConcatProperties DEF Cat

LEMMA CatAssociative ==
  ASSUME NEW s \in Seq(GoodLine), NEW t \in Seq(GoodLine), NEW u \in Seq(GoodLine)
  PROVE  Cat(Cat(s, t), u) = Cat(s, Cat(t, u))
BY ConcatAssociative DEF Cat

\* Lines that leave the buffer stay where they are in the order, and what
\* enters it comes last.
LEMMA MoveFront ==
  ASSUME NEW e \in Seq(GoodLine), NEW t \in Seq(GoodLine), NEW k \in 0..Len(t),
         NEW y \in Seq(GoodLine)
  PROVE  LET u == SubSeq(t, 1, k)
             v == SubSeq(t, k + 1, Len(t)) IN
         /\ Cat(e, u) \in Seq(GoodLine) /\ Cat(v, y) \in Seq(GoodLine)
         /\ Len(Cat(v, y)) = Len(t) - k + Len(y)
         /\ Cat(Cat(e, u), Cat(v, y)) = Cat(Cat(e, t), y)
<1> DEFINE u == SubSeq(t, 1, k)
           v == SubSeq(t, k + 1, Len(t))
<1>1. u \in Seq(GoodLine) /\ v \in Seq(GoodLine)
  BY SplitAt
<1>2. Cat(u, v) = t /\ Len(v) = Len(t) - k
  BY SplitAt DEF Cat
<1> HIDE DEF u, v
<1>3. Cat(e, u) \in Seq(GoodLine) /\ Cat(v, y) \in Seq(GoodLine) /\ Len(Cat(v, y)) = Len(v) + Len(y)
  BY <1>1, CatType
<1>4. Cat(Cat(e, u), Cat(v, y)) = Cat(Cat(Cat(e, u), v), y)
  BY <1>1, <1>3, CatAssociative
<1>5. Cat(Cat(e, u), v) = Cat(e, Cat(u, v))
  BY <1>1, CatAssociative
<1>6. Cat(Cat(e, u), Cat(v, y)) = Cat(Cat(e, t), y)
  BY <1>2, <1>4, <1>5
<1>7. Len(Cat(v, y)) = Len(t) - k + Len(y)
  BY <1>2, <1>3
<1>8. QED
  BY <1>3, <1>6, <1>7 DEF u, v

LEMMA ExceptBehind ==
  ASSUME NEW S, NEW e \in Seq(S), NEW t \in Seq(S), NEW h \in 1..Len(t), NEW l \in S
  PROVE  /\ Len(e) + h \in 1..Len(e \o t) /\ (e \o t)[Len(e) + h] = t[h]
         /\ e \o [t EXCEPT ![h] = l] = [e \o t EXCEPT ![Len(e) + h] = l]
<1> DEFINE u == [t EXCEPT ![h] = l]
           x == e \o t
           k == Len(e) + h
           y == [x EXCEPT ![k] = l]
<1>1. Len(e) \in Nat /\ Len(t) \in Nat
  BY LenProperties
<1>2. /\ x \in Seq(S) /\ Len(x) = Len(e) + Len(t)
      /\ \A i \in 1..Len(e) + Len(t) : x[i] = IF i <= Len(e) THEN e[i] ELSE t[i - Len(e)]
  BY ConcatProperties
<1>3. u \in Seq(S) /\ Len(u) = Len(t) /\ \A i \in 1..Len(t) : u[i] = IF i = h THEN l ELSE t[i]
  BY ExceptSeq
<1> HIDE DEF u, x
<1>4. /\ e \o u \in Seq(S) /\ Len(e \o u) = Len(e) + Len(t)
      /\ \A i \in 1..Len(e) + Len(t) : (e \o u)[i] = IF i <= Len(e) THEN e[i] ELSE u[i - Len(e)]
  <2>1. /\ e \o u \in Seq(S) /\ Len(e \o u) = Len(e) + Len(u)
        /\ \A i \in 1..Len(e) + Len(u) : (e \o u)[i] = IF i <= Len(e) THEN e[i] ELSE u[i - Len(e)]
    BY <1>3, ConcatProperties
  <2>2. QED
    BY <1>3, <2>1
<1>5. k \in 1..Len(x) /\ x[k] = t[h]
  <2>1. k \in 1..Len(e) + Len(t) /\ ~(k <= Len(e)) /\ k - Len(e) = h
    BY <1>1
  <2>2. x[k] = t[k - Len(e)]
    BY <1>2, <2>1
  <2>3. QED
    BY <1>2, <2>1, <2>2
<1>6. y \in Seq(S) /\ Len(y) = Len(x) /\ \A i \in 1..Len(x) : y[i] = IF i = k THEN l ELSE x[i]
  BY <1>2, <1>5, ExceptSeq
<1> HIDE DEF y
<1>7. \A i \in 1..Len(e \o u) : (e \o u)[i] = y[i]
  <2>1. SUFFICES ASSUME NEW i \in 1..Len(e) + Len(t) PROVE (e \o u)[i] = y[i]
    BY <1>4
  <2> i \in Int /\ (i <= Len(e) \/ Len(e) < i)
    BY <1>1
  <2>2. CASE i <= Len(e)
    BY <1>1, <1>2, <1>4, <1>6, <2>2
  <2>3. CASE Len(e) < i
    <3> DEFINE m == i - Len(e)
    <3>1. m \in 1..Len(t) /\ (i = k <=> m = h) /\ ~(i <= Len(e))
      BY <1>1, <2>3
    <3>2. (e \o u)[i] = u[m] /\ x[i] = t[m]
      BY <1>2, <1>4, <3>1
    <3> HIDE DEF m, k
    <3>3. i \in 1..Len(x)
      BY <1>2
    <3>4. QED
      BY <1>3, <1>6, <3>1, <3>2, <3>3
  <2>4. QED
    BY <1>1, <2>2, <2>3
<1>8. e \o u = y
  BY <1>2, <1>4, <1>6, <1>7, SeqEqual
<1>9. QED
  BY <1>5, <1>8 DEF u, x, y

\* A line put in the place of another, as a name that the provers do not look
\* into.
Put(t, i, l) == [t EXCEPT ![i] = l]

LEMMA CatExcept ==
  ASSUME NEW e \in Seq(GoodLine), NEW t \in Seq(GoodLine), NEW h \in 1..Len(t),
         NEW l \in GoodLine
  PROVE  /\ Len(e) + h \in 1..Len(Cat(e, t)) /\ Cat(e, t)[Len(e) + h] = t[h]
         /\ Cat(e, Put(t, h, l)) = Put(Cat(e, t), Len(e) + h, l)
<1>1. Len(e) + h \in 1..Len(e \o t) /\ (e \o t)[Len(e) + h] = t[h]
  BY ExceptBehind
<1>2. e \o [t EXCEPT ![h] = l] = [e \o t EXCEPT ![Len(e) + h] = l]
  BY ExceptBehind
<1>3. QED
  BY <1>1, <1>2, Zenon DEF Cat, Put

\* A write that joins a line of the buffer, in the order.
LEMMA JoinBehind ==
  ASSUME NEW e \in Seq(GoodLine), NEW t \in Seq(GoodLine), NEW w, NEW A,
         Good(e \o t, w, A, FALSE), NEW h \in 1..Len(t),
         \A i \in h..Len(t) : ~t[i].barrier,
         \A i \in 1..Len(t) : h < i => t[i].tag # t[h].tag
  PROVE  Good(e \o [t EXCEPT ![h] = [t[h] EXCEPT !.last = w + 1]], w + 1, A, FALSE)
<1> DEFINE x == e \o t
           k == Len(e) + h
           l == [t[h] EXCEPT !.last = w + 1]
<1>1. Len(e) \in Nat /\ Len(t) \in Nat /\ k \in Nat /\ h \in Nat
  BY LenProperties
<1>2. l \in GoodLine
  <2>1. t[h] \in GoodLine /\ w + 1 \in Nat
    BY LineType DEF Good
  <2>2. QED
    BY <2>1, LaterLine
<1>3. k \in 1..Len(x) /\ x[k] = t[h] /\ e \o [t EXCEPT ![h] = l] = [x EXCEPT ![k] = l]
  <2> HIDE DEF l, x, k
  <2>1. Len(e) + h \in 1..Len(Cat(e, t)) /\ Cat(e, t)[Len(e) + h] = t[h]
    BY <1>2, CatExcept
  <2>2. Cat(e, Put(t, h, l)) = Put(Cat(e, t), Len(e) + h, l)
    BY <1>2, CatExcept
  <2>3. QED
    BY <2>1, <2>2, Zenon DEF Cat, Put, x, k
<1>4. Len(x) = Len(e) + Len(t)
  BY ConcatProperties
<1>5. \A i \in 1..Len(e) + Len(t) : x[i] = IF i <= Len(e) THEN e[i] ELSE t[i - Len(e)]
  BY ConcatProperties
<1> HIDE DEF x
<1>6. \A i \in 1..Len(x) : k <= i =>
        i - Len(e) \in h..Len(t) /\ (k < i => h < i - Len(e)) /\ x[i] = t[i - Len(e)]
  <2>1. SUFFICES ASSUME NEW i \in 1..Len(e) + Len(t), k <= i
                 PROVE  i - Len(e) \in h..Len(t) /\ (k < i => h < i - Len(e))
                        /\ x[i] = t[i - Len(e)]
    BY <1>4
  <2>2. ~(i <= Len(e))
    BY <1>1, <2>1
  <2>3. i - Len(e) \in h..Len(t) /\ (k < i => h < i - Len(e))
    BY <1>1, <2>1
  <2>4. QED
    BY <1>5, <2>2, <2>3
<1>7. Len(x) \in Nat
  BY <1>1, <1>4
<1> HIDE DEF k
<1>8. \A i \in k..Len(x) : ~x[i].barrier
  <2>1. \A i \in k..Len(x) : i \in 1..Len(x) /\ k <= i
    BY <1>1, <1>3, <1>7
  <2>2. QED
    BY <1>6, <2>1
<1>9. \A i \in 1..Len(x) : k < i => x[i].tag # x[k].tag
  <2>1. SUFFICES ASSUME NEW i \in 1..Len(x), k < i PROVE x[i].tag # x[k].tag
    OBVIOUS
  <2>2. k <= i
    BY <1>1, <1>7, <2>1
  <2>3. i - Len(e) \in h..Len(t) /\ h < i - Len(e) /\ x[i] = t[i - Len(e)]
    BY <1>6, <2>1, <2>2
  <2>4. i - Len(e) \in 1..Len(t)
    BY <1>1, <2>3
  <2>5. QED
    BY <1>3, <2>3, <2>4
<1>10. Good([x EXCEPT ![k].last = w + 1], w + 1, A, FALSE)
  BY <1>3, <1>8, <1>9, GoodJoin DEF x
<1>11. [x EXCEPT ![k].last = w + 1] = [x EXCEPT ![k] = l]
  BY <1>3
<1>12. QED
  BY <1>3, <1>10, <1>11
----------------------------------------------------------------------------
(***************************************************************************)
(* A write, for any acquires A noted before it.                            *)
(***************************************************************************)
\* A write joins a line of the buffer.
LEMMA JoinStep ==
  ASSUME Types, NEW c \in Core, NEW b \in Block, NEW A,
         Good(Order(c), writes[c], A, FALSE),
         NEW h, h = access(buf[c], b), h > 0,
         buf' = [buf EXCEPT ![c][h].last = writes[c] + 1], UNCHANGED entered
  PROVE  /\ buf' \in [Core -> Seq(GoodLine)] /\ entered' \in [Core -> Seq(GoodLine)]
         /\ \A i \in Core : Len(buf'[i]) = Len(buf[i])
         /\ \A i \in Core : i # c => Order(i)' = Order(i)
         /\ Good(Order(c)', writes[c] + 1, A, FALSE)
<1> DEFINE e == entered[c]
           t == buf[c]
           w == writes[c] + 1
           l == [t[h] EXCEPT !.last = w]
           u == [t EXCEPT ![h] = l]
<1>1. /\ e \in Seq(GoodLine) /\ t \in Seq(GoodLine) /\ Len(e) \in Nat /\ Len(t) \in Nat
      /\ w \in Nat
  BY LenProperties DEF Types
<1>2. h \in 1..Len(t)
  <2>1. access(t, b) \in 0..Len(t)
    BY <1>1, AccessFound
  <2>2. QED
    BY <1>1, <2>1
<1>3. /\ t[h].tag = b /\ \A i \in h..Len(t) : ~t[i].barrier
      /\ \A i \in 1..Len(t) : h < i => t[i].tag # b
  BY <1>1, AccessFound
<1>4. l \in GoodLine
  <2>1. t[h] \in GoodLine
    BY <1>1, <1>2, LineType
  <2>2. QED
    BY <1>1, <2>1, LaterLine
<1>5. u \in Seq(GoodLine) /\ Len(u) = Len(t)
  BY <1>1, <1>2, <1>4, ExceptSeq
<1>6. buf' = [buf EXCEPT ![c] = u]
  OBVIOUS
<1> HIDE DEF u
<1>7. /\ buf' \in [Core -> Seq(GoodLine)] /\ entered' \in [Core -> Seq(GoodLine)]
      /\ buf'[c] = u /\ \A i \in Core : i # c => buf'[i] = buf[i]
  BY <1>5, <1>6 DEF Types
<1>8. \A i \in Core : i # c => Order(i)' = Order(i)
  BY <1>7 DEF Order
<1>9. \A i \in Core : Len(buf'[i]) = Len(buf[i])
  BY <1>5, <1>7
<1>10. Good(Order(c)', w, A, FALSE)
  <2>1. Order(c)' = e \o u
    BY <1>7 DEF Order
  <2>2. Good(e \o t, writes[c], A, FALSE)
    BY DEF Order
  <2>3. \A i \in 1..Len(t) : h < i => t[i].tag # t[h].tag
    BY <1>3
  <2>4. Good(e \o u, w, A, FALSE)
    BY <1>1, <1>2, <1>3, <2>2, <2>3, JoinBehind DEF u
  <2>5. QED
    BY <2>1, <2>4
<1>11. QED
  BY <1>7, <1>8, <1>9, <1>10

\* What accessPersistBuffer does to the buffers when a line l enters.
Enters(c, l, n) ==
  /\ buf' = [i \in Core |-> SubSeq(buf[i], n[i] + 1, Len(buf[i]))
                            \o IF i = c THEN <<l>> ELSE <<>>]
  /\ entered' = [i \in Core |-> entered[i] \o SubSeq(buf[i], 1, n[i])]

\* A write gets a line of its own, for which others leave.
LEMMA NewStep ==
  ASSUME Types, NEW c \in Core, NEW A, NEW has \in BOOLEAN, Good(Order(c), writes[c], A, has),
         NEW l \in GoodLine, l.first = writes[c] + 1, l.last = writes[c] + 1, has => l.barrier,
         NEW n \in Leaving(c), Enters(c, l, n)
  PROVE  /\ buf' \in [Core -> Seq(GoodLine)] /\ entered' \in [Core -> Seq(GoodLine)]
         /\ \A i \in Core : Len(buf'[i]) <= BufferSize
         /\ \A i \in Core : i # c => Order(i)' = Order(i)
         /\ Good(Order(c)', writes[c] + 1, A, FALSE)
<1> DEFINE y(i) == IF i = c THEN <<l>> ELSE <<>>
           e(i) == Cat(entered[i], SubSeq(buf[i], 1, n[i]))
           t(i) == Cat(SubSeq(buf[i], n[i] + 1, Len(buf[i])), y(i))
<1>1. \A i \in Core : /\ buf[i] \in Seq(GoodLine) /\ entered[i] \in Seq(GoodLine)
                      /\ n[i] \in 0..Len(buf[i]) /\ y(i) \in Seq(GoodLine)
  BY LeavingGood, EmptySeq DEF Types
<1>2. Len(<<l>>) = 1 /\ Len(<<>>) = 0
  OBVIOUS
<1>3. \A i \in Core : /\ e(i) \in Seq(GoodLine) /\ t(i) \in Seq(GoodLine)
                      /\ Len(t(i)) = Len(buf[i]) - n[i] + Len(y(i))
                      /\ Cat(e(i), t(i)) = Cat(Cat(entered[i], buf[i]), y(i))
  <2> HIDE DEF y
  <2>1. SUFFICES ASSUME NEW i \in Core
                 PROVE  /\ e(i) \in Seq(GoodLine) /\ t(i) \in Seq(GoodLine)
                        /\ Len(t(i)) = Len(buf[i]) - n[i] + Len(y(i))
                        /\ Cat(e(i), t(i)) = Cat(Cat(entered[i], buf[i]), y(i))
    OBVIOUS
  <2> DEFINE f == entered[i]
             s == buf[i]
             k == n[i]
             z == y(i)
  <2>2. f \in Seq(GoodLine) /\ s \in Seq(GoodLine) /\ k \in 0..Len(s) /\ z \in Seq(GoodLine)
    BY <1>1
  <2> HIDE DEF f, s, k, z
  <2> DEFINE u == SubSeq(s, 1, k)
             v == SubSeq(s, k + 1, Len(s))
  <2>3. /\ Cat(f, u) \in Seq(GoodLine) /\ Cat(v, z) \in Seq(GoodLine)
        /\ Len(Cat(v, z)) = Len(s) - k + Len(z)
    BY <2>2, MoveFront
  <2>4. Cat(Cat(f, u), Cat(v, z)) = Cat(Cat(f, s), z)
    BY <2>2, MoveFront
  <2>5. QED
    BY <2>3, <2>4 DEF f, s, k, z
<1>4. buf' = [i \in Core |-> t(i)] /\ entered' = [i \in Core |-> e(i)]
  BY DEF Enters, Cat
<1>5. \A i \in Core : Len(t(i)) <= BufferSize
  <2>1. SUFFICES ASSUME NEW i \in Core PROVE Len(t(i)) <= BufferSize
    OBVIOUS
  <2>2. /\ Len(buf[i]) \in Nat /\ Len(buf[i]) <= BufferSize /\ BufferSize \in Nat
        /\ n[i] \in 0..Len(buf[i])
    BY <1>1, PersistBufferAssumption, LenProperties DEF Types
  <2>3. i = c => Len(buf[i]) - n[i] < BufferSize
    BY LeavingGood
  <2>4. Len(y(i)) = IF i = c THEN 1 ELSE 0
    BY <1>2
  <2>5. Len(t(i)) = Len(buf[i]) - n[i] + Len(y(i))
    BY <1>3
  <2>6. Len(t(i)) = Len(buf[i]) - n[i] + IF i = c THEN 1 ELSE 0
    BY <2>4, <2>5
  <2> HIDE DEF t, y
  <2>7. CASE i = c
    BY <2>2, <2>3, <2>6, <2>7
  <2>8. CASE i # c
    BY <2>2, <2>6, <2>8
  <2>9. QED
    BY <2>7, <2>8
<1>6. Order(c) \in Seq(GoodLine)
  BY DEF Good
<1>7. \A i \in Core : Order(i) \in Seq(GoodLine)
  BY <1>1, ConcatProperties DEF Order
<1> HIDE DEF e, t
<1>8. \A i \in Core : buf'[i] = t(i) /\ Order(i)' = Cat(e(i), t(i))
  BY <1>4 DEF Order, Cat
<1>9. \A i \in Core : i # c => Order(i)' = Order(i)
  <2>1. \A i \in Core : Order(i) \o <<>> = Order(i)
    BY <1>7, ConcatEmptySeq
  <2>2. QED
    BY <1>3, <1>8, <2>1 DEF Order, Cat
<1>10. Order(c)' = Append(Order(c), l)
  <2>1. Order(c) \o <<l>> = Append(Order(c), l)
    BY <1>6, AppendIsConcat
  <2>2. QED
    BY <1>3, <1>8, <2>1 DEF Order, Cat
<1>11. Good(Append(Order(c), l), writes[c] + 1, A, FALSE)
  BY GoodNew
<1>12. QED
  BY <1>3, <1>4, <1>5, <1>8, <1>9, <1>10, <1>11
----------------------------------------------------------------------------
(***************************************************************************)
(* The steps.                                                              *)
(***************************************************************************)
LEMMA InitGood == Init => IInv
<1> SUFFICES ASSUME Init PROVE IInv
  OBVIOUS
<1> DEFINE new == [state |-> "I", sharers |-> {}, owned |-> FALSE, owner |-> None, sync |-> FALSE]
           none == [has |-> FALSE, on |-> {}]
<1>1. new \in Entry /\ none \in Deps
  <2>1. none \in Deps
    BY DEF Deps
  <2>2. new \in Entry
    BY DEF Entry
  <2>3. QED
    BY <2>1, <2>2
<1>2. <<>> \in Seq(GoodLine) /\ Len(<<>>) = 0 /\ <<>> \o <<>> = <<>>
  BY EmptySeq, ConcatEmptySeq
<1>3. BufferSize \in Nat
  BY PersistBufferAssumption
<1>4. /\ dir = [b \in Block |-> new] /\ acc = [c \in Core |-> none]
      /\ buf = [c \in Core |-> <<>>] /\ entered = [c \in Core |-> <<>>]
      /\ writes = [c \in Core |-> 0] /\ acquired = [c \in Core |-> {}]
  BY DEF Init
<1> HIDE DEF new
<1>5. Types
  <2>1. dir \in [Block -> Entry]
    BY <1>1, <1>4
  <2>2. acc \in [Core -> Deps]
    BY <1>1, <1>4
  <2>3. buf \in [Core -> Seq(GoodLine)] /\ entered \in [Core -> Seq(GoodLine)]
    BY <1>2, <1>4
  <2>4. writes \in [Core -> Nat] /\ acquired \in [Core -> SUBSET Nat]
    BY <1>4
  <2>5. \A c \in Core : Len(buf[c]) <= BufferSize
    BY <1>2, <1>3, <1>4
  <2>6. QED
    BY <2>1, <2>2, <2>3, <2>4, <2>5 DEF Types
<1>6. Good(<<>>, 0, {}, FALSE)
  BY <1>2 DEF Good, Dated, Split, Newest, Apart, Marked
<1>7. \A c \in Core : Good(Order(c), writes[c], acquired[c], acc[c].has)
  <2>1. SUFFICES ASSUME NEW c \in Core PROVE Good(Order(c), writes[c], acquired[c], acc[c].has)
    OBVIOUS
  <2>2. Order(c) = <<>> /\ writes[c] = 0 /\ acquired[c] = {} /\ acc[c].has = FALSE
    BY <1>2, <1>4 DEF Order
  <2>3. QED
    BY <1>6, <2>2
<1>8. QED
  BY <1>5, <1>7 DEF IInv

\* A write of a core, once coherence has answered: the line is a barrier if
\* the core has acquired.
LEMMA WriteGood ==
  ASSUME Types, NEW c \in Core, NEW b \in Block, NEW sync \in BOOLEAN, NEW deps \in Deps,
         NEW A, Good(Order(c), writes[c], A, deps.has), accessPersistBuffer(c, b, sync, deps)
  PROVE  /\ writes' = [writes EXCEPT ![c] = writes[c] + 1]
         /\ acc' \in [Core -> Deps] /\ acc'[c].has = FALSE
         /\ \A i \in Core : i # c => acc'[i] = acc[i]
         /\ buf' \in [Core -> Seq(GoodLine)] /\ entered' \in [Core -> Seq(GoodLine)]
         /\ \A i \in Core : Len(buf'[i]) <= BufferSize
         /\ \A i \in Core : i # c => Order(i)' = Order(i)
         /\ Good(Order(c)', writes[c] + 1, A, FALSE)
<1> DEFINE id  == writes[c] + 1
           hit == Hit(c, b, deps)
           new == [tag |-> b, barrier |-> sync \/ deps.has, has |-> deps.has,
                   on |-> IF deps.has THEN deps.on ELSE {}, first |-> id, last |-> id]
           none == [has |-> FALSE, on |-> {}]
<1>1. deps.has \in BOOLEAN /\ deps.on \in SUBSET Dep /\ none \in Deps
  BY DEF Deps
<1>2. id \in Nat /\ acc \in [Core -> Deps]
  BY DEF Types
<1>3. CASE hit > 0
  <2>1. /\ writes' = [writes EXCEPT ![c] = id] /\ buf' = [buf EXCEPT ![c][hit].last = id]
        /\ acc' = [acc EXCEPT ![c] = deps] /\ UNCHANGED entered
    BY <1>3 DEF accessPersistBuffer
  <2>2. deps.has = FALSE /\ hit = access(buf[c], b)
    BY <1>1, <1>3 DEF Hit
  <2>3. \A i \in Core : Len(buf[i]) <= BufferSize
    BY DEF Types
  <2>4. Good(Order(c), writes[c], A, FALSE)
    BY <2>2
  <2> DEFINE h == hit
  <2> HIDE DEF h
  <2>5. h = access(buf[c], b) /\ h > 0 /\ buf' = [buf EXCEPT ![c][h].last = writes[c] + 1]
    BY <1>3, <2>1, <2>2 DEF h
  <2>6. /\ buf' \in [Core -> Seq(GoodLine)] /\ entered' \in [Core -> Seq(GoodLine)]
        /\ \A i \in Core : Len(buf'[i]) = Len(buf[i])
        /\ \A i \in Core : i # c => Order(i)' = Order(i)
        /\ Good(Order(c)', writes[c] + 1, A, FALSE)
    BY <2>1, <2>4, <2>5, JoinStep
  <2>7. /\ acc' \in [Core -> Deps] /\ acc'[c].has = FALSE
        /\ \A i \in Core : i # c => acc'[i] = acc[i]
    BY <1>2, <2>1, <2>2
  <2>8. \A i \in Core : Len(buf'[i]) <= BufferSize
    BY <2>3, <2>6
  <2>9. QED
    BY <2>1, <2>6, <2>7, <2>8
<1>4. CASE ~(hit > 0)
  <2>1. PICK n \in Leaving(c) : Enters(c, new, n)
    BY <1>4 DEF accessPersistBuffer, Enters
  <2>2. writes' = [writes EXCEPT ![c] = id] /\ acc' = [acc EXCEPT ![c] = none]
    BY <1>4 DEF accessPersistBuffer
  <2>3. new \in GoodLine
    <3> DEFINE y == sync \/ deps.has
               o == IF deps.has THEN deps.on ELSE {}
               has == deps.has
    <3>1. y \in BOOLEAN /\ o \in SUBSET Dep /\ has \in BOOLEAN /\ (has => y)
      BY <1>1
    <3> HIDE DEF y, o, has, id
    <3>2. [tag |-> b, barrier |-> y, has |-> has, on |-> o, first |-> id, last |-> id] \in GoodLine
      BY <1>2, <3>1, NewLineGood
    <3>3. QED
      BY <3>2 DEF y, o, has
  <2>4. new.first = writes[c] + 1 /\ new.last = writes[c] + 1 /\ (deps.has => new.barrier)
    OBVIOUS
  <2> HIDE DEF new
  <2>5. /\ buf' \in [Core -> Seq(GoodLine)] /\ entered' \in [Core -> Seq(GoodLine)]
        /\ \A i \in Core : Len(buf'[i]) <= BufferSize
        /\ \A i \in Core : i # c => Order(i)' = Order(i)
        /\ Good(Order(c)', writes[c] + 1, A, FALSE)
    BY <1>1, <2>1, <2>3, <2>4, NewStep
  <2>6. /\ acc' \in [Core -> Deps] /\ acc'[c].has = FALSE
        /\ \A i \in Core : i # c => acc'[i] = acc[i]
    BY <1>1, <1>2, <2>2
  <2>7. QED
    BY <2>2, <2>5, <2>6
<1>5. QED
  BY <1>3, <1>4

LEMMA AccessGood ==
  ASSUME IInv, NEW c \in Core, NEW b \in Block, NEW op \in Op, NEW sync \in BOOLEAN,
         Access(c, b, op, sync)
  PROVE  IInv'
<1>1. Types /\ \A i \in Core : Good(Order(i), writes[i], acquired[i], acc[i].has)
  BY DEF IInv
<1>2. PICK r \in IF Asks(c, b, op) THEN accessSharedCache(c, b, op)
                 ELSE {[entry |-> dir[b], dep |-> FALSE]} :
        /\ dir' = [dir EXCEPT ![b] = r.entry]
        /\ acquired' = [acquired EXCEPT ![c] =
             IF DepsAfter(c, b, r).has /\ ~acc[c].has THEN @ \cup {writes[c]} ELSE @]
        /\ IF op = "WR" THEN accessPersistBuffer(c, b, sync, DepsAfter(c, b, r))
           ELSE acc' = [acc EXCEPT ![c] = DepsAfter(c, b, r)] /\ UNCHANGED <<buf, entered, writes>>
  BY DEF Access
<1>3. r.entry \in Entry /\ (r.dep => r.entry.owner \in Core)
  <2>1. dir[b] \in Entry
    BY <1>1 DEF Types
  <2>2. CASE Asks(c, b, op)
    BY <1>2, <2>1, <2>2, AnswerGood
  <2>3. CASE ~Asks(c, b, op)
    <3>1. r = [entry |-> dir[b], dep |-> FALSE]
      BY <1>2, <2>3
    <3>2. QED
      BY <2>1, <3>1
  <2>4. QED
    BY <2>2, <2>3
<1> DEFINE deps == DepsAfter(c, b, r)
<1>4. deps \in Deps /\ (acc[c].has => deps.has)
  BY <1>3, DepsGood
<1> HIDE DEF deps
<1>5. dir' \in [Block -> Entry]
  BY <1>1, <1>2, <1>3 DEF Types
<1>6. /\ \A i \in Core : i # c => acquired'[i] = acquired[i]
      /\ \A m \in acquired'[c] : m \in acquired[c] \/ (m = writes[c] /\ deps.has)
      /\ acquired' \in [Core -> SUBSET Nat]
  <2>1. acquired \in [Core -> SUBSET Nat] /\ writes[c] \in Nat
    BY <1>1 DEF Types
  <2>2. acquired' = [acquired EXCEPT ![c] =
          IF deps.has /\ ~acc[c].has THEN acquired[c] \cup {writes[c]} ELSE acquired[c]]
    BY <1>2 DEF deps
  <2>3. QED
    BY <2>1, <2>2
<1>7. Good(Order(c), writes[c], acquired'[c], deps.has)
  <2>1. deps.has \in BOOLEAN /\ acc[c].has \in BOOLEAN
    BY <1>1, <1>4 DEF Deps, Types
  <2>2. Good(Order(c), writes[c], acquired[c], acc[c].has)
    BY <1>1
  <2>3. QED
    BY <1>4, <1>6, <2>1, <2>2, GoodAcquire
<1>8. CASE op = "WR"
  <2>1. accessPersistBuffer(c, b, sync, deps)
    BY <1>2, <1>8 DEF deps
  <2>2. /\ writes' = [writes EXCEPT ![c] = writes[c] + 1]
        /\ acc' \in [Core -> Deps] /\ acc'[c].has = FALSE
        /\ \A i \in Core : i # c => acc'[i] = acc[i]
        /\ buf' \in [Core -> Seq(GoodLine)] /\ entered' \in [Core -> Seq(GoodLine)]
        /\ \A i \in Core : Len(buf'[i]) <= BufferSize
        /\ \A i \in Core : i # c => Order(i)' = Order(i)
        /\ Good(Order(c)', writes[c] + 1, acquired'[c], FALSE)
    BY <1>1, <1>4, <1>7, <2>1, WriteGood
  <2>3. /\ writes' \in [Core -> Nat] /\ writes'[c] = writes[c] + 1
        /\ \A i \in Core : i # c => writes'[i] = writes[i]
    BY <1>1, <2>2 DEF Types
  <2>4. Types'
    BY <1>5, <1>6, <2>2, <2>3 DEF Types
  <2>5. \A i \in Core : Good(Order(i)', writes'[i], acquired'[i], acc'[i].has)
    <3>1. Good(Order(c)', writes'[c], acquired'[c], acc'[c].has)
      BY <2>2, <2>3
    <3>2. \A i \in Core : i # c => Good(Order(i)', writes'[i], acquired'[i], acc'[i].has)
      BY <1>1, <1>6, <2>2, <2>3
    <3>3. QED
      BY <3>1, <3>2
  <2>6. QED
    BY <2>4, <2>5 DEF IInv
<1>9. CASE op # "WR"
  <2>1. acc' = [acc EXCEPT ![c] = deps] /\ UNCHANGED <<buf, entered, writes>>
    BY <1>2, <1>9 DEF deps
  <2>2. /\ acc' \in [Core -> Deps] /\ acc'[c] = deps
        /\ \A i \in Core : i # c => acc'[i] = acc[i]
    BY <1>1, <1>4, <2>1 DEF Types
  <2>3. Types'
    BY <1>1, <1>5, <1>6, <2>1, <2>2 DEF Types
  <2>4. \A i \in Core : Order(i)' = Order(i) /\ writes'[i] = writes[i]
    BY <2>1 DEF Order
  <2>5. \A i \in Core : Good(Order(i)', writes'[i], acquired'[i], acc'[i].has)
    <3>1. Good(Order(c)', writes'[c], acquired'[c], acc'[c].has)
      BY <1>7, <2>2, <2>4
    <3>2. \A i \in Core : i # c => Good(Order(i)', writes'[i], acquired'[i], acc'[i].has)
      BY <1>1, <1>6, <2>2, <2>4
    <3>3. QED
      BY <3>1, <3>2
  <2>6. QED
    BY <2>3, <2>5 DEF IInv
<1>10. QED
  BY <1>8, <1>9

LEMMA Inductive == Spec => []IInv
<1>1. Init => IInv
  BY InitGood
<1>2. IInv /\ [Next]_vars => IInv'
  <2>1. SUFFICES ASSUME IInv, [Next]_vars PROVE IInv'
    OBVIOUS
  <2>2. CASE Next
    <3>1. PICK c \in Core, b \in Block, op \in Op, sync \in BOOLEAN : Access(c, b, op, sync)
      BY <2>2 DEF Next
    <3>2. QED
      BY <2>1, <3>1, AccessGood
  <2>3. CASE UNCHANGED vars
    BY <2>1, <2>3 DEF vars, IInv, Types, Order
  <2>4. QED
    BY <2>1, <2>2, <2>3
<1>3. QED
  BY <1>1, <1>2, PTL DEF Spec
----------------------------------------------------------------------------
(***************************************************************************)
(* What the runs check, for any number of cores, blocks, writes and lines. *)
(***************************************************************************)
\* The entries of the directory name cores, no buffer holds more than
\* PBUFF_SIZE lines, and a line whose dependency vectors are in use is a
\* barrier.
THEOREM BuffersTyped == Spec => []TypeOK
<1>1. IInv => TypeOK
  <2>1. SUFFICES ASSUME IInv PROVE TypeOK
    OBVIOUS
  <2>2. \A b \in Block : dir[b].sharers \subseteq Core /\ dir[b].owner \in Core \cup {None}
    <3>1. \A b \in Block : dir[b] \in Entry
      BY <2>1 DEF IInv, Types
    <3>2. QED
      BY <3>1, EntryType
  <2>3. \A c \in Core : acc[c].on \subseteq Dep /\ Len(buf[c]) <= BufferSize
    <3>1. \A c \in Core : acc[c] \in Deps /\ Len(buf[c]) <= BufferSize
      BY <2>1 DEF IInv, Types
    <3>2. QED
      BY <3>1 DEF Deps
  <2>4. \A c \in Core : \A l \in ToSet(Order(c)) : l \in Line /\ (l.has => l.barrier)
    <3>1. SUFFICES ASSUME NEW c \in Core, NEW l \in ToSet(Order(c))
                   PROVE  l \in Line /\ (l.has => l.barrier)
      OBVIOUS
    <3>2. Order(c) \in Seq(GoodLine)
      BY <2>1 DEF IInv, Good
    <3>3. PICK i \in 1..Len(Order(c)) : l = Order(c)[i]
      BY <3>2, LenProperties DEF ToSet
    <3>4. l \in GoodLine
      BY <3>2, <3>3, LineType
    <3>5. QED
      BY <3>4 DEF GoodLine
  <2>5. QED
    BY <2>2, <2>3, <2>4 DEF TypeOK
<1>2. QED
  BY <1>1, Inductive, PTL

\* A barrier of a core persists after every write before it and before every
\* write after it: what accessPersistBuffer, access and flushPersistBuffer
\* owe the program.
THEOREM BarriersOrdered == Spec => []EpochsInOrder
<1>1. IInv => EpochsInOrder
  BY DEF IInv, Good, Split, EpochsInOrder
<1>2. QED
  BY <1>1, Inductive, PTL

\* The writes of a core to one block become persistent in program order,
\* although a line takes in later writes and lines are flushed by other cores.
THEOREM NewestWriteLast == Spec => []NewestLast
<1>1. IInv => NewestLast
  BY DEF IInv, Good, Newest, NewestLast
<1>2. QED
  BY <1>1, Inductive, PTL

\* No line holds writes from before and from after an acquire: the first write
\* after it opens a line, whatever PBuff::access would have found.
THEOREM AcquiresOpenLines == Spec => []AcquiresSeparate
<1>1. IInv => AcquiresSeparate
  <2>1. SUFFICES ASSUME IInv, NEW c \in Core, NEW l \in ToSet(Order(c)), NEW w \in acquired[c]
                 PROVE  ~(l.first <= w /\ w < l.last)
    BY DEF AcquiresSeparate
  <2>2. Order(c) \in Seq(GoodLine) /\ Apart(Order(c), acquired[c])
    BY <2>1 DEF IInv, Good
  <2>3. PICK i \in 1..Len(Order(c)) : l = Order(c)[i]
    BY <2>2, LenProperties DEF ToSet
  <2>4. QED
    BY <2>2, <2>3 DEF Apart
<1>2. QED
  BY <1>1, Inductive, PTL
=============================================================================
