--------------------------- MODULE SyncMapProofs ---------------------------
(***************************************************************************)
(* What the deletion loops of a sync map leave behind, for lists of every  *)
(* length, and the theorems about the life of a map that rest on it.       *)
(***************************************************************************)
EXTENDS SyncMap, Induction, FiniteSetTheorems

LoopState(n) == [head : 1..n + 1, prev : Nat, next : [1..n -> 1..n + 1]]

\* After turn i of the loop over n nodes: whatever lies before head was to be
\* deleted, the links behind i are untouched, and a link from head on skips at
\* most one node, which was to be deleted.
SweepInv(acc, i, n, D) ==
  /\ acc \in LoopState(n)
  /\ acc.head <= i + 1
  /\ \A j \in 1..n : j < acc.head => j \in D
  /\ \A j \in 1..n : j > i => acc.next[j] = j + 1
  /\ \A j \in 1..n : j >= acc.head =>
       acc.next[j] = j + 1 \/ (acc.next[j] = j + 2 /\ j + 1 \in D)
  /\ acc.prev <= i + 1
  /\ acc.head = i => acc.prev <= i
  /\ acc.head < i => acc.prev = i

LEMMA UnlinkStepType ==
  ASSUME NEW n \in Nat, NEW D, NEW i \in 1..n, NEW acc \in LoopState(n)
  PROVE  UnlinkStep(acc, i, D) \in LoopState(n)
<1> DEFINE cut == IF i \notin D THEN acc
                  ELSE IF i = acc.head THEN [acc EXCEPT !.head = acc.next[i]]
                  ELSE [acc EXCEPT !.next[acc.prev] = acc.next[i]]
<1>1. cut \in LoopState(n)
  BY DEF LoopState
<1>2. UnlinkStep(acc, i, D) = IF i = cut.head THEN cut ELSE [cut EXCEPT !.prev = i]
  BY DEF UnlinkStep
<1> HIDE DEF cut
<1>3. [cut EXCEPT !.prev = i] \in LoopState(n)
  <2>1. i \in Nat
    OBVIOUS
  <2>2. /\ cut.head \in 1..n + 1 /\ cut.next \in [1..n -> 1..n + 1]
        /\ [cut EXCEPT !.prev = i] = [head |-> cut.head, prev |-> i, next |-> cut.next]
    BY <1>1 DEF LoopState
  <2>3. QED
    BY <2>1, <2>2, Zenon DEF LoopState
<1>4. QED
  BY <1>1, <1>2, <1>3

LEMMA UnlinkStepInv ==
  ASSUME NEW n \in Nat, NEW D, NEW i \in 1..n, NEW acc, SweepInv(acc, i - 1, n, D)
  PROVE  SweepInv(UnlinkStep(acc, i, D), i, n, D)
<1> DEFINE new == UnlinkStep(acc, i, D)
           Deleted(h) == \A j \in 1..n : j < h => j \in D
           Untouched(nx, m) == \A j \in 1..n : j > m => nx[j] = j + 1
           Skips(h, nx) == \A j \in 1..n : j >= h =>
                             nx[j] = j + 1 \/ (nx[j] = j + 2 /\ j + 1 \in D)
<1>1. acc \in LoopState(n)
  BY DEF SweepInv
<1>2. new \in LoopState(n)
  BY <1>1, UnlinkStepType
<1>3. /\ acc.head \in 1..n + 1 /\ acc.prev \in Nat
      /\ acc.next \in [1..n -> 1..n + 1]
  BY <1>1 DEF LoopState
<1>4. acc.head <= i /\ acc.prev <= i
  BY <1>3 DEF SweepInv
<1>5. acc.head < i => acc.prev <= i - 1
  <2>1. acc.head = i - 1 => acc.prev <= i - 1
    BY DEF SweepInv
  <2>2. acc.head < i - 1 => acc.prev = i - 1
    BY DEF SweepInv
  <2>3. QED
    BY <1>3, <2>1, <2>2
<1>6. acc.head < i - 1 => acc.prev = i - 1
  BY <1>3 DEF SweepInv
<1>7. Deleted(acc.head) /\ Untouched(acc.next, i - 1) /\ Skips(acc.head, acc.next)
  BY DEF SweepInv
<1>8. acc.next[i] = i + 1
  BY <1>7
<1>9. ASSUME new.head <= i + 1, new.prev <= i + 1,
             new.head = i => new.prev <= i, new.head < i => new.prev = i,
             Deleted(new.head), Untouched(new.next, i), Skips(new.head, new.next)
      PROVE  SweepInv(new, i, n, D)
  <2> HIDE DEF new
  <2> QED BY <1>2, <1>9 DEF SweepInv
<1>10. Untouched(acc.next, i)
  BY <1>7
<1>11. CASE i \notin D /\ i = acc.head
  <2>1. new = acc
    BY <1>11 DEF UnlinkStep
  <2> HIDE DEF new, Deleted, Untouched, Skips
  <2>2. QED
    BY <1>3, <1>4, <1>7, <1>9, <1>10, <1>11, <2>1 DEF new
<1>12. CASE i \notin D /\ i # acc.head
  <2>1. new = [acc EXCEPT !.prev = i]
    BY <1>12 DEF UnlinkStep
  <2>2. new.head = acc.head /\ new.next = acc.next /\ new.prev = i
    BY <1>1, <2>1 DEF LoopState
  <2> HIDE DEF new, Deleted, Untouched, Skips
  <2>3. QED
    BY <1>3, <1>4, <1>7, <1>9, <1>10, <1>12, <2>2 DEF new
<1>13. CASE i \in D /\ i = acc.head
  <2> DEFINE cut == [acc EXCEPT !.head = acc.next[i]]
  <2>1. /\ cut \in LoopState(n) /\ cut.head = i + 1 /\ cut.next = acc.next
    BY <1>1, <1>8 DEF LoopState
  <2>2. new = IF i = cut.head THEN cut ELSE [cut EXCEPT !.prev = i]
    BY <1>13 DEF UnlinkStep
  <2> HIDE DEF cut, new
  <2>3. new.head = i + 1 /\ new.prev = i /\ new.next = acc.next
    BY <2>1, <2>2 DEF LoopState
  <2>4. Deleted(i + 1)
    BY <1>7, <1>13
  <2>5. Skips(i + 1, acc.next)
    BY <1>7, <1>13
  <2> HIDE DEF Deleted, Untouched, Skips
  <2>6. QED
    BY <1>9, <1>10, <2>3, <2>4, <2>5 DEF new
<1>14. CASE i \in D /\ i # acc.head
  <2> DEFINE cut == [acc EXCEPT !.next[acc.prev] = acc.next[i]]
  <2>1. /\ cut \in LoopState(n) /\ cut.head = acc.head
        /\ cut.next = [acc.next EXCEPT ![acc.prev] = i + 1]
    BY <1>1, <1>8 DEF LoopState
  <2>2. new = IF i = cut.head THEN cut ELSE [cut EXCEPT !.prev = i]
    BY <1>14 DEF UnlinkStep
  <2> HIDE DEF cut, new
  <2>3. /\ new.head = acc.head /\ new.prev = i
        /\ new.next = [acc.next EXCEPT ![acc.prev] = i + 1]
    BY <1>14, <2>1, <2>2 DEF LoopState
  <2>4. acc.head < i /\ acc.prev <= i - 1
    BY <1>3, <1>4, <1>5, <1>14
  <2>5. acc.prev >= acc.head => acc.prev = i - 1
    BY <1>3, <1>6, <2>4
  <2>6. \A j \in 1..n : new.next[j] = IF j = acc.prev THEN i + 1 ELSE acc.next[j]
    BY <1>3, <2>3
  <2>7. Skips(acc.head, new.next)
    <3> SUFFICES ASSUME NEW j \in 1..n, j >= acc.head
                 PROVE  new.next[j] = j + 1 \/ (new.next[j] = j + 2 /\ j + 1 \in D)
      OBVIOUS
    <3>1. CASE j = acc.prev
      <4>1. j = i - 1 /\ j + 1 = i /\ j + 2 = i + 1
        BY <2>5, <3>1
      <4>2. new.next[j] = j + 2
        BY <2>6, <3>1, <4>1
      <4>3. QED
        BY <1>14, <4>1, <4>2
    <3>2. CASE j # acc.prev
      BY <1>7, <2>6, <3>2
    <3>3. QED
      BY <3>1, <3>2
  <2>8. Untouched(new.next, i)
    BY <1>3, <1>10, <2>4, <2>6
  <2> HIDE DEF Deleted, Untouched, Skips
  <2>9. QED
    BY <1>3, <1>4, <1>7, <1>9, <2>3, <2>4, <2>7, <2>8 DEF new
<1>15. QED
  BY <1>11, <1>12, <1>13, <1>14

\* The loop, as the recursive function it is.
LEMMA SweepLoop ==
  ASSUME NEW n \in Nat, NEW D
  PROVE  \A i \in 0..n : SweepInv(Sweep(n, D)[i], i, n, D)
<1> DEFINE x0 == [head |-> 1, prev |-> 1, next |-> [j \in 1..n |-> j + 1]]
           F == [i \in 1..n |-> [acc \in LoopState(n) |-> UnlinkStep(acc, i, D)]]
           r == Sweep(n, D)
<1>1. x0 \in LoopState(n)
  BY DEF LoopState
<1>2. \A i \in 1..n : F[i] \in [LoopState(n) -> LoopState(n)]
  BY UnlinkStepType
<1>3. PICK g \in [0..n -> LoopState(n)] : IsRun(g, x0, F, n)
  <2> HIDE DEF x0, F
  <2> QED BY <1>1, <1>2, RunExists
<1>4. g = [i \in 0..n |-> IF i = 0 THEN x0 ELSE UnlinkStep(g[i - 1], i, D)]
  <2>1. g[0] = x0
    BY <1>3 DEF IsRun
  <2>2. \A i \in 1..n : g[i] = UnlinkStep(g[i - 1], i, D)
    <3> SUFFICES ASSUME NEW i \in 1..n PROVE g[i] = UnlinkStep(g[i - 1], i, D)
      OBVIOUS
    <3>1. i - 1 \in 0..n /\ g[i - 1] \in LoopState(n)
      OBVIOUS
    <3>2. g[i] = F[i][g[i - 1]]
      <4> HIDE DEF F
      <4> QED BY <1>3 DEF IsRun
    <3>3. QED
      BY <3>1, <3>2
  <2> HIDE DEF x0
  <2>3. QED
    BY <2>1, <2>2
<1>5. r = [i \in 0..n |-> IF i = 0 THEN x0 ELSE UnlinkStep(r[i - 1], i, D)]
  BY <1>4 DEF Sweep
<1> HIDE DEF r
<1> DEFINE S == {i \in 0..n : SweepInv(r[i], i, n, D)}
<1>6. 0 \in S
  <2>1. r[0] = x0
    BY <1>5
  <2>2. SweepInv(x0, 0, n, D)
    BY <1>1 DEF SweepInv
  <2> HIDE DEF x0
  <2>3. QED
    BY <2>1, <2>2
<1>7. \A i \in 1..n : i - 1 \in S => i \in S
  <2> SUFFICES ASSUME NEW i \in 1..n, SweepInv(r[i - 1], i - 1, n, D)
               PROVE  SweepInv(r[i], i, n, D)
    OBVIOUS
  <2>1. r[i] = UnlinkStep(r[i - 1], i, D)
    BY <1>5
  <2>2. QED
    BY <2>1, UnlinkStepInv
<1>8. 0..n \subseteq S
  <2> HIDE DEF S
  <2> QED BY <1>6, <1>7, BoundedInduction
<1>9. QED
  BY <1>8 DEF r
----------------------------------------------------------------------------
WalkState(E) == [at : Nat, seen : Seq(E)]

OnePerWord(list) == \A i, j \in DOMAIN list : list[i].addr = list[j].addr => i = j

\* After node i of the list has been passed: the walk stands behind it, and has
\* collected nodes up to i only, all of them but the deleted ones, once each.
FollowInv(acc, i, list, D, E) ==
  /\ acc \in WalkState(E)
  /\ acc.at > i
  /\ \A p \in DOMAIN acc.seen : \E j \in 1..i : acc.seen[p] = list[j]
  /\ \A j \in 1..i : j \notin D => \E p \in DOMAIN acc.seen : acc.seen[p] = list[j]
  /\ \A j \in 1..Len(list) : i < j /\ j < acc.at => j \in D
  /\ OnePerWord(list) => OnePerWord(acc.seen)

LEMMA FollowStepType ==
  ASSUME NEW E, NEW list \in Seq(E), NEW i \in 1..Len(list), NEW acc \in WalkState(E),
         NEW next \in [1..Len(list) -> Nat]
  PROVE  FollowStep(acc, i, list, next) \in WalkState(E)
<1>1. list[i] \in E
  OBVIOUS
<1>2. Append(acc.seen, list[i]) \in Seq(E)
  BY <1>1 DEF WalkState
<1>3. next[i] \in Nat
  OBVIOUS
<1>4. QED
  BY <1>2, <1>3 DEF FollowStep, WalkState

LEMMA FollowStepInv ==
  ASSUME NEW E, NEW list \in Seq(E), NEW D, NEW i \in 1..Len(list), NEW acc,
         NEW next \in [1..Len(list) -> 1..Len(list) + 1], NEW head \in Nat,
         \A j \in 1..Len(list) : j >= head =>
           next[j] = j + 1 \/ (next[j] = j + 2 /\ j + 1 \in D),
         acc.at >= head, FollowInv(acc, i - 1, list, D, E)
  PROVE  /\ FollowInv(FollowStep(acc, i, list, next), i, list, D, E)
         /\ FollowStep(acc, i, list, next).at >= head
<1> DEFINE new == FollowStep(acc, i, list, next)
<1>1. acc \in WalkState(E)
  BY DEF FollowInv
<1>2. next \in [1..Len(list) -> Nat]
  OBVIOUS
<1>3. new \in WalkState(E)
  BY <1>1, <1>2, FollowStepType
<1>4. acc.at \in Nat /\ acc.seen \in Seq(E) /\ acc.at > i - 1
  BY <1>1 DEF FollowInv, WalkState
<1>5. /\ \A p \in DOMAIN acc.seen : \E j \in 1..i - 1 : acc.seen[p] = list[j]
      /\ \A j \in 1..i - 1 : j \notin D => \E p \in DOMAIN acc.seen : acc.seen[p] = list[j]
      /\ \A j \in 1..Len(list) : i - 1 < j /\ j < acc.at => j \in D
      /\ OnePerWord(list) => OnePerWord(acc.seen)
  BY DEF FollowInv
<1>6. ASSUME new.at > i, new.at >= head,
             \A p \in DOMAIN new.seen : \E j \in 1..i : new.seen[p] = list[j],
             \A j \in 1..i : j \notin D => \E p \in DOMAIN new.seen : new.seen[p] = list[j],
             \A j \in 1..Len(list) : i < j /\ j < new.at => j \in D,
             OnePerWord(list) => OnePerWord(new.seen)
      PROVE  FollowInv(new, i, list, D, E) /\ new.at >= head
  <2> HIDE DEF new
  <2> QED BY <1>3, <1>6 DEF FollowInv
<1>7. CASE i = acc.at
  <2> DEFINE m == Len(acc.seen)
  <2>1. new = [at |-> next[i], seen |-> Append(acc.seen, list[i])]
    BY <1>7 DEF FollowStep
  <2>2. new.at = next[i] /\ new.seen = Append(acc.seen, list[i])
    BY <2>1
  <2>3. list[i] \in E /\ DOMAIN list = 1..Len(list)
    OBVIOUS
  <2>4. /\ DOMAIN acc.seen = 1..m /\ m \in Nat /\ DOMAIN new.seen = 1..m + 1
        /\ \A p \in 1..m : new.seen[p] = acc.seen[p]
        /\ new.seen[m + 1] = list[i]
    BY <1>4, <2>2, <2>3
  <2> HIDE DEF new, m
  <2>5. next[i] = i + 1 \/ (next[i] = i + 2 /\ i + 1 \in D)
    BY <1>7
  <2>6. \A p \in DOMAIN new.seen : \E j \in 1..i : new.seen[p] = list[j]
    <3> SUFFICES ASSUME NEW p \in 1..m + 1 PROVE \E j \in 1..i : new.seen[p] = list[j]
      BY <2>4
    <3>1. CASE p = m + 1
      BY <2>4, <3>1
    <3>2. CASE p # m + 1
      <4>1. p \in 1..m
        BY <2>4, <3>2
      <4>2. PICK j \in 1..i - 1 : acc.seen[p] = list[j]
        BY <1>5, <2>4, <4>1
      <4>3. j \in 1..i
        OBVIOUS
      <4>4. QED
        BY <2>4, <4>1, <4>2, <4>3
    <3>3. QED
      BY <3>1, <3>2
  <2>7. \A j \in 1..i : j \notin D => \E p \in DOMAIN new.seen : new.seen[p] = list[j]
    <3> SUFFICES ASSUME NEW j \in 1..i, j \notin D
                 PROVE  \E p \in 1..m + 1 : new.seen[p] = list[j]
      BY <2>4
    <3>1. CASE j = i
      BY <2>4, <3>1
    <3>2. CASE j # i
      <4>1. j \in 1..i - 1
        BY <3>2
      <4>2. PICK p \in 1..m : acc.seen[p] = list[j]
        BY <1>5, <2>4, <4>1
      <4>3. p \in 1..m + 1
        BY <2>4
      <4>4. QED
        BY <2>4, <4>2, <4>3
    <3>3. QED
      BY <3>1, <3>2
  <2>8. \A j \in 1..Len(list) : i < j /\ j < new.at => j \in D
    BY <2>2, <2>5
  <2>9. OnePerWord(list) => OnePerWord(new.seen)
    <3> SUFFICES ASSUME OnePerWord(list), NEW p \in 1..m + 1, NEW q \in 1..m + 1,
                        new.seen[p].addr = new.seen[q].addr
                 PROVE  p = q
      BY <2>4 DEF OnePerWord
    <3>1. ASSUME NEW o \in 1..m, acc.seen[o].addr = list[i].addr PROVE FALSE
      <4>1. PICK j \in 1..i - 1 : acc.seen[o] = list[j]
        BY <1>5, <2>4
      <4>2. j \in DOMAIN list /\ i \in DOMAIN list /\ j # i
        BY <2>3
      <4>3. QED
        BY <3>1, <4>1, <4>2 DEF OnePerWord
    <3>2. \A o \in 1..m + 1 : o \in 1..m \/ o = m + 1
      BY <2>4
    <3>3. CASE p \in 1..m /\ q \in 1..m
      BY <1>5, <2>4, <3>3 DEF OnePerWord
    <3>4. CASE p = m + 1 \/ q = m + 1
      BY <2>4, <3>1, <3>2, <3>4
    <3>5. QED
      BY <3>2, <3>3, <3>4
  <2>10. new.at > i /\ new.at >= head
    BY <1>4, <1>7, <2>2, <2>5
  <2>11. QED
    BY <1>6, <2>6, <2>7, <2>8, <2>9, <2>10 DEF new
<1>8. CASE i # acc.at
  <2>1. new = acc
    BY <1>8 DEF FollowStep
  <2> HIDE DEF new
  <2>2. acc.at > i /\ i \in D
    BY <1>4, <1>5, <1>8
  <2>3. \A p \in DOMAIN acc.seen : \E j \in 1..i : acc.seen[p] = list[j]
    <3>1. \A j \in 1..i - 1 : j \in 1..i
      OBVIOUS
    <3>2. QED
      BY <1>5, <3>1
  <2>4. \A j \in 1..i : j \notin D => \E p \in DOMAIN acc.seen : acc.seen[p] = list[j]
    <3>1. \A j \in 1..i : j = i \/ j \in 1..i - 1
      OBVIOUS
    <3>2. QED
      BY <1>5, <2>2, <3>1
  <2>5. \A j \in 1..Len(list) : i < j /\ j < acc.at => j \in D
    BY <1>5
  <2>6. QED
    BY <1>5, <1>6, <2>1, <2>2, <2>3, <2>4, <2>5 DEF new
<1>9. QED
  BY <1>7, <1>8

LEMMA FollowLoop ==
  ASSUME NEW E, NEW list \in Seq(E), NEW D,
         NEW next \in [1..Len(list) -> 1..Len(list) + 1], NEW head \in Nat \ {0},
         \A j \in 1..Len(list) : j < head => j \in D,
         \A j \in 1..Len(list) : j >= head =>
           next[j] = j + 1 \/ (next[j] = j + 2 /\ j + 1 \in D)
  PROVE  FollowInv(Follow(list, head, next)[Len(list)], Len(list), list, D, E)
<1> DEFINE n == Len(list)
           x0 == [at |-> head, seen |-> <<>>]
           F == [i \in 1..n |-> [acc \in WalkState(E) |-> FollowStep(acc, i, list, next)]]
           r == Follow(list, head, next)
<1> n \in Nat
  OBVIOUS
<1>1. x0 \in WalkState(E)
  BY DEF WalkState
<1>2. \A i \in 1..n : F[i] \in [WalkState(E) -> WalkState(E)]
  BY FollowStepType
<1>3. PICK g \in [0..n -> WalkState(E)] : IsRun(g, x0, F, n)
  <2> HIDE DEF x0, F, n
  <2> QED BY <1>1, <1>2, RunExists
<1>4. g = [i \in 0..n |-> IF i = 0 THEN x0 ELSE FollowStep(g[i - 1], i, list, next)]
  <2>1. g[0] = x0
    BY <1>3 DEF IsRun
  <2>2. \A i \in 1..n : g[i] = FollowStep(g[i - 1], i, list, next)
    <3> SUFFICES ASSUME NEW i \in 1..n PROVE g[i] = FollowStep(g[i - 1], i, list, next)
      OBVIOUS
    <3>1. i - 1 \in 0..n /\ g[i - 1] \in WalkState(E)
      OBVIOUS
    <3>2. g[i] = F[i][g[i - 1]]
      <4> HIDE DEF F, n
      <4> QED BY <1>3 DEF IsRun
    <3>3. QED
      BY <3>1, <3>2
  <2> HIDE DEF x0, n
  <2>3. QED
    BY <2>1, <2>2
<1>5. r = [i \in 0..n |-> IF i = 0 THEN x0 ELSE FollowStep(r[i - 1], i, list, next)]
  BY <1>4 DEF Follow
<1> HIDE DEF r
<1> DEFINE S == {i \in 0..n : FollowInv(r[i], i, list, D, E) /\ r[i].at >= head}
<1>6. 0 \in S
  <2>1. r[0] = x0
    BY <1>5
  <2>2. FollowInv(x0, 0, list, D, E) /\ x0.at >= head
    BY <1>1 DEF FollowInv, OnePerWord
  <2> HIDE DEF x0
  <2>3. QED
    BY <2>1, <2>2
<1>7. \A i \in 1..n : i - 1 \in S => i \in S
  <2> SUFFICES ASSUME NEW i \in 1..n, FollowInv(r[i - 1], i - 1, list, D, E),
                      r[i - 1].at >= head
               PROVE  FollowInv(r[i], i, list, D, E) /\ r[i].at >= head
    OBVIOUS
  <2>1. r[i] = FollowStep(r[i - 1], i, list, next)
    BY <1>5
  <2> DEFINE acc == r[i - 1]
  <2> HIDE DEF acc
  <2>2. /\ FollowInv(FollowStep(acc, i, list, next), i, list, D, E)
        /\ FollowStep(acc, i, list, next).at >= head
    <3>1. acc.at >= head /\ FollowInv(acc, i - 1, list, D, E)
      BY DEF acc
    <3>2. QED
      BY <3>1, FollowStepInv
  <2>3. QED
    BY <2>1, <2>2 DEF acc
<1>8. n \in S
  <2>1. 0..n \subseteq S
    <3> HIDE DEF S, n
    <3> QED BY <1>6, <1>7, BoundedInduction
  <2>2. QED
    BY <2>1
<1>9. QED
  BY <1>8 DEF r

\* What is left of a list: nothing new, everything that was not to be deleted,
\* and no word twice that was there once.
LEMMA SurvivorsFacts ==
  ASSUME NEW E, NEW list \in Seq(E), NEW D
  PROVE  LET left == Survivors(list, D) IN
         /\ left \in Seq(E)
         /\ \A p \in DOMAIN left : \E j \in DOMAIN list : left[p] = list[j]
         /\ \A j \in DOMAIN list \ D : \E p \in DOMAIN left : left[p] = list[j]
         /\ OnePerWord(list) => OnePerWord(left)
<1> DEFINE n == Len(list)
           swept == Sweep(n, D)[n]
           walk == Follow(list, swept.head, swept.next)[n]
<1> n \in Nat /\ DOMAIN list = 1..n
  OBVIOUS
<1>1. SweepInv(swept, n, n, D)
  <2> HIDE DEF n
  <2> QED BY SweepLoop
<1> HIDE DEF swept
<1>2. /\ swept.head \in Nat \ {0} /\ swept.next \in [1..n -> 1..n + 1]
      /\ \A j \in 1..n : j < swept.head => j \in D
      /\ \A j \in 1..n : j >= swept.head =>
           swept.next[j] = j + 1 \/ (swept.next[j] = j + 2 /\ j + 1 \in D)
  <2> HIDE DEF n
  <2> QED BY <1>1 DEF SweepInv, LoopState
<1>3. FollowInv(walk, n, list, D, E)
  BY <1>2, FollowLoop
<1>4. Survivors(list, D) = walk.seen
  BY DEF Survivors, swept
<1> HIDE DEF walk, n
<1>5. QED
  BY <1>3, <1>4 DEF FollowInv, WalkState
----------------------------------------------------------------------------
\* A map whose entries are taken from E, none of them twice, and whose counter
\* does not exceed their number.
WordsIn(m) == {x.addr : x \in Entries(m)}

Sound(m, E) ==
  /\ m \in [list : Seq(E), size : Int]
  /\ OnePerWord(m.list)
  /\ m.size <= Cardinality(WordsIn(m))

\* The image of a finite set under a function is no larger than the set.
LEMMA ImageFinite ==
  ASSUME NEW S, IsFiniteSet(S), NEW f, S \subseteq DOMAIN f
  PROVE  IsFiniteSet({f[x] : x \in S}) /\ Cardinality({f[x] : x \in S}) <= Cardinality(S)
<1> DEFINE T == {f[x] : x \in S}
           g == [x \in S |-> f[x]]
<1>1. g \in Surjection(S, T)
  BY DEF Surjection
<1> HIDE DEF g, T
<1>2. IsFiniteSet(T) /\ Cardinality(T) <= Cardinality(S)
  BY <1>1, FS_Surjection
<1>3. QED
  BY <1>2 DEF T

\* The entries of a map, and that they are finitely many.
LEMMA EntriesOf ==
  ASSUME NEW E, NEW m \in [list : Seq(E), size : Int]
  PROVE  /\ Entries(m) = {m.list[i] : i \in DOMAIN m.list}
         /\ Entries(m) \subseteq E
         /\ IsFiniteSet(Entries(m)) /\ IsFiniteSet(WordsIn(m))
<1>1. Entries(m) = {m.list[i] : i \in 1..Len(m.list)} /\ Len(m.list) \in Nat
  BY DEF Entries, Range
<1>2. IsFiniteSet(1..Len(m.list))
  BY <1>1, FS_Interval
<1>3. IsFiniteSet(Entries(m))
  BY <1>1, <1>2, ImageFinite
<1>4. IsFiniteSet(WordsIn(m))
  <2> DEFINE f == [x \in Entries(m) |-> x.addr]
  <2>1. WordsIn(m) = {f[x] : x \in Entries(m)} /\ Entries(m) \subseteq DOMAIN f
    BY DEF WordsIn
  <2> HIDE DEF f
  <2>2. QED
    BY <1>3, <2>1, ImageFinite
<1>5. QED
  BY <1>1, <1>3, <1>4

\* Deleting the nodes D: nothing new, and nothing else is lost.
LEMMA UnlinkFacts ==
  ASSUME NEW E, NEW m, Sound(m, E), NEW D \in SUBSET DOMAIN m.list
  PROVE  /\ Sound(Unlink(m, D), E)
         /\ Entries(Unlink(m, D)) \subseteq Entries(m)
         /\ \A j \in DOMAIN m.list \ D : m.list[j] \in Entries(Unlink(m, D))
<1> DEFINE left == Survivors(m.list, D)
           u == Unlink(m, D)
<1>1. m \in [list : Seq(E), size : Int]
  BY DEF Sound
<1>2. /\ left \in Seq(E)
      /\ \A p \in DOMAIN left : \E j \in DOMAIN m.list : left[p] = m.list[j]
      /\ \A j \in DOMAIN m.list \ D : \E p \in DOMAIN left : left[p] = m.list[j]
      /\ OnePerWord(left)
  BY <1>1, SurvivorsFacts DEF Sound
<1>3. IsFiniteSet(D) /\ Cardinality(D) \in Nat
  <2>1. IsFiniteSet(DOMAIN m.list)
    BY <1>1, FS_Interval
  <2>2. QED
    BY <2>1, FS_Subset, FS_CardinalityType
<1>4. /\ u \in [list : Seq(E), size : Int]
      /\ u.list = left /\ u.size = m.size - Cardinality(D)
  BY <1>1, <1>2, <1>3 DEF Unlink
<1> HIDE DEF u, left
<1>5. Entries(m) = {m.list[i] : i \in DOMAIN m.list} /\ Entries(u) = {left[i] : i \in DOMAIN left}
  BY <1>1, <1>4, EntriesOf
<1>6. Entries(u) \subseteq Entries(m)
  BY <1>2, <1>5
<1>7. \A j \in DOMAIN m.list \ D : m.list[j] \in Entries(u)
  BY <1>2, <1>5
<1>8. u.size <= Cardinality(WordsIn(u))
  <2> DEFINE gone == {m.list[j].addr : j \in D}
  <2>1. IsFiniteSet(gone) /\ Cardinality(gone) <= Cardinality(D)
    <3> DEFINE f == [j \in D |-> m.list[j].addr]
    <3>1. gone = {f[j] : j \in D} /\ D \subseteq DOMAIN f
      OBVIOUS
    <3> HIDE DEF f, gone
    <3>2. QED
      BY <1>3, <3>1, ImageFinite
  <2>2. WordsIn(m) \subseteq WordsIn(u) \cup gone
    <3> SUFFICES ASSUME NEW x \in Entries(m) PROVE x.addr \in WordsIn(u) \cup gone
      BY DEF WordsIn
    <3>1. PICK j \in DOMAIN m.list : x = m.list[j]
      BY <1>5
    <3>2. QED
      BY <1>7, <3>1 DEF WordsIn
  <2>3. IsFiniteSet(WordsIn(m)) /\ IsFiniteSet(WordsIn(u))
    BY <1>1, <1>4, EntriesOf
  <2> HIDE DEF gone
  <2>4. /\ IsFiniteSet(WordsIn(u) \cup gone)
        /\ Cardinality(WordsIn(u) \cup gone) <= Cardinality(WordsIn(u)) + Cardinality(gone)
    <3>1. /\ IsFiniteSet(WordsIn(u) \cup gone) /\ IsFiniteSet(WordsIn(u) \cap gone)
          /\ Cardinality(WordsIn(u) \cup gone) =
               Cardinality(WordsIn(u)) + Cardinality(gone) - Cardinality(WordsIn(u) \cap gone)
      BY <2>1, <2>3, FS_Union, FS_Intersection
    <3>2. /\ Cardinality(WordsIn(u) \cap gone) \in Nat /\ Cardinality(WordsIn(u)) \in Nat
          /\ Cardinality(gone) \in Nat
      BY <2>1, <2>3, <3>1, FS_CardinalityType
    <3>3. QED
      BY <3>1, <3>2
  <2>5. Cardinality(WordsIn(m)) <= Cardinality(WordsIn(u) \cup gone)
    BY <2>2, <2>4, FS_Subset
  <2>6. /\ Cardinality(WordsIn(m)) \in Nat /\ Cardinality(WordsIn(u)) \in Nat
        /\ Cardinality(gone) \in Nat /\ Cardinality(WordsIn(u) \cup gone) \in Nat
    BY <2>1, <2>3, <2>4, FS_CardinalityType
  <2>7. m.size \in Int /\ m.size <= Cardinality(WordsIn(m))
    BY <1>1 DEF Sound
  <2>8. QED
    BY <1>3, <1>4, <2>1, <2>4, <2>5, <2>6, <2>7
<1>9. QED
  BY <1>2, <1>4, <1>6, <1>7, <1>8 DEF Sound, u

\* The entries of a block are deleted; some of them may stay behind, all the
\* others do.
LEMMA DeleteWordsFacts ==
  ASSUME NEW E, NEW m, Sound(m, E), NEW W
  PROVE  LET u == deleteFromSyncMap(m, W) IN
         /\ Sound(u, E) /\ Entries(u) \subseteq Entries(m)
         /\ \A x \in Entries(m) : x.addr \notin W => x \in Entries(u)
<1> DEFINE D == {i \in DOMAIN m.list : m.list[i].addr \in W}
<1>1. deleteFromSyncMap(m, W) = Unlink(m, D)
  BY DEF deleteFromSyncMap
<1>2. Entries(m) = {m.list[i] : i \in DOMAIN m.list}
  BY EntriesOf DEF Sound
<1>3. \A i \in DOMAIN m.list : m.list[i].addr \notin W => i \in DOMAIN m.list \ D
  OBVIOUS
<1>4. D \in SUBSET DOMAIN m.list
  OBVIOUS
<1> HIDE DEF D
<1>5. QED
  BY <1>1, <1>2, <1>3, <1>4, UnlinkFacts

LEMMA DeleteLowerFacts ==
  ASSUME NEW E, NEW m, Sound(m, E), NEW e
  PROVE  LET u == deleteLowerFromSyncMap(m, e) IN
         /\ Sound(u, E) /\ Entries(u) \subseteq Entries(m)
         /\ \A x \in Entries(m) : ~(x.epoch < e) => x \in Entries(u)
<1> DEFINE D == {i \in DOMAIN m.list : m.list[i].epoch < e}
<1>1. deleteLowerFromSyncMap(m, e) = Unlink(m, D)
  BY DEF deleteLowerFromSyncMap
<1>2. Entries(m) = {m.list[i] : i \in DOMAIN m.list}
  BY EntriesOf DEF Sound
<1>3. \A i \in DOMAIN m.list : ~(m.list[i].epoch < e) => i \in DOMAIN m.list \ D
  OBVIOUS
<1>4. D \in SUBSET DOMAIN m.list
  OBVIOUS
<1> HIDE DEF D
<1>5. QED
  BY <1>1, <1>2, <1>3, <1>4, UnlinkFacts

\* Map u is map m with word w registered under epoch e.
Registers(m, u, w, e) ==
  \A x : x \in Entries(u) <=>
          (x \in Entries(m) /\ x.addr # w) \/ x = [addr |-> w, epoch |-> e]

\* A release registers its word under its epoch, whether the word is in the map
\* already or not, unless a new word meets a full map.
LEMMA AddFacts ==
  ASSUME NEW A, NEW T, NEW m, Sound(m, [addr : A, epoch : T]), NEW w \in A, NEW e \in T
  PROVE  /\ Sound(addSyncLine(m, w, e), [addr : A, epoch : T])
         /\ w \in WordsIn(m) \/ m.size < SyncmapSize => Registers(m, addSyncLine(m, w, e), w, e)
         /\ w \notin WordsIn(m) /\ ~(m.size < SyncmapSize) => addSyncLine(m, w, e) = m
<1> DEFINE E == [addr : A, epoch : T]
           new == [addr |-> w, epoch |-> e]
           u == addSyncLine(m, w, e)
           n == Len(m.list)
           old == {i \in DOMAIN m.list : m.list[i].addr = w}
<1>1. /\ m \in [list : Seq(E), size : Int] /\ OnePerWord(m.list)
      /\ m.size <= Cardinality(WordsIn(m))
      /\ DOMAIN m.list = 1..n /\ n \in Nat
  BY DEF Sound
<1>2. Entries(m) = {m.list[i] : i \in 1..n} /\ Entries(m) \subseteq E
  BY <1>1, EntriesOf
<1>3. new \in E
  OBVIOUS
<1>4. old = {} <=> w \notin WordsIn(m)
  BY <1>1, <1>2 DEF WordsIn
<1>5. ASSUME NEW y \in [list : Seq(E), size : Int], OnePerWord(y.list),
             y.size <= Cardinality(WordsIn(y))
      PROVE  Sound(y, E)
  BY <1>5 DEF Sound
<1>6. CASE old # {}
  <2> DEFINE k == CHOOSE i \in old : \A j \in old : i <= j
  <2>1. k \in old
    <3>1. old \subseteq Nat
      BY <1>1
    <3> HIDE DEF old
    <3>2. \E i \in old : \A j \in old : i <= j
      BY <1>6, <3>1, LeastNumber
    <3>3. QED
      BY <3>2
  <2>2. u = [m EXCEPT !.list[k].epoch = e]
    BY <1>6 DEF addSyncLine
  <2> HIDE DEF k
  <2>3. k \in 1..n /\ m.list[k] \in E /\ m.list[k].addr = w
    <3>1. k \in DOMAIN m.list /\ m.list[k].addr = w
      BY <2>1
    <3>2. \A i \in 1..n : m.list[i] \in E
      BY <1>2
    <3>3. QED
      BY <1>1, <3>1, <3>2
  <2> HIDE DEF old, u
  <2>4. [m.list[k] EXCEPT !.epoch = e] = new
    BY <2>3
  <2>5. u.list = [m.list EXCEPT ![k] = new] /\ u.size = m.size
    BY <1>1, <2>2, <2>4
  <2>6. \A i \in 1..n : u.list[i] = IF i = k THEN new ELSE m.list[i]
    BY <1>1, <2>5
  <2>7. u \in [list : Seq(E), size : Int] /\ DOMAIN u.list = 1..n
    <3>1. [m.list EXCEPT ![k] = new] \in Seq(E)
      BY <1>1, <1>3, <2>3
    <3> HIDE DEF E, new
    <3>2. u = [m EXCEPT !.list = [m.list EXCEPT ![k] = new]]
      BY <1>1, <2>2, <2>4
    <3>3. QED
      BY <1>1, <2>5, <3>1, <3>2
  <2>8. \A i \in 1..n : u.list[i].addr = m.list[i].addr
    BY <2>3, <2>6
  <2>9. OnePerWord(u.list)
    BY <1>1, <2>7, <2>8 DEF OnePerWord
  <2>10. Entries(u) = {u.list[i] : i \in 1..n}
    BY <2>7, EntriesOf
  <2>11. \A i \in 1..n : m.list[i].addr = w <=> i = k
    BY <1>1, <2>3 DEF OnePerWord
  <2>12. Entries(u) = {x \in Entries(m) : x.addr # w} \cup {new}
    BY <1>2, <2>3, <2>6, <2>10, <2>11
  <2>13. WordsIn(u) = WordsIn(m)
    <3>1. WordsIn(u) = {u.list[i].addr : i \in 1..n}
      BY <2>10 DEF WordsIn
    <3>2. WordsIn(m) = {m.list[i].addr : i \in 1..n}
      BY <1>2 DEF WordsIn
    <3>3. QED
      BY <2>8, <3>1, <3>2
  <2>14. Sound(u, E)
    BY <1>1, <1>5, <2>5, <2>7, <2>9, <2>13
  <2>15. QED
    BY <1>4, <1>6, <2>12, <2>14 DEF u, Registers
<1>7. CASE old = {} /\ m.size < SyncmapSize
  <2>1. u = [list |-> <<new>> \o m.list, size |-> m.size + 1]
    BY <1>7 DEF addSyncLine
  <2> HIDE DEF u
  <2>2. /\ u.list = <<new>> \o m.list /\ u.size = m.size + 1
        /\ u \in [list : Seq(E), size : Int]
    BY <1>1, <1>3, <2>1
  <2>3. /\ DOMAIN u.list = 1..n + 1 /\ u.list[1] = new
        /\ \A i \in 1..n : u.list[i + 1] = m.list[i]
    BY <1>1, <1>3, <2>2
  <2>4. \A i \in 2..n + 1 : i - 1 \in 1..n /\ u.list[i] = m.list[i - 1]
    <3> SUFFICES ASSUME NEW i \in 2..n + 1
                 PROVE  i - 1 \in 1..n /\ u.list[i] = m.list[i - 1]
      OBVIOUS
    <3>1. i - 1 \in 1..n /\ (i - 1) + 1 = i
      BY <1>1
    <3>2. QED
      BY <2>3, <3>1
  <2>5. \A i \in 1..n + 1 : i = 1 \/ i \in 2..n + 1
    BY <1>1
  <2>6. Entries(u) = Entries(m) \cup {new}
    <3>1. Entries(u) = {u.list[i] : i \in 1..n + 1}
      BY <2>2, <2>3, EntriesOf
    <3>2. \A i \in 1..n : i + 1 \in 1..n + 1
      BY <1>1
    <3>3. 1 \in 1..n + 1
      BY <1>1
    <3> HIDE DEF new, E
    <3>4. Entries(u) \subseteq Entries(m) \cup {new}
      BY <1>2, <2>3, <2>4, <2>5, <3>1
    <3>5. Entries(m) \cup {new} \subseteq Entries(u)
      BY <1>2, <2>3, <3>1, <3>2, <3>3
    <3>6. QED
      BY <3>4, <3>5
  <2>7. \A x \in Entries(m) : x.addr # w
    BY <1>4, <1>7 DEF WordsIn
  <2>8. OnePerWord(u.list)
    <3> SUFFICES ASSUME NEW i \in 1..n + 1, NEW j \in 1..n + 1,
                        u.list[i].addr = u.list[j].addr
                 PROVE  i = j
      BY <2>3 DEF OnePerWord
    <3>1. \A p \in 2..n + 1 : u.list[p] \in Entries(m)
      BY <1>2, <2>4
    <3>2. u.list[1].addr = w
      BY <2>3
    <3>3. CASE i = 1 \/ j = 1
      BY <2>5, <2>7, <3>1, <3>2, <3>3
    <3>4. CASE i # 1 /\ j # 1
      <4>1. i - 1 \in 1..n /\ j - 1 \in 1..n /\ m.list[i - 1].addr = m.list[j - 1].addr
        BY <2>4, <2>5, <3>4
      <4>2. i - 1 = j - 1
        BY <1>1, <4>1 DEF OnePerWord
      <4>3. QED
        BY <4>2
    <3>5. QED
      BY <3>3, <3>4
  <2>9. WordsIn(u) = WordsIn(m) \cup {w}
    <3>1. new.addr = w
      OBVIOUS
    <3> HIDE DEF new, E
    <3>2. QED
      BY <2>6, <3>1, Zenon DEF WordsIn
  <2>10. Cardinality(WordsIn(u)) = Cardinality(WordsIn(m)) + 1 /\ Cardinality(WordsIn(m)) \in Nat
    BY <1>1, <1>4, <1>7, <2>9, EntriesOf, FS_AddElement, FS_CardinalityType
  <2>11. Sound(u, E)
    <3>1. u.size <= Cardinality(WordsIn(u))
      BY <1>1, <2>2, <2>10
    <3> HIDE DEF E
    <3>2. QED
      BY <1>5, <2>2, <2>8, <3>1
  <2>12. QED
    BY <1>4, <1>7, <2>6, <2>7, <2>11 DEF u, Registers
<1>8. CASE old = {} /\ ~(m.size < SyncmapSize)
  <2>1. u = m
    BY <1>8 DEF addSyncLine
  <2> HIDE DEF u, old
  <2>2. QED
    BY <1>4, <1>8, <2>1 DEF u
<1>9. QED
  BY <1>6, <1>7, <1>8

\* With room for every word there is, a map is never full for a new one.
LEMMA RoomLeft ==
  ASSUME NEW A, IsFiniteSet(A), SyncmapSize \in Nat, Cardinality(A) <= SyncmapSize,
         NEW T, NEW m, Sound(m, [addr : A, epoch : T]), NEW w \in A, w \notin WordsIn(m)
  PROVE  m.size < SyncmapSize
<1>1. /\ m \in [list : Seq([addr : A, epoch : T]), size : Int]
      /\ m.size <= Cardinality(WordsIn(m))
  BY DEF Sound
<1>2. Entries(m) \subseteq [addr : A, epoch : T] /\ IsFiniteSet(WordsIn(m))
  BY <1>1, EntriesOf
<1>3. WordsIn(m) \cup {w} \subseteq A
  BY <1>2 DEF WordsIn
<1>4. /\ Cardinality(WordsIn(m) \cup {w}) = Cardinality(WordsIn(m)) + 1
      /\ Cardinality(WordsIn(m)) \in Nat
  BY <1>2, FS_AddElement, FS_CardinalityType
<1>5. Cardinality(WordsIn(m) \cup {w}) <= Cardinality(A) /\ Cardinality(A) \in Nat
  BY <1>3, FS_Subset, FS_CardinalityType
<1>6. QED
  BY <1>1, <1>4, <1>5
----------------------------------------------------------------------------
(***************************************************************************)
(* The life of a map.                                                      *)
(***************************************************************************)
MapInv == TypeOK /\ Sound(map, Entry)

\* A map that is empty is sound, and a release or the departure of a block
\* leaves a sound map, full or not.
LEMMA MapInvStep == Spec => []MapInv
<1>1. Init => MapInv
  <2> SUFFICES ASSUME Init PROVE MapInv
    OBVIOUS
  <2>1. map.list = <<>> /\ map.size = 0 /\ map \in [list : Seq(Entry), size : Int]
    BY DEF Init, EmptyMap
  <2>2. Entries(map) = {} /\ WordsIn(map) = {}
    <3>1. Entries(map) = {map.list[i] : i \in DOMAIN map.list}
      BY <2>1, EntriesOf
    <3>2. QED
      BY <2>1, <3>1 DEF WordsIn
  <2>3. Sound(map, Entry)
    BY <2>1, <2>2, FS_EmptySet DEF Sound, OnePerWord
  <2>4. QED
    BY <2>1, <2>3, EpochAssumption DEF MapInv, TypeOK, Init
<1>2. MapInv /\ [Next]_vars => MapInv'
  <2> SUFFICES ASSUME MapInv, [Next]_vars PROVE MapInv'
    OBVIOUS
  <2> USE EpochAssumption DEF MapInv
  <2>1. ASSUME NEW w \in Word, Release(w) PROVE MapInv'
    <3>1. epoch' \in 1..MaxEpoch /\ epoch' \in 0..MaxEpoch
      BY <2>1 DEF Release, TypeOK
    <3>2. Sound(map', Entry)
      BY <2>1, <3>1, AddFacts DEF Release, Entry
    <3>3. live' \in SUBSET Entry
      BY <2>1, <3>1 DEF Release, TypeOK, Entry
    <3>4. QED
      BY <3>1, <3>2, <3>3 DEF TypeOK, Sound
  <2>2. ASSUME NEW w \in Word, releasePersist(w) PROVE MapInv'
    <3>1. PICK e \in searchSyncMap(map, WordsOf(w)) :
            /\ map' = deleteLowerFromSyncMap(deleteFromSyncMap(map, WordsOf(w)), e)
            /\ live' = {x \in live : x.addr \notin WordsOf(w) /\ x.epoch >= e}
            /\ UNCHANGED epoch
      BY <2>2 DEF releasePersist
    <3>2. Sound(map', Entry)
      BY <3>1, DeleteWordsFacts, DeleteLowerFacts
    <3>3. live' \in SUBSET Entry
      BY <3>1 DEF TypeOK
    <3>4. QED
      BY <3>1, <3>2, <3>3 DEF TypeOK, Sound
  <2>3. CASE UNCHANGED vars
    BY <2>3 DEF vars, TypeOK
  <2>4. QED
    BY <2>1, <2>2, <2>3 DEF Next
<1>3. QED
  BY <1>1, <1>2, PTL DEF Spec

\* The list and the counter of a map, the epoch and the history keep their
\* types.
THEOREM TypeCorrect == Spec => []TypeOK
<1>1. MapInv => TypeOK
  BY DEF MapInv
<1>2. QED
  BY <1>1, MapInvStep, PTL

\* A map never holds two entries of one word: addSyncLine overwrites the first
\* match, and the deletion loops do not duplicate what they leave linked.
THEOREM OneEntry == Spec => []OneEntryPerWord
<1>1. MapInv => OneEntryPerWord
  BY DEF MapInv, Sound, OnePerWord, OneEntryPerWord
<1>2. QED
  BY <1>1, MapInvStep, PTL

\* SYNCMAP_SIZE leaves room for every word that is released.
Roomy == IsFiniteSet(Word) /\ SyncmapSize \in Nat /\ Cardinality(Word) <= SyncmapSize

\* What the deletion loops leave behind by mistake is older than everything
\* that is there by right.
LiveInv ==
  /\ live \subseteq Entries(map)
  /\ \A x, y \in Entries(map) : x.epoch = y.epoch => x = y
  /\ \A x \in Entries(map) : x.epoch <= epoch
  /\ \A x \in Entries(map) \ live, y \in live : x.epoch < y.epoch

LEMMA LiveInvStep == Roomy => (Spec => []LiveInv)
<1> SUFFICES ASSUME Roomy PROVE Spec => []LiveInv
  OBVIOUS
<1>1. Init => LiveInv
  <2> SUFFICES ASSUME Init PROVE LiveInv
    OBVIOUS
  <2>1. map.list = <<>> /\ map \in [list : Seq({}), size : Int]
    BY DEF Init, EmptyMap
  <2>2. Entries(map) = {}
    BY <2>1, EntriesOf
  <2>3. QED
    BY <2>2 DEF LiveInv, Init
<1>2. MapInv /\ LiveInv /\ [Next]_vars => LiveInv'
  <2> SUFFICES ASSUME MapInv, LiveInv, [Next]_vars PROVE LiveInv'
    OBVIOUS
  <2>1. Entries(map) \subseteq Entry /\ live \subseteq Entries(map)
    BY EntriesOf DEF MapInv, Sound, LiveInv
  <2>2. ASSUME NEW w \in Word, Release(w) PROVE LiveInv'
    <3> DEFINE new == [addr |-> w, epoch |-> epoch']
    <3>1. epoch \in Nat /\ epoch' = epoch + 1 /\ epoch' \in 1..MaxEpoch
      BY <2>2, EpochAssumption DEF Release, MapInv, TypeOK
    <3>2. w \in WordsIn(map) \/ map.size < SyncmapSize
      BY RoomLeft DEF Roomy, MapInv, Entry
    <3>3. Entries(map)' = {x \in Entries(map) : x.addr # w} \cup {new}
      <4>1. map' = addSyncLine(map, w, epoch')
        BY <2>2 DEF Release
      <4>2. Sound(map, [addr : Word, epoch : 1..MaxEpoch])
        BY DEF MapInv, Entry
      <4> DEFINE e == epoch'
      <4>3. e \in 1..MaxEpoch
        BY <3>1
      <4> HIDE DEF e
      <4>4. Registers(map, addSyncLine(map, w, e), w, e)
        BY <3>2, <4>2, <4>3, AddFacts
      <4>5. Entries(map)' = Entries(map')
        BY DEF Entries
      <4>6. QED
        BY <4>1, <4>4, <4>5 DEF e, Registers
    <3>4. live' = {x \in live : x.addr # w} \cup {new}
      BY <2>2 DEF Release
    <3>5. new.epoch = epoch + 1
      BY <3>1
    <3> HIDE DEF new
    <3>6. \A x \in Entries(map) : x.epoch \in Nat /\ x.epoch < epoch + 1
      BY <2>1, <3>1 DEF LiveInv, Entry
    <3>7. QED
      BY <3>1, <3>3, <3>4, <3>5, <3>6 DEF LiveInv
  <2>3. ASSUME NEW w \in Word, releasePersist(w) PROVE LiveInv'
    <3>1. PICK e \in searchSyncMap(map, WordsOf(w)) :
            /\ map' = deleteLowerFromSyncMap(deleteFromSyncMap(map, WordsOf(w)), e)
            /\ live' = {x \in live : x.addr \notin WordsOf(w) /\ x.epoch >= e}
            /\ UNCHANGED epoch
      BY <2>3 DEF releasePersist
    <3>2. /\ \A x \in Entries(map) : x.epoch \in Nat
          /\ \A x \in Entries(map) : x.addr \in WordsOf(w) => x.epoch <= e
      BY <2>1, <3>1 DEF searchSyncMap, Entry
    <3>3. PICK top \in Entries(map) : top.addr \in WordsOf(w) /\ top.epoch = e
      BY <3>1 DEF searchSyncMap
    <3> DEFINE m == deleteFromSyncMap(map, WordsOf(w))
    <3>4. /\ Sound(m, Entry) /\ Entries(m) \subseteq Entries(map)
          /\ \A x \in Entries(map) : x.addr \notin WordsOf(w) => x \in Entries(m)
      BY DeleteWordsFacts DEF MapInv
    <3>5. /\ Entries(map') \subseteq Entries(m)
          /\ \A x \in Entries(m) : ~(x.epoch < e) => x \in Entries(map')
      BY <3>1, <3>4, DeleteLowerFacts
    <3> HIDE DEF m
    <3>6. Entries(map)' = Entries(map')
      BY DEF Entries
    <3>7. Entries(map)' \subseteq Entries(map)
      BY <3>4, <3>5, <3>6
    <3>8. live' \subseteq Entries(map)'
      BY <2>1, <3>1, <3>2, <3>3, <3>4, <3>5, <3>6
    <3>9. ASSUME NEW x \in Entries(map)' \ live', NEW y \in live' PROVE x.epoch < y.epoch
      <4>1. y \in live /\ y.addr \notin WordsOf(w) /\ y.epoch >= e /\ y.epoch \in Nat
        BY <2>1, <3>1, <3>2
      <4>2. y.epoch # e
        BY <2>1, <3>3, <4>1 DEF LiveInv
      <4>3. CASE x \notin live
        BY <3>7, <3>9, <4>1, <4>3 DEF LiveInv
      <4>4. CASE x \in live
        <5>1. x.addr \in WordsOf(w) \/ ~(x.epoch >= e)
          BY <3>1, <3>9, <4>4
        <5>2. x.epoch <= e
          BY <2>1, <3>2, <3>3, <4>4, <5>1
        <5>3. QED
          BY <2>1, <3>2, <3>3, <4>1, <4>2, <4>4, <5>2
      <4>5. QED
        BY <4>3, <4>4
    <3>10. QED
      BY <3>1, <3>7, <3>8, <3>9 DEF LiveInv
  <2>4. CASE UNCHANGED vars
    BY <2>4 DEF vars, LiveInv, Entries
  <2>5. QED
    BY <2>2, <2>3, <2>4 DEF Next
<1>3. QED
  BY <1>1, <1>2, MapInvStep, PTL DEF Spec

\* Whatever the deletion loops do to the links, and however long the list is,
\* no release that is still to be ordered is cut off.
THEOREM NothingCutOff == Roomy => (Spec => []NothingLost)
<1>1. LiveInv => NothingLost
  BY DEF LiveInv, NothingLost
<1>2. QED
  BY <1>1, LiveInvStep, PTL

\* releasePersist looks a departing block up under the epoch of its newest
\* release: the entries left behind by mistake never win.
THEOREM NewestWins == Roomy => (Spec => []NewestFound)
<1>1. MapInv /\ LiveInv => NewestFound
  <2> SUFFICES ASSUME MapInv, LiveInv, NEW w \in Word
               PROVE  LET due == {x.epoch : x \in {y \in live : y.addr \in WordsOf(w)}} IN
                      due # {} =>
                        searchSyncMap(map, WordsOf(w)) = {e \in due : \A d \in due : d <= e}
    BY DEF NewestFound
  <2> DEFINE due == {x.epoch : x \in {y \in live : y.addr \in WordsOf(w)}}
             hit == {x.epoch : x \in {y \in Entries(map) : y.addr \in WordsOf(w)}}
  <2>1. Entries(map) \subseteq Entry /\ live \subseteq Entries(map)
    BY EntriesOf DEF MapInv, Sound, LiveInv
  <2>2. hit \subseteq Nat /\ due \subseteq hit
    BY <2>1 DEF Entry
  <2>3. \A d \in due, e \in hit : e \in due \/ e < d
    BY <2>1 DEF LiveInv
  <2>4. searchSyncMap(map, WordsOf(w)) = {e \in hit : \A d \in hit : d <= e}
    BY DEF searchSyncMap
  <2> HIDE DEF due, hit
  <2>5. due # {} => {e \in hit : \A d \in hit : d <= e} = {e \in due : \A d \in due : d <= e}
    <3> SUFFICES ASSUME NEW d \in due
                 PROVE  {e \in hit : \A f \in hit : f <= e} = {e \in due : \A f \in due : f <= e}
      OBVIOUS
    <3>1. ASSUME NEW e \in hit, \A f \in hit : f <= e PROVE e \in due
      <4>1. d <= e /\ ~(e < d)
        BY <2>2, <3>1
      <4>2. QED
        BY <2>3, <4>1
    <3>2. ASSUME NEW e \in due, \A f \in due : f <= e, NEW f \in hit PROVE f <= e
      <4>1. f \in due \/ f < e
        BY <2>3
      <4>2. QED
        BY <2>2, <3>2, <4>1
    <3>3. QED
      BY <2>2, <3>1, <3>2
  <2>6. QED
    BY <2>4, <2>5 DEF due
<1>2. QED
  BY <1>1, MapInvStep, LiveInvStep, PTL
=============================================================================
