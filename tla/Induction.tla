------------------------------ MODULE Induction ------------------------------
(***************************************************************************)
(* Induction over the natural numbers and the run of a loop, stated about  *)
(* sets and functions, so that the provers can instantiate them.  All of   *)
(* it comes from the fact that < is well-founded on Nat.                   *)
(***************************************************************************)
EXTENDS Integers, WellFoundedInduction, TLAPS

\* A set of natural numbers that is not empty has a least element.
LEMMA LeastNumber ==
  ASSUME NEW T, T \subseteq Nat, T # {}
  PROVE  \E x \in T : \A y \in T : x <= y
<1> DEFINE R == {ss \in Nat \X Nat : ss[1] < ss[2]}
<1>1. IsWellFoundedOn(R, Nat)
  BY NatLessThanWellFounded, Zenon DEF OpToRel
<1> HIDE DEF R
<1>2. PICK x \in T : \A y \in T : ~(<<y, x>> \in R)
  BY <1>1, WFMin
<1>3. \A y \in T : ~(y < x)
  BY <1>2 DEF R
<1>4. QED
  BY <1>3

\* Induction from n to n + 1, for membership in a set.
LEMMA NatInduct ==
  ASSUME NEW S, 0 \in S, \A n \in Nat : n \in S => n + 1 \in S
  PROVE  Nat \subseteq S
<1> DEFINE T == Nat \ S
<1>1. SUFFICES ASSUME T # {} PROVE FALSE
  OBVIOUS
<1>2. PICK x \in T : \A y \in T : x <= y
  BY <1>1, LeastNumber
<1>3. x \in Nat /\ x # 0 /\ x - 1 \in Nat /\ x - 1 \notin T
  BY <1>2
<1>4. QED
  BY <1>3

\* The same up to a bound.
LEMMA BoundedInduction ==
  ASSUME NEW n \in Nat, NEW S, 0 \in S, \A i \in 1..n : i - 1 \in S => i \in S
  PROVE  0..n \subseteq S
<1> DEFINE T == S \cup {i \in Nat : i > n}
<1>1. 0 \in T /\ \A i \in Nat : i \in T => i + 1 \in T
  <2> SUFFICES ASSUME NEW i \in Nat, i \in T, i + 1 <= n PROVE i + 1 \in S
    OBVIOUS
  <2>1. i + 1 \in 1..n /\ (i + 1) - 1 = i
    OBVIOUS
  <2>2. QED
    BY <2>1
<1>2. Nat \subseteq T
  <2> HIDE DEF T
  <2> QED BY <1>1, NatInduct
<1>3. QED
  BY <1>2

\* f is what a loop of n turns computes that starts in x0, F[i] being its i-th
\* turn.
IsRun(f, x0, F, n) == f[0] = x0 /\ \A i \in 1..n : f[i] = F[i][f[i - 1]]

RunSet(S, x0, F, n) == {m \in 0..n : \E f \in [0..m -> S] : IsRun(f, x0, F, m)}

\* Such a loop has a run.
LEMMA RunExists ==
  ASSUME NEW S, NEW x0 \in S, NEW n \in Nat, NEW F, \A i \in 1..n : F[i] \in [S -> S]
  PROVE  \E f \in [0..n -> S] : IsRun(f, x0, F, n)
<1>1. 0 \in RunSet(S, x0, F, n)
  <2> DEFINE f == [i \in 0..0 |-> x0]
  <2>1. f \in [0..0 -> S] /\ IsRun(f, x0, F, 0)
    BY DEF IsRun
  <2> HIDE DEF f
  <2>2. QED
    BY <2>1 DEF RunSet
<1>2. ASSUME NEW m \in 1..n, m - 1 \in RunSet(S, x0, F, n)
      PROVE  m \in RunSet(S, x0, F, n)
  <2>1. PICK f \in [0..m - 1 -> S] : IsRun(f, x0, F, m - 1)
    BY <1>2 DEF RunSet
  <2> DEFINE g == [i \in 0..m |-> IF i < m THEN f[i] ELSE F[m][f[m - 1]]]
  <2>2. g \in [0..m -> S]
    BY <2>1
  <2>3. IsRun(g, x0, F, m)
    BY <2>1 DEF IsRun
  <2> HIDE DEF g
  <2>4. QED
    BY <2>2, <2>3 DEF RunSet
<1>3. n \in RunSet(S, x0, F, n)
  BY <1>1, <1>2, BoundedInduction
<1>4. QED
  BY <1>3 DEF RunSet

\* The values of a sequence that starts in x0 and goes on by F, up to n.
GoesOn(r, S, x0, F, n) ==
  r \in [0..n -> S] /\ r[0] = x0 /\ \A i \in 1..n : r[i] = F[r[i - 1]]

\* Two of them agree where both are defined.
LEMMA PrefixesAgree ==
  ASSUME NEW S, NEW x0 \in S, NEW F \in [S -> S], NEW n \in Nat, NEW r, NEW q,
         GoesOn(r, S, x0, F, n), GoesOn(q, S, x0, F, n + 1)
  PROVE  q[n] = r[n]
<1> DEFINE T == {i \in 0..n : q[i] = r[i]}
<1>1. 0 \in T
  BY DEF GoesOn
<1>2. ASSUME NEW i \in 1..n, i - 1 \in T PROVE i \in T
  <2>1. i \in 0..n /\ i \in 1..n + 1
    OBVIOUS
  <2>2. r[i] = F[r[i - 1]] /\ q[i] = F[q[i - 1]]
    BY <2>1 DEF GoesOn
  <2>3. q[i - 1] = r[i - 1]
    BY <1>2
  <2>4. QED
    BY <2>1, <2>2, <2>3
<1>3. 0..n \subseteq T
  <2> HIDE DEF T
  <2> QED BY <1>1, <1>2, BoundedInduction
<1>4. QED
  BY <1>3

IsSequence(f, x0, F) == f[0] = x0 /\ \A n \in Nat : f[n + 1] = F[f[n]]

\* Such a sequence exists.
LEMMA SequenceExists ==
  ASSUME NEW S, NEW x0 \in S, NEW F \in [S -> S]
  PROVE  \E f \in [Nat -> S] : IsSequence(f, x0, F)
<1>1. \A n \in Nat : \E r : GoesOn(r, S, x0, F, n)
  <2> SUFFICES ASSUME NEW n \in Nat PROVE \E r : GoesOn(r, S, x0, F, n)
    OBVIOUS
  <2> DEFINE G == [i \in 1..n |-> F]
  <2>1. \A i \in 1..n : G[i] = F /\ G[i] \in [S -> S]
    OBVIOUS
  <2> HIDE DEF G
  <2>2. PICK r \in [0..n -> S] : IsRun(r, x0, G, n)
    BY <2>1, RunExists
  <2>3. GoesOn(r, S, x0, F, n)
    BY <2>1, <2>2 DEF IsRun, GoesOn
  <2>4. QED
    BY <2>3
<1> DEFINE R(n) == CHOOSE r : GoesOn(r, S, x0, F, n)
           f == [n \in Nat |-> R(n)[n]]
<1>2. \A n \in Nat : GoesOn(R(n), S, x0, F, n)
  BY <1>1
<1> HIDE DEF R
<1>3. \A n \in Nat : R(n)[n] \in S
  <2> SUFFICES ASSUME NEW n \in Nat PROVE R(n)[n] \in S
    OBVIOUS
  <2>1. R(n) \in [0..n -> S] /\ n \in 0..n
    BY <1>2 DEF GoesOn
  <2>2. QED
    BY <2>1
<1>4. R(0)[0] = x0
  BY <1>2 DEF GoesOn
<1>5. \A n \in Nat : R(n + 1)[n + 1] = F[R(n)[n]]
  <2> SUFFICES ASSUME NEW n \in Nat PROVE R(n + 1)[n + 1] = F[R(n)[n]]
    OBVIOUS
  <2>1. n + 1 \in Nat /\ n + 1 \in 1..n + 1 /\ (n + 1) - 1 = n
    OBVIOUS
  <2>2. GoesOn(R(n), S, x0, F, n) /\ GoesOn(R(n + 1), S, x0, F, n + 1)
    BY <1>2, <2>1
  <2>3. R(n + 1)[n] = R(n)[n]
    BY <2>2, PrefixesAgree
  <2>4. R(n + 1)[n + 1] = F[R(n + 1)[n]]
    BY <2>1, <2>2 DEF GoesOn
  <2>5. QED
    BY <2>3, <2>4
<1>6. f \in [Nat -> S] /\ IsSequence(f, x0, F)
  <2>1. f \in [Nat -> S]
    BY <1>3
  <2>2. f[0] = x0
    BY <1>4
  <2>3. \A n \in Nat : f[n + 1] = F[f[n]]
    BY <1>5
  <2> HIDE DEF f
  <2>4. QED
    BY <2>1, <2>2, <2>3 DEF IsSequence
<1>7. QED
  <2> HIDE DEF f
  <2> QED BY <1>6
==============================================================================
