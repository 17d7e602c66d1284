------------------------ MODULE MesiDirectoryProofs ------------------------
(***************************************************************************)
(* CoherenceInv is inductive, for every topology, capacity and policy:     *)
(* each routine of MesiLine maps a good block to a good block, every stage *)
(* of an access is made of them, and an access is the sequence of its      *)
(* stages.                                                                 *)
(***************************************************************************)
EXTENDS MesiDirectory, TLAPS

USE TopologyAssumption, PolicyAssumption
----------------------------------------------------------------------------
(***************************************************************************)
(* The routines, on one block.                                             *)
(***************************************************************************)
Good(x) == x \in LineState /\ LineInv(x)

LEMMA LineStateFields ==
  ASSUME NEW x \in LineState
  PROVE  /\ x.l1 \in [Core -> St] /\ x.l2 \in [Cache -> St]
         /\ x.dir \in DirSt /\ x.sharers \in SUBSET Cache
BY DEF LineState

LEMMA TargetsType ==
  ASSUME NEW x \in LineState
  PROVE  Targets(x) \in SUBSET Cache /\ Owner(x.sharers) \in Cache
BY DEF LineState, Targets, Owner

LEMMA DirWriteBackFields ==
  ASSUME NEW x \in LineState
  PROVE  /\ DirWriteBack(x) \in LineState
         /\ DirWriteBack(x).l1 = x.l1 /\ DirWriteBack(x).l2 = x.l2
         /\ DirWriteBack(x).sharers = {} /\ DirWriteBack(x).dir \in {x.dir, "I"}
BY DEF LineState, DirWriteBack, St, DirSt

LEMMA InvalidGood == Good(Invalid)
BY DEF Good, Invalid, LineState, LineInv, L1OwnerBacked, L2OwnerRegistered,
       L2SharerTracked, St, DirSt, Owned

\* Every last-level copy is a target of the directory.
LEMMA CopiesAreTargets ==
  ASSUME NEW x, Good(x), NEW k \in Cache, x.l2[k] # "I"
  PROVE  k \in Targets(x)
<1>1. x.l2[k] \in St
  BY DEF Good, LineState
<1>2. CASE x.l2[k] \in Owned
  <2>1. x.dir \in Owned /\ x.sharers = {k}
    BY <1>2 DEF Good, LineInv, L2OwnerRegistered
  <2>2. Owner(x.sharers) = k
    BY <2>1 DEF Owner
  <2>3. QED
    BY <2>1, <2>2 DEF Targets
<1>3. CASE x.l2[k] = "S"
  <2>1. x.dir \in {"S", "B"} /\ (x.dir = "S" => k \in x.sharers)
    BY <1>3 DEF Good, LineInv, L2SharerTracked
  <2>2. QED
    BY <2>1 DEF Targets, Owned
<1>4. QED
  BY <1>1, <1>2, <1>3 DEF St, Owned

LEMMA WriteBackGood ==
  ASSUME NEW x, Good(x), NEW c \in Core, x.l1[c] \in Owned
  PROVE  Good(WriteBack(x, c))
<1> DEFINE k == Parent[c]
           y == WriteBack(x, c)
<1>1. k \in Cache /\ x.l2[k] \in Owned /\ x.dir \in Owned /\ x.sharers = {k}
  BY DEF Good, LineInv, L1OwnerBacked, L2OwnerRegistered
<1>2. \A j \in Cache \ {k} : x.l2[j] = "I"
  BY <1>1 DEF Good, LineState, LineInv, L2OwnerRegistered, L2SharerTracked,
     St, Owned
<1>3. y = [DirWriteBack(x) EXCEPT !.l1[c] = "I", !.l2[k] = "I"]
  BY <1>1 DEF WriteBack, Owned
<1>4. /\ y.l1 = [x.l1 EXCEPT ![c] = "I"] /\ y.l2 = [x.l2 EXCEPT ![k] = "I"]
      /\ y \in LineState
  <2> DEFINE w == DirWriteBack(x)
  <2>1. w \in LineState /\ w.l1 = x.l1 /\ w.l2 = x.l2
    BY DirWriteBackFields DEF Good
  <2>2. y = [w EXCEPT !.l1[c] = "I", !.l2[k] = "I"]
    BY <1>3
  <2> HIDE DEF w, y
  <2>3. QED
    BY <1>1, <2>1, <2>2 DEF LineState, St
<1>5. \A j \in Cache : y.l2[j] = "I"
  BY <1>2, <1>4 DEF Good, LineState
<1>6. \A d \in Core : y.l1[d] \notin Owned
  BY <1>4 DEF Good, LineState, LineInv, L1OwnerBacked, Owned
<1>7. QED
  BY <1>4, <1>5, <1>6 DEF Good, LineInv, L1OwnerBacked, L2OwnerRegistered,
     L2SharerTracked, Owned

\* A level-0 line may be dropped silently: nothing depends on its presence.
LEMMA DropGood ==
  ASSUME NEW x, Good(x), NEW c \in Core
  PROVE  Good([x EXCEPT !.l1[c] = "I"])
BY DEF Good, LineState, LineInv, L1OwnerBacked, L2OwnerRegistered,
       L2SharerTracked, St, DirSt, Owned

LEMMA InvalChildrenFields ==
  ASSUME NEW x \in LineState, NEW k \in Cache
  PROVE  LET y == InvalChildren(x, k) IN
         /\ y \in LineState
         /\ y.l2 = x.l2 /\ y.dir = x.dir /\ y.sharers = x.sharers
         /\ \A c \in Core : y.l1[c] = IF Parent[c] = k THEN "I" ELSE x.l1[c]
BY DEF LineState, InvalChildren, St

LEMMA L2EvictGood ==
  ASSUME NEW x, Good(x), NEW k \in Cache, x.l2[k] # "I"
  PROVE  Good(L2Evict(x, k))
<1> DEFINE y == L2Evict(x, k)
<1>1. CASE x.l2[k] \in Owned
  <2> DEFINE u == InvalChildren(x, k)
             w == DirWriteBack(u)
  <2>1. x.dir \in Owned /\ x.sharers = {k}
    BY <1>1 DEF Good, LineInv, L2OwnerRegistered
  <2>2. \A j \in Cache \ {k} : x.l2[j] = "I"
    BY <2>1 DEF Good, LineState, LineInv, L2OwnerRegistered,
       L2SharerTracked, St, Owned
  <2>3. /\ w \in LineState /\ w.l2 = x.l2
        /\ \A c \in Core : w.l1[c] = IF Parent[c] = k THEN "I" ELSE x.l1[c]
    <3>1. /\ u \in LineState /\ u.l2 = x.l2
          /\ \A c \in Core : u.l1[c] = IF Parent[c] = k THEN "I" ELSE x.l1[c]
      BY InvalChildrenFields DEF Good
    <3> HIDE DEF u
    <3>2. QED
      BY <3>1, DirWriteBackFields
  <2>4. y = [w EXCEPT !.l2[k] = "I"]
    BY <1>1 DEF L2Evict
  <2> HIDE DEF u, w, y
  <2>5. y \in LineState /\ y.l1 = w.l1 /\ y.l2 = [x.l2 EXCEPT ![k] = "I"]
    BY <2>3, <2>4 DEF LineState, St
  <2>6. \A j \in Cache : y.l2[j] = "I"
    BY <2>2, <2>5 DEF Good, LineState
  <2>7. \A c \in Core : y.l1[c] \notin Owned
    BY <2>2, <2>3, <2>5 DEF Good, LineInv, L1OwnerBacked, Owned
  <2>8. QED
    BY <2>5, <2>6, <2>7 DEF Good, LineInv, L1OwnerBacked, L2OwnerRegistered,
       L2SharerTracked, Owned, y
<1>2. CASE x.l2[k] \notin Owned
  <2>1. y = [x EXCEPT !.l2[k] = "I"]
    BY <1>2 DEF L2Evict
  <2>2. QED
    BY <1>2, <2>1 DEF Good, LineState, LineInv, L1OwnerBacked,
       L2OwnerRegistered, L2SharerTracked, St, DirSt, Owned
<1>3. QED
  BY <1>1, <1>2

LEMMA DirEvictGood ==
  ASSUME NEW x, Good(x)
  PROVE  Good(DirEvict(x))
<1>1. \A k \in Cache : x.l2[k] # "I" => k \in Targets(x)
  BY CopiesAreTargets
<1>2. QED
  BY <1>1 DEF Good, LineState, LineInv, L1OwnerBacked, L2OwnerRegistered,
       L2SharerTracked, DirEvict, Inval, St, DirSt, Owned

LEMMA InvalFields ==
  ASSUME NEW x \in LineState, NEW K \in SUBSET Cache
  PROVE  LET y == Inval(x, K) IN
         /\ y \in LineState /\ y.dir = x.dir /\ y.sharers = x.sharers
         /\ \A k \in Cache : y.l2[k] = IF k \in K THEN "I" ELSE x.l2[k]
         /\ \A c \in Core : y.l1[c] =
              IF Parent[c] \in K /\ x.l2[Parent[c]] # "I" THEN "I" ELSE x.l1[c]
BY DEF LineState, Inval, St

LEMMA ShareChildrenFields ==
  ASSUME NEW x \in LineState, NEW k \in Cache
  PROVE  LET y == ShareChildren(x, k) IN
         /\ y \in LineState
         /\ y.l2 = x.l2 /\ y.dir = x.dir /\ y.sharers = x.sharers
         /\ \A c \in Core : y.l1[c] =
              IF Parent[c] = k /\ x.l1[c] \in Owned THEN "S" ELSE x.l1[c]
BY DEF LineState, ShareChildren, St

LEMMA ShareFields ==
  ASSUME NEW x \in LineState, NEW k \in Cache
  PROVE  LET y == Share(x, k) IN
         /\ y \in LineState /\ y.dir = x.dir /\ y.sharers = x.sharers
         /\ \A j \in Cache : y.l2[j] =
              IF j = k /\ x.l2[k] \in Owned THEN "S" ELSE x.l2[j]
         /\ \A c \in Core : y.l1[c] =
              IF Parent[c] = k /\ x.l2[k] \in Owned /\ x.l1[c] \in Owned
              THEN "S" ELSE x.l1[c]
<1>1. CASE x.l2[k] \in Owned
  <2> DEFINE u == ShareChildren(x, k)
  <2>1. /\ u \in LineState /\ u.l2 = x.l2 /\ u.dir = x.dir /\ u.sharers = x.sharers
        /\ \A c \in Core : u.l1[c] =
              IF Parent[c] = k /\ x.l1[c] \in Owned THEN "S" ELSE x.l1[c]
    BY ShareChildrenFields
  <2>2. Share(x, k) = [u EXCEPT !.l2[k] = "S"]
    BY <1>1 DEF Share
  <2> HIDE DEF u
  <2>3. QED
    BY <1>1, <2>1, <2>2 DEF LineState, St
<1>2. CASE x.l2[k] \notin Owned
  BY <1>2 DEF Share
<1>3. QED
  BY <1>1, <1>2

LEMMA FrameFields ==
  ASSUME NEW x \in LineState, NEW c \in Core, NEW ph \in St
  PROVE  LET y == Frame(x, c, ph) IN
         /\ y \in LineState /\ y.dir = x.dir /\ y.sharers = x.sharers
         /\ \A d \in Core : y.l1[d] = IF d = c THEN "I" ELSE x.l1[d]
         /\ \A k \in Cache : y.l2[k] =
              IF k = Parent[c] /\ x.l2[k] = "I" THEN ph ELSE x.l2[k]
BY DEF LineState, Frame, St

\* Below an owned last-level line nobody else has a last-level copy, and the
\* directory entry names the owner.
LEMMA OwnedIsAlone ==
  ASSUME NEW x, Good(x), NEW k \in Cache, x.l2[k] \in Owned
  PROVE  /\ x.dir \in Owned /\ x.sharers = {k}
         /\ \A j \in Cache \ {k} : x.l2[j] = "I"
         /\ \A c \in Core : x.l1[c] \in Owned => Parent[c] = k
<1>1. x.dir \in Owned /\ x.sharers = {k}
  BY DEF Good, LineInv, L2OwnerRegistered
<1>2. \A j \in Cache \ {k} : x.l2[j] = "I"
  BY <1>1 DEF Good, LineState, LineInv, L2OwnerRegistered, L2SharerTracked,
     St, Owned
<1>3. QED
  BY <1>1, <1>2 DEF Good, LineInv, L1OwnerBacked, Owned

LEMMA WriteFillGood ==
  ASSUME NEW x, Good(x), NEW c \in Core, NEW ph \in St
  PROVE  Good(WriteFill(x, c, ph))
<1> DEFINE k == Parent[c]
           y == Frame(x, c, ph)
           z == IF x.l2[k] \in Owned THEN InvalChildren(y, k) ELSE DirWrite(y, k)
<1>1. /\ y \in LineState /\ y.dir = x.dir /\ y.sharers = x.sharers
      /\ \A d \in Core : y.l1[d] = IF d = c THEN "I" ELSE x.l1[d]
      /\ \A j \in Cache : y.l2[j] = IF j = k /\ x.l2[j] = "I" THEN ph ELSE x.l2[j]
  BY FrameFields DEF Good
<1>2. /\ z \in LineState /\ z.dir \in Owned /\ z.sharers = {k}
      /\ \A j \in Cache \ {k} : z.l2[j] = "I"
      /\ \A d \in Core \ {c} : z.l1[d] \notin Owned
  <2> HIDE DEF y
  <2>1. CASE x.l2[k] \in Owned
    <3>1. /\ x.dir \in Owned /\ x.sharers = {k}
          /\ \A j \in Cache \ {k} : x.l2[j] = "I"
          /\ \A d \in Core : x.l1[d] \in Owned => Parent[d] = k
      BY <2>1, OwnedIsAlone
    <3>2. z = InvalChildren(y, k)
      BY <2>1
    <3> HIDE DEF z
    <3>3. /\ z \in LineState
          /\ z.l2 = y.l2 /\ z.dir = y.dir /\ z.sharers = y.sharers
          /\ \A d \in Core : z.l1[d] = IF Parent[d] = k THEN "I" ELSE y.l1[d]
      BY <1>1, <3>2, InvalChildrenFields
    <3>4. QED
      BY <1>1, <3>1, <3>3 DEF Owned
  <2>2. CASE x.l2[k] \notin Owned
    <3> DEFINE w == Inval(y, Targets(y))
    <3>1. Targets(y) = Targets(x) /\ Targets(x) \in SUBSET Cache
      BY <1>1, TargetsType DEF Targets, Good
    <3>2. /\ w \in LineState
          /\ \A j \in Cache : w.l2[j] = IF j \in Targets(x) THEN "I" ELSE y.l2[j]
          /\ \A d \in Core : w.l1[d] =
               IF Parent[d] \in Targets(x) /\ y.l2[Parent[d]] # "I" THEN "I" ELSE y.l1[d]
      BY <1>1, <3>1, InvalFields
    <3>3. z = [w EXCEPT !.dir = "M", !.sharers = {k}]
      BY <2>2 DEF DirWrite
    <3> HIDE DEF w, z
    <3>4. /\ z \in LineState /\ z.dir = "M" /\ z.sharers = {k}
          /\ z.l1 = w.l1 /\ z.l2 = w.l2
      <4>1. k \in Cache
        OBVIOUS
      <4> HIDE DEF k
      <4>2. QED
        BY <3>2, <3>3, <4>1 DEF LineState, DirSt, St
    <3>5. \A j \in Cache : x.l2[j] # "I" => j \in Targets(x)
      BY CopiesAreTargets
    <3>6. \A j \in Cache \ {k} : z.l2[j] = "I"
      BY <1>1, <3>2, <3>4, <3>5
    <3>7. ASSUME NEW d \in Core \ {c}
          PROVE  z.l1[d] \notin Owned
      <4>1. CASE x.l1[d] \in Owned
        <5>1. x.l2[Parent[d]] \in Owned
          BY <4>1 DEF Good, LineInv, L1OwnerBacked
        <5>2. Parent[d] # k /\ Parent[d] \in Cache /\ x.l2[Parent[d]] # "I"
          BY <2>2, <5>1 DEF Owned
        <5>3. w.l1[d] = "I"
          BY <1>1, <3>2, <3>5, <5>2
        <5>4. QED
          BY <3>4, <5>3 DEF Owned
      <4>2. CASE x.l1[d] \notin Owned
        BY <1>1, <3>2, <3>4, <4>2 DEF Owned
      <4>3. QED
        BY <4>1, <4>2
    <3>8. QED
      BY <3>4, <3>6, <3>7 DEF Owned
  <2>3. QED
    BY <2>1, <2>2
<1> DEFINE f == [z EXCEPT !.l1[c] = "M", !.l2[k] = "M"]
<1>3. WriteFill(x, c, ph) = f
  BY DEF WriteFill
<1> HIDE DEF y, z
<1>4. /\ f \in LineState /\ f.dir = z.dir /\ f.sharers = z.sharers
      /\ f.l1 = [z.l1 EXCEPT ![c] = "M"] /\ f.l2 = [z.l2 EXCEPT ![k] = "M"]
  BY <1>2 DEF LineState, St
<1> HIDE DEF f
<1>5. L1OwnerBacked(f) /\ L2OwnerRegistered(f) /\ L2SharerTracked(f)
  BY <1>2, <1>4 DEF LineState, L1OwnerBacked, L2OwnerRegistered,
     L2SharerTracked, Owned
<1>6. QED
  BY <1>3, <1>4, <1>5 DEF Good, LineInv

LEMMA DirReadMiss ==
  ASSUME NEW x \in LineState, NEW k \in Cache, x.dir = "I"
  PROVE  LET z == DirRead(x, k) IN
         /\ z \in LineState /\ z.l1 = x.l1 /\ z.l2 = x.l2
         /\ z.dir = "E" /\ z.sharers = {k}
<1>1. DirRead(x, k) = [x EXCEPT !.dir = "E", !.sharers = {k}]
  BY DEF DirRead, Owned
<1> HIDE DEF DirRead
<1>2. QED
  BY <1>1 DEF LineState, St, DirSt

LEMMA DirReadOwned ==
  ASSUME NEW x \in LineState, NEW k \in Cache, x.dir \in Owned
  PROVE  LET z == DirRead(x, k)
             o == Owner(x.sharers)
         IN
         /\ z \in LineState /\ z.dir = "S" /\ z.sharers = x.sharers \cup {k}
         /\ \A j \in Cache : z.l2[j] =
              IF j = o /\ x.l2[o] \in Owned THEN "S" ELSE x.l2[j]
         /\ \A c \in Core : z.l1[c] =
              IF Parent[c] = o /\ x.l2[o] \in Owned /\ x.l1[c] \in Owned
              THEN "S" ELSE x.l1[c]
<1> DEFINE o == Owner(x.sharers)
           u == Share(x, o)
           z == DirRead(x, k)
<1>1. o \in Cache /\ x.sharers \in SUBSET Cache
  BY TargetsType, LineStateFields
<1> HIDE DEF o
<1>2. /\ u \in LineState /\ u.dir = x.dir /\ u.sharers = x.sharers
      /\ \A j \in Cache : u.l2[j] =
           IF j = o /\ x.l2[o] \in Owned THEN "S" ELSE x.l2[j]
      /\ \A c \in Core : u.l1[c] =
           IF Parent[c] = o /\ x.l2[o] \in Owned /\ x.l1[c] \in Owned
           THEN "S" ELSE x.l1[c]
  BY <1>1, ShareFields
<1>3. z = [u EXCEPT !.dir = "S", !.sharers = x.sharers \cup {k}]
  BY DEF DirRead, Owned, o
<1> HIDE DEF u, z
<1>4. /\ z \in LineState /\ z.dir = "S" /\ z.sharers = x.sharers \cup {k}
      /\ z.l1 = u.l1 /\ z.l2 = u.l2
  BY <1>1, <1>2, <1>3 DEF LineState, St, DirSt
<1>5. QED
  BY <1>2, <1>4 DEF z, o

LEMMA DirReadShared ==
  ASSUME NEW x \in LineState, NEW k \in Cache, x.dir \in {"S", "B"}
  PROVE  LET z == DirRead(x, k) IN
         /\ z \in LineState /\ z.l1 = x.l1 /\ z.l2 = x.l2
         /\ z.dir \in {"S", "B"} /\ z.sharers = x.sharers \cup {k}
<1>1. PICK d \in {"S", "B"} :
        DirRead(x, k) = [x EXCEPT !.dir = d, !.sharers = x.sharers \cup {k}]
  <2>1. CASE x.dir = "S"
    BY <2>1 DEF DirRead, Owned
  <2>2. CASE x.dir = "B"
    <3>1. DirRead(x, k) = [x EXCEPT !.sharers = x.sharers \cup {k}]
      BY <2>2 DEF DirRead, Owned
    <3>2. [x EXCEPT !.sharers = x.sharers \cup {k}]
            = [x EXCEPT !.dir = "B", !.sharers = x.sharers \cup {k}]
      BY <2>2 DEF LineState
    <3>3. QED
      BY <3>1, <3>2
  <2>3. QED
    BY <2>1, <2>2
<1> DEFINE z == DirRead(x, k)
<1>2. z = [x EXCEPT !.dir = d, !.sharers = x.sharers \cup {k}]
  BY <1>1
<1> HIDE DEF z
<1>3. /\ z \in LineState /\ z.l1 = x.l1 /\ z.l2 = x.l2
      /\ z.dir \in {"S", "B"} /\ z.sharers = x.sharers \cup {k}
  BY <1>2 DEF LineState, St, DirSt
<1>4. QED
  BY <1>3 DEF z

\* With no owned last-level copy there is no owned level-0 copy either.
LEMMA NoOwner ==
  ASSUME NEW x, Good(x), \A j \in Cache : x.l2[j] \notin Owned
  PROVE  \A d \in Core : x.l1[d] \notin Owned
BY DEF Good, LineInv, L1OwnerBacked

LEMMA SharedHasNoOwner ==
  ASSUME NEW x, Good(x), x.dir \notin Owned
  PROVE  /\ \A j \in Cache : x.l2[j] \notin Owned
         /\ \A d \in Core : x.l1[d] \notin Owned
         /\ x.dir = "I" => \A j \in Cache : x.l2[j] = "I"
<1>1. \A j \in Cache : x.l2[j] \notin Owned
  BY DEF Good, LineInv, L2OwnerRegistered
<1>2. x.dir = "I" => \A j \in Cache : x.l2[j] = "I"
  BY <1>1 DEF Good, LineState, LineInv, L2SharerTracked, St, Owned
<1>3. QED
  BY <1>1, <1>2, NoOwner

\* What the stages of a read must establish before core c is given state st.
ReadReady(z, k, st) ==
  /\ z \in LineState
  /\ \A d \in Core : z.l1[d] \notin Owned
  /\ \A j \in Cache \ {k} :
       /\ z.l2[j] \notin Owned
       /\ z.l2[j] = "S" => z.dir \in {"S", "B"} /\ (z.dir = "S" => j \in z.sharers)
  /\ \/ /\ st = "E" /\ z.dir = "E" /\ z.sharers = {k}
        /\ \A j \in Cache \ {k} : z.l2[j] = "I"
     \/ st = "S" /\ z.dir \in {"S", "B"} /\ (z.dir = "S" => k \in z.sharers)

LEMMA ReadReadyGood ==
  ASSUME NEW z, NEW c \in Core, NEW st \in {"E", "S"}, ReadReady(z, Parent[c], st)
  PROVE  Good([z EXCEPT !.l1[c] = st, !.l2[Parent[c]] = st])
<1> DEFINE k == Parent[c]
           f == [z EXCEPT !.l1[c] = st, !.l2[k] = st]
<1>1. k \in Cache /\ z \in LineState
  BY DEF ReadReady
<1> HIDE DEF k
<1>2. /\ f \in LineState /\ f.dir = z.dir /\ f.sharers = z.sharers
      /\ f.l1 = [z.l1 EXCEPT ![c] = st] /\ f.l2 = [z.l2 EXCEPT ![k] = st]
  BY <1>1 DEF LineState, St
<1> HIDE DEF f
<1>3. \A d \in Core : f.l1[d] = IF d = c THEN st ELSE z.l1[d]
  BY <1>1, <1>2 DEF LineState
<1>4. \A j \in Cache : f.l2[j] = IF j = k THEN st ELSE z.l2[j]
  BY <1>1, <1>2 DEF LineState
<1>5. L1OwnerBacked(f)
  BY <1>1, <1>3, <1>4 DEF k, ReadReady, L1OwnerBacked, Owned
<1>6. L2OwnerRegistered(f)
  BY <1>1, <1>2, <1>4 DEF k, ReadReady, L2OwnerRegistered, Owned
<1>7. L2SharerTracked(f)
  BY <1>1, <1>2, <1>4 DEF k, ReadReady, L2SharerTracked
<1>8. QED
  BY <1>2, <1>5, <1>6, <1>7 DEF Good, LineInv, f, k

LEMMA ReadFillGood ==
  ASSUME NEW x, Good(x), NEW c \in Core, NEW ph \in St
  PROVE  Good(ReadFill(x, c, ph))
<1> DEFINE k == Parent[c]
           y == Frame(x, c, ph)
           z == IF x.l2[k] \in Owned THEN DirRead(ShareChildren(y, k), k)
                ELSE IF x.l2[k] = "S" THEN y ELSE DirRead(y, k)
           st == IF x.l2[k] = "I" /\ z.dir = "E" THEN "E" ELSE "S"
<1>1. k \in Cache
  OBVIOUS
<1>2. ReadFill(x, c, ph) = [z EXCEPT !.l1[c] = st, !.l2[Parent[c]] = st]
  BY DEF ReadFill
<1>3. /\ y \in LineState /\ y.dir = x.dir /\ y.sharers = x.sharers
      /\ \A d \in Core : y.l1[d] = IF d = c THEN "I" ELSE x.l1[d]
      /\ \A j \in Cache : y.l2[j] = IF j = k /\ x.l2[j] = "I" THEN ph ELSE x.l2[j]
  BY FrameFields DEF Good
<1>4. ReadReady(z, k, st)
  <2> HIDE DEF y, k
  <2>1. CASE x.l2[k] \in Owned
    <3> DEFINE u == ShareChildren(y, k)
    <3>1. /\ x.dir \in Owned /\ x.sharers = {k}
          /\ \A j \in Cache \ {k} : x.l2[j] = "I"
          /\ \A d \in Core : x.l1[d] \in Owned => Parent[d] = k
      BY <1>1, <2>1, OwnedIsAlone
    <3>2. /\ u \in LineState /\ u.l2 = y.l2 /\ u.dir = y.dir
          /\ u.sharers = y.sharers
          /\ \A d \in Core : u.l1[d] =
               IF Parent[d] = k /\ y.l1[d] \in Owned THEN "S" ELSE y.l1[d]
      BY <1>1, <1>3, ShareChildrenFields
    <3>3. Owner(u.sharers) = k
      BY <1>3, <3>1, <3>2 DEF Owner
    <3>4. z = DirRead(u, k) /\ st = "S"
      BY <2>1 DEF Owned
    <3> HIDE DEF u, z, st
    <3>4a. u \in LineState /\ u.dir \in Owned
      BY <1>3, <3>1, <3>2
    <3>5. /\ z \in LineState /\ z.dir = "S" /\ z.sharers = u.sharers \cup {k}
          /\ \A j \in Cache : z.l2[j] =
               IF j = k /\ u.l2[k] \in Owned THEN "S" ELSE u.l2[j]
          /\ \A d \in Core : z.l1[d] =
               IF Parent[d] = k /\ u.l2[k] \in Owned /\ u.l1[d] \in Owned
               THEN "S" ELSE u.l1[d]
      BY <1>1, <3>3, <3>4, <3>4a, DirReadOwned
    <3>6. \A d \in Core : z.l1[d] \notin Owned
      BY <1>3, <3>1, <3>2, <3>5 DEF Owned
    <3>7. \A j \in Cache \ {k} : z.l2[j] = "I"
      BY <1>3, <3>1, <3>2, <3>5
    <3>8. QED
      BY <3>4, <3>5, <3>6, <3>7 DEF ReadReady, Owned
  <2>2. CASE x.l2[k] = "S"
    <3>1. x.dir \in {"S", "B"} /\ x.dir \notin Owned
      BY <1>1, <2>2 DEF Good, LineInv, L2SharerTracked, Owned
    <3>2. /\ \A j \in Cache : x.l2[j] \notin Owned
          /\ \A d \in Core : x.l1[d] \notin Owned
      BY <3>1, SharedHasNoOwner
    <3>3. z = y /\ st = "S"
      BY <2>2 DEF Owned
    <3> HIDE DEF z, st
    <3>4. QED
      BY <1>1, <1>3, <2>2, <3>1, <3>2, <3>3
         DEF ReadReady, Good, LineInv, L2SharerTracked, Owned
  <2>3. CASE x.l2[k] = "I"
    <3>1. z = DirRead(y, k) /\ st = IF z.dir = "E" THEN "E" ELSE "S"
      BY <2>3 DEF Owned
    <3> HIDE DEF z, st
    <3>2. CASE x.dir = "I"
      <4>1. /\ \A j \in Cache : x.l2[j] = "I"
            /\ \A d \in Core : x.l1[d] \notin Owned
        BY <3>2, SharedHasNoOwner DEF Owned
      <4>2. /\ z \in LineState /\ z.l1 = y.l1 /\ z.l2 = y.l2
            /\ z.dir = "E" /\ z.sharers = {k}
        BY <1>1, <1>3, <3>1, <3>2, DirReadMiss
      <4>3. QED
        BY <1>3, <3>1, <4>1, <4>2 DEF ReadReady, Owned
    <3>3. CASE x.dir \in Owned
      <4> DEFINE o == Owner(x.sharers)
      <4>1. \A j \in Cache : x.l2[j] \in Owned => j = o /\ j # k /\ x.sharers = {j}
        BY <2>3 DEF Good, LineInv, L2OwnerRegistered, Owner, Owned
      <4>2. \A j \in Cache : x.l2[j] # "S"
        BY <3>3 DEF Good, LineInv, L2SharerTracked, Owned
      <4>3. o \in Cache /\ Owner(y.sharers) = o
        BY <1>3, TargetsType DEF Good
      <4> HIDE DEF o
      <4>4. /\ z \in LineState /\ z.dir = "S" /\ z.sharers = x.sharers \cup {k}
            /\ \A j \in Cache : z.l2[j] =
                 IF j = o /\ y.l2[o] \in Owned THEN "S" ELSE y.l2[j]
            /\ \A d \in Core : z.l1[d] =
                 IF Parent[d] = o /\ y.l2[o] \in Owned /\ y.l1[d] \in Owned
                 THEN "S" ELSE y.l1[d]
        BY <1>1, <1>3, <3>1, <3>3, <4>3, DirReadOwned
      <4>5. \A j \in Cache \ {k} : z.l2[j] \notin Owned
        BY <1>3, <4>1, <4>4 DEF Owned
      <4>6. \A j \in Cache \ {k} : z.l2[j] = "S" => j \in z.sharers
        BY <1>3, <4>1, <4>2, <4>3, <4>4
      <4>7. ASSUME NEW d \in Core
            PROVE  z.l1[d] \notin Owned
        <5>1. CASE x.l1[d] \in Owned
          <6>1. Parent[d] \in Cache /\ x.l2[Parent[d]] \in Owned
            BY <5>1 DEF Good, LineInv, L1OwnerBacked
          <6>2. Parent[d] = o /\ y.l2[o] \in Owned
            BY <1>3, <4>1, <6>1
          <6>3. QED
            BY <4>4, <6>2 DEF Owned
        <5>2. CASE x.l1[d] \notin Owned
          BY <1>3, <4>4, <5>2 DEF Owned
        <5>3. QED
          BY <5>1, <5>2
      <4>8. QED
        BY <1>1, <3>1, <4>4, <4>5, <4>6, <4>7 DEF ReadReady
    <3>4. CASE x.dir \in {"S", "B"}
      <4>1. /\ \A j \in Cache : x.l2[j] \notin Owned
            /\ \A d \in Core : x.l1[d] \notin Owned
        BY <3>4, SharedHasNoOwner DEF Owned
      <4>2. /\ z \in LineState /\ z.l1 = y.l1 /\ z.l2 = y.l2
            /\ z.dir \in {"S", "B"} /\ z.sharers = x.sharers \cup {k}
            /\ z.dir = "S" => x.dir = "S"
        <5>1. z.dir = "S" => x.dir = "S"
          BY <1>1, <1>3, <3>1, <3>4 DEF DirRead, Owned, LineState
        <5>2. QED
          BY <1>1, <1>3, <3>1, <3>4, <5>1, DirReadShared
      <4>3. \A j \in Cache : x.l2[j] = "S" => (x.dir = "S" => j \in x.sharers)
        BY DEF Good, LineInv, L2SharerTracked
      <4>4. \A d \in Core : z.l1[d] \notin Owned
        BY <1>3, <4>1, <4>2 DEF Owned
      <4>5. \A j \in Cache \ {k} : z.l2[j] = x.l2[j]
        BY <1>3, <4>2
      <4>6. QED
        BY <1>1, <1>3, <3>1, <4>1, <4>2, <4>3, <4>4, <4>5 DEF ReadReady
    <3>5. QED
      BY <3>2, <3>3, <3>4 DEF Good, LineState, DirSt, St, Owned
  <2>4. QED
    BY <1>1, <2>1, <2>2, <2>3 DEF Good, LineState, St, Owned
<1>5. st \in {"E", "S"}
  OBVIOUS
<1> HIDE DEF z, st
<1>6. Good([z EXCEPT !.l1[c] = st, !.l2[Parent[c]] = st])
  BY <1>4, <1>5, ReadReadyGood
<1>7. QED
  BY <1>2, <1>6
----------------------------------------------------------------------------
(***************************************************************************)
(* The stages, on all blocks.                                              *)
(***************************************************************************)
GoodLines(L) == L \in [Addr -> LineState] /\ \A a \in Addr : LineInv(L[a])

LEMMA GoodLinesGood ==
  ASSUME NEW L, GoodLines(L), NEW a \in Addr
  PROVE  Good(L[a])
BY DEF GoodLines, Good

\* Replacing one block by a good one keeps all of them good.
LEMMA GoodUpdate ==
  ASSUME NEW L, GoodLines(L), NEW a \in Addr, NEW y, Good(y)
  PROVE  GoodLines([L EXCEPT ![a] = y])
BY DEF GoodLines, Good

LEMMA FlushGood ==
  ASSUME NEW L, GoodLines(L), NEW c \in Core, NEW F \in SUBSET OwnedBy(L, c)
  PROVE  GoodLines(Flush(L, c, F))
<1>1. ASSUME NEW a \in Addr
      PROVE  Good(IF a \in F THEN WriteBack(L[a], c) ELSE L[a])
  <2>1. CASE a \in F
    <3>1. L[a].l1[c] \in Owned
      BY <2>1 DEF OwnedBy
    <3>2. Good(WriteBack(L[a], c))
      BY <3>1, GoodLinesGood, WriteBackGood
    <3>3. QED
      BY <2>1, <3>2
  <2>2. CASE a \notin F
    BY <2>2, GoodLinesGood
  <2>3. QED
    BY <2>1, <2>2
<1> DEFINE g(a) == IF a \in F THEN WriteBack(L[a], c) ELSE L[a]
           M == [a \in Addr |-> g(a)]
<1>2. Flush(L, c, F) = M
  BY DEF Flush
<1>3. \A a \in Addr : Good(g(a))
  BY <1>1
<1> HIDE DEF g
<1>4. GoodLines(M)
  BY <1>3 DEF GoodLines, Good
<1>5. QED
  BY <1>2, <1>4

LEMMA PersistGood ==
  ASSUME NEW L, GoodLines(L), NEW O \in SUBSET Core, NEW a \in Addr,
         NEW P \in Persist(L, O, a)
  PROVE  GoodLines(P) /\ P[a] = L[a]
<1>1. CASE P = L
  BY <1>1
<1>2. CASE \E c \in O : \E F \in SUBSET (OwnedBy(L, c) \ {a}) : P = Flush(L, c, F)
  <2>0. PICK c \in O : \E F \in SUBSET (OwnedBy(L, c) \ {a}) : P = Flush(L, c, F)
    BY <1>2
  <2>1. PICK F \in SUBSET (OwnedBy(L, c) \ {a}) : P = Flush(L, c, F)
    BY <2>0
  <2>2. P[a] = L[a]
    BY <2>1 DEF Flush
  <2>3. GoodLines(P)
    BY <2>1, FlushGood
  <2>4. QED
    BY <2>2, <2>3
<1>3. QED
  BY <1>1, <1>2 DEF Persist

LEMMA BarrierFlushGood ==
  ASSUME NEW L, GoodLines(L), NEW c \in Core, NEW op,
         NEW P \in BarrierFlush(L, c, op)
  PROVE  GoodLines(P)
BY FlushGood DEF BarrierFlush

LEMMA L1EvictGood ==
  ASSUME NEW L, GoodLines(L), NEW c \in Core, NEW v \in InL1(L, c),
         NEW P \in L1Evict(L, c, v)
  PROVE  GoodLines(P)
<1>1. v \in Addr /\ L[v].l1[c] # "I"
  BY DEF InL1
<1>2. CASE P = [L EXCEPT ![v].l1[c] = "I"]
  <2>1. P = [L EXCEPT ![v] = [L[v] EXCEPT !.l1[c] = "I"]]
    BY <1>2
  <2>2. Good([L[v] EXCEPT !.l1[c] = "I"])
    BY <1>1, GoodLinesGood, DropGood
  <2>3. QED
    BY <1>1, <2>1, <2>2, GoodUpdate
<1>3. CASE L[v].l1[c] # "S" /\ \E Q \in Persist(L, {c}, v) :
             P = [Q EXCEPT ![v] = WriteBack(Q[v], c)]
  <2>1. PICK Q \in Persist(L, {c}, v) : P = [Q EXCEPT ![v] = WriteBack(Q[v], c)]
    BY <1>3
  <2>2. GoodLines(Q) /\ Q[v] = L[v]
    BY <1>1, PersistGood
  <2>3. Q[v].l1[c] \in Owned
    BY <1>1, <1>3, <2>2 DEF GoodLines, LineState, St, Owned
  <2>4. Good(WriteBack(Q[v], c))
    BY <1>1, <2>2, <2>3, GoodLinesGood, WriteBackGood
  <2>5. QED
    BY <1>1, <2>1, <2>2, <2>4, GoodUpdate
<1>4. QED
  BY <1>2, <1>3 DEF L1Evict

LEMMA L1ReplaceGood ==
  ASSUME NEW L, GoodLines(L), NEW c \in Core, NEW a, NEW P \in L1Replace(L, c, a)
  PROVE  GoodLines(P)
BY L1EvictGood DEF L1Replace

LEMMA L2ReplaceGood ==
  ASSUME NEW L, GoodLines(L), NEW k \in Cache, NEW a, NEW R \in L2Replace(L, k, a)
  PROVE  GoodLines(R.lines) /\ R.frame \in St
<1>1. CASE R = [lines |-> L, frame |-> "I"]
  BY <1>1 DEF St
<1>2. CASE \E v \in InL2(L, k) : \E P \in Persist(L, Owners(L[v]) \cap Children(k), v) :
             R = [lines |-> [P EXCEPT ![v] = L2Evict(P[v], k)], frame |-> L[v].l2[k]]
  <2>0. PICK v \in InL2(L, k) :
          \E P \in Persist(L, Owners(L[v]) \cap Children(k), v) :
            R = [lines |-> [P EXCEPT ![v] = L2Evict(P[v], k)], frame |-> L[v].l2[k]]
    BY <1>2
  <2>1. PICK P \in Persist(L, Owners(L[v]) \cap Children(k), v) :
          R = [lines |-> [P EXCEPT ![v] = L2Evict(P[v], k)], frame |-> L[v].l2[k]]
    BY <2>0
  <2>2. v \in Addr /\ L[v].l2[k] # "I" /\ L[v].l2[k] \in St
    BY DEF InL2, GoodLines, LineState
  <2>3. Owners(L[v]) \cap Children(k) \in SUBSET Core
    BY DEF Owners
  <2>4. GoodLines(P) /\ P[v] = L[v]
    BY <2>2, <2>3, PersistGood
  <2>5. Good(L2Evict(P[v], k))
    BY <2>2, <2>4, GoodLinesGood, L2EvictGood
  <2>6. GoodLines([P EXCEPT ![v] = L2Evict(P[v], k)])
    BY <2>2, <2>4, <2>5, GoodUpdate
  <2>7. QED
    BY <2>1, <2>2, <2>6
<1>3. QED
  BY <1>1, <1>2 DEF L2Replace

LEMMA DirReplaceGood ==
  ASSUME NEW L, GoodLines(L), NEW a, NEW D \in DirReplace(L, a)
  PROVE  GoodLines(D)
<1>1. CASE D = L
  BY <1>1
<1>2. CASE \E v \in InDir(L) : \E P \in Persist(L, Owners(L[v]), v) :
             D = [P EXCEPT ![v] = DirEvict(P[v])]
  <2>0. PICK v \in InDir(L) : \E P \in Persist(L, Owners(L[v]), v) :
               D = [P EXCEPT ![v] = DirEvict(P[v])]
    BY <1>2
  <2>1. PICK P \in Persist(L, Owners(L[v]), v) : D = [P EXCEPT ![v] = DirEvict(P[v])]
    BY <2>0
  <2>2. v \in Addr /\ Owners(L[v]) \in SUBSET Core
    BY DEF InDir, Owners
  <2>3. GoodLines(P)
    BY <2>2, PersistGood
  <2>4. Good(DirEvict(P[v]))
    BY <2>2, <2>3, GoodLinesGood, DirEvictGood
  <2>5. QED
    BY <2>1, <2>2, <2>3, <2>4, GoodUpdate
<1>3. QED
  BY <1>1, <1>2 DEF DirReplace

LEMMA GrantGood ==
  ASSUME NEW L, GoodLines(L), NEW c \in Core, NEW a \in Addr, NEW op,
         NEW ph \in St, NEW G \in Grant(L, c, a, op, ph)
  PROVE  GoodLines(G)
<1>0. PICK Q \in Persist(L, Owners(L[a]), a) :
        \E P \in Persist(Q, {c}, a) : G = [P EXCEPT ![a] = Fill(P[a], c, op, ph)]
  BY DEF Grant
<1>1. PICK P \in Persist(Q, {c}, a) : G = [P EXCEPT ![a] = Fill(P[a], c, op, ph)]
  BY <1>0
<1>2. Owners(L[a]) \in SUBSET Core
  BY DEF Owners
<1>3. GoodLines(P)
  <2>1. GoodLines(Q)
    BY <1>2, PersistGood
  <2>2. QED
    BY <2>1, PersistGood
<1>4. Good(Fill(P[a], c, op, ph))
  BY <1>3, GoodLinesGood, WriteFillGood, ReadFillGood DEF Fill
<1>5. QED
  BY <1>1, <1>3, <1>4, GoodUpdate

LEMMA AccessGood ==
  ASSUME NEW c \in Core, NEW a \in Addr, NEW op, GoodLines(lines), Access(c, a, op)
  PROVE  GoodLines(lines')
<1>1. PICK A \in BarrierFlush(lines, c, op) :
        IF ~LeavesL1(A[a], c, op)
        THEN lines' = A
        ELSE \E B \in L1Replace(A, c, a) :
               \E R \in L2Replace(B, Parent[c], a) :
                 \E D \in DirReplace(R.lines, a) :
                   \E G \in Grant(D, c, a, op, R.frame) : lines' = G
  BY DEF Access
<1>2. GoodLines(A)
  BY BarrierFlushGood
<1>3. CASE lines' = A
  BY <1>2, <1>3
<1>4. CASE \E B \in L1Replace(A, c, a) :
             \E R \in L2Replace(B, Parent[c], a) :
               \E D \in DirReplace(R.lines, a) :
                 \E G \in Grant(D, c, a, op, R.frame) : lines' = G
  <2>0. PICK B \in L1Replace(A, c, a) :
          \E R \in L2Replace(B, Parent[c], a) :
            \E D \in DirReplace(R.lines, a) :
              \E G \in Grant(D, c, a, op, R.frame) : lines' = G
    BY <1>4
  <2>0a. PICK R \in L2Replace(B, Parent[c], a) :
           \E D \in DirReplace(R.lines, a) :
             \E G \in Grant(D, c, a, op, R.frame) : lines' = G
    BY <2>0
  <2>1. PICK D \in DirReplace(R.lines, a) :
          \E G \in Grant(D, c, a, op, R.frame) : lines' = G
    BY <2>0a
  <2>2. GoodLines(B)
    BY <1>2, L1ReplaceGood
  <2>3. GoodLines(R.lines) /\ R.frame \in St
    BY <2>2, L2ReplaceGood
  <2>4. GoodLines(D)
    BY <2>3, DirReplaceGood
  <2>5. QED
    BY <2>1, <2>3, <2>4, GrantGood
<1>5. QED
  BY <1>1, <1>3, <1>4
----------------------------------------------------------------------------
IInv == TypeOK /\ CoherenceInv

LEMMA IInvIsGoodLines == IInv <=> GoodLines(lines)
BY DEF IInv, TypeOK, CoherenceInv, GoodLines

LEMMA InitIInv == Init => IInv
<1> SUFFICES ASSUME Init PROVE GoodLines(lines)
  BY IInvIsGoodLines
<1> HIDE DEF Invalid
<1>1. QED
  BY InvalidGood DEF Init, GoodLines, Good

LEMMA StepIInv == IInv /\ [Next]_vars => IInv'
<1> SUFFICES ASSUME GoodLines(lines), [Next]_vars
             PROVE  GoodLines(lines')
  BY DEF IInv, TypeOK, CoherenceInv, GoodLines
<1>1. ASSUME NEW c \in Core, NEW a \in Addr, Read(c, a)
      PROVE  GoodLines(lines')
  BY <1>1, AccessGood DEF Read
<1>2. ASSUME NEW c \in Core, NEW a \in Addr, Write(c, a)
      PROVE  GoodLines(lines')
  BY <1>2, AccessGood DEF Write
<1>3. CASE UNCHANGED vars
  BY <1>3 DEF vars
<1>4. QED
  BY <1>1, <1>2, <1>3 DEF Next

LEMMA IInvImplies ==
  IInv => SingleOwner /\ WriteBackFindsOwner /\ DirectoryReaches
<1> SUFFICES ASSUME GoodLines(lines)
             PROVE  SingleOwner /\ WriteBackFindsOwner /\ DirectoryReaches
  BY IInvIsGoodLines
<1>1. SingleOwner
  BY DEF GoodLines, LineInv, L1OwnerBacked, SingleOwner, Owners
<1>2. WriteBackFindsOwner
  BY DEF GoodLines, LineInv, L1OwnerBacked, L2OwnerRegistered,
     WriteBackFindsOwner, Owners, Owned
<1>3. DirectoryReaches
  BY GoodLinesGood, CopiesAreTargets DEF DirectoryReaches
<1>4. QED
  BY <1>1, <1>2, <1>3

\* Every copy of every block is always in a state of the protocol.
THEOREM TypeCorrect == Spec => []TypeOK
<1>1. IInv => TypeOK
  BY DEF IInv
<1>2. QED
  BY <1>1, InitIInv, StepIInv, PTL DEF Spec

\* The consistency of the copies of a block, at every level, is an invariant
\* of System::access, whatever line each replacement picks and whatever
\* persist() writes back.
THEOREM Coherence == Spec => []CoherenceInv
<1>1. IInv => CoherenceInv
  BY DEF IInv
<1>2. QED
  BY <1>1, InitIInv, StepIInv, PTL DEF Spec

\* No block is ever owned by two level-0 caches: the state the comment
\* "2 Owners can exist in the same time" (src/src/system.cpp:972) warns of.
THEOREM NoTwoOwners == Spec => []SingleOwner
BY InitIInv, StepIInv, IInvImplies, PTL DEF Spec

\* No write-back of an owned line fails the assertions of the WB branch, and
\* none finds the directory without an entry.
THEOREM WriteBackSafe == Spec => []WriteBackFindsOwner
BY InitIInv, StepIInv, IInvImplies, PTL DEF Spec

\* Every last-level copy is among those the directory invalidates, by its
\* sharer set or by broadcast.
THEOREM DirectoryComplete == Spec => []DirectoryReaches
BY InitIInv, StepIInv, IInvImplies, PTL DEF Spec

\* A core only becomes the owner of a block that the directory has registered
\* to its last-level cache.
THEOREM UpgradesRegistered == Spec => UpgradeRegistered
<1>1. ASSUME IInv, IInv', [Next]_vars
      PROVE  [\A a \in Addr, c \in Core :
                c \in Owners(lines'[a]) \ Owners(lines[a]) =>
                  lines'[a].sharers = {Parent[c]} /\ lines'[a].dir \in Owned]_vars
  <2>1. \A a \in Addr : LineInv(lines'[a])
    BY <1>1 DEF IInv, CoherenceInv
  <2>2. ASSUME NEW a \in Addr, NEW c \in Core, c \in Owners(lines'[a])
        PROVE  lines'[a].sharers = {Parent[c]} /\ lines'[a].dir \in Owned
    BY <2>1, <2>2 DEF LineInv, L1OwnerBacked, L2OwnerRegistered, Owners
  <2>3. QED
    BY <2>2
<1>2. QED
  BY <1>1, InitIInv, StepIInv, PTL DEF Spec, UpgradeRegistered
=============================================================================
