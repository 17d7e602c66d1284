-------------------------- MODULE AddressPathProofs --------------------------
(***************************************************************************)
(* Routing and translation for every size of the mesh, every number of     *)
(* nodes, programs, pages and TLB entries.                                 *)
(***************************************************************************)
EXTENDS AddressPath, Induction, FiniteSetTheorems, TLAPS

\* A mesh of side w has room for the quotient of what is below w times w.
LEMMA Quotient ==
  ASSUME NEW w \in Nat \ {0}, NEW m \in Nat \ {0}, NEW i \in 0..m * w - 1
  PROVE  i % w \in 0..w - 1 /\ i \div w \in 0..m - 1
<1>1. i \in Nat /\ m * w \in Nat /\ i < m * w
  OBVIOUS
<1>2. i % w \in 0..w - 1 /\ i \div w \in Nat /\ i = w * (i \div w) + (i % w)
  BY <1>1
<1>3. ASSUME i \div w >= m
      PROVE  FALSE
  <2>1. w * (i \div w) >= w * m
    BY <1>2, <1>3
  <2>2. QED
    BY <1>1, <1>2, <2>1
<1>4. QED
  BY <1>2, <1>3

LEMMA LocInMesh ==
  ASSUME NEW n, IsNet(n), NEW id \in Node(n)
  PROVE  getLoc(n, id) \in Coord(n)
<1> DEFINE w == n.width
<1>1. w \in Nat \ {0} /\ id \in Nat
  BY DEF IsNet, Node
<1>2. CASE n.type = "MESH_3D"
  <2>1. id \in 0..w * (w * w) - 1 /\ w * w \in Nat \ {0}
    BY <1>1, <1>2 DEF IsNet, Node, Size
  <2>2. id % (w * w) \in 0..w * w - 1 /\ id \div (w * w) \in 0..w - 1
    BY <1>1, <2>1, Quotient
  <2>3. (id % (w * w)) % w \in 0..w - 1 /\ (id % (w * w)) \div w \in 0..w - 1
    BY <1>1, <2>2, Quotient
  <2>4. QED
    BY <1>2, <2>2, <2>3 DEF getLoc, Coord
<1>3. CASE n.type # "MESH_3D"
  <2>1. id \in 0..w * w - 1
    BY <1>1, <1>3 DEF IsNet, Node, Size
  <2>2. id % w \in 0..w - 1 /\ id \div w \in 0..w - 1
    BY <1>1, <2>1, Quotient
  <2>3. QED
    BY <1>3, <2>2 DEF getLoc, Coord
<1>4. QED
  BY <1>2, <1>3

\* One hop stays in the mesh, takes an allocated link and is one hop nearer.
LEMMA HopTowards ==
  ASSUME NEW n, IsNet(n), NEW at \in Coord(n), NEW to \in Coord(n), at # to
  PROVE  LET dir == Towards(at, to) IN
         /\ dir \in Direction
         /\ Moved(at, dir) \in Coord(n)
         /\ Distance(Moved(at, dir), to) + 1 = Distance(at, to)
         /\ getLink(n, at, dir) \in LinkArray(n)
<1> DEFINE w == n.width
           dir == Towards(at, to)
<1>1. w \in Nat \ {0} /\ n.type \in NetType
  BY DEF IsNet
<1>2. dir \in Direction /\ Moved(at, dir) \in Coord(n)
  BY <1>1 DEF Towards, Direction, Moved, Coord
<1>3. Distance(Moved(at, dir), to) + 1 = Distance(at, to)
  BY <1>1 DEF Towards, Moved, Coord, Distance, Abs
<1>4. getLink(n, at, dir) \in LinkArray(n)
  BY <1>1 DEF Towards, Coord, getLink, Lower, LinkArray, NetType
<1>5. QED
  BY <1>2, <1>3, <1>4

\* A link has two ends, and no other pair of routers has it.
LEMMA LinkEnds ==
  ASSUME NEW n, IsNet(n), NEW a \in Coord(n), NEW b \in Coord(n),
         NEW d \in Direction, NEW e \in Direction,
         Moved(a, d) \in Coord(n), Moved(b, e) \in Coord(n)
  PROVE  (getLink(n, b, e) = getLink(n, a, d)) <=> ({b, Moved(b, e)} = {a, Moved(a, d)})
<1>1. n.width \in Nat \ {0} /\ n.type \in NetType
  BY DEF IsNet
<1> DEFINE x == {"EAST", "WEST"}
           y == {"NORTH", "SOUTH"}
           z == {"UP", "DOWN"}
<1>2. CASE d \in x /\ e \in x
  BY <1>1, <1>2 DEF Coord, Moved, getLink, Lower
<1>3. CASE d \in y /\ e \in y
  BY <1>1, <1>3 DEF Coord, Moved, getLink, Lower
<1>4. CASE d \in z /\ e \in z
  BY <1>1, <1>4 DEF Coord, Moved, getLink, Lower
<1>5. CASE \/ d \in x /\ e \in y \cup z
           \/ d \in y /\ e \in x \cup z
           \/ d \in z /\ e \in x \cup y
  <2>1. getLink(n, b, e) # getLink(n, a, d)
    BY <1>1, <1>5 DEF Coord, Moved, getLink, Lower, NetType
  <2>2. {b, Moved(b, e)} # {a, Moved(a, d)}
    BY <1>1, <1>5 DEF Coord, Moved
  <2>3. QED
    BY <2>1, <2>2
<1>6. QED
  BY <1>2, <1>3, <1>4, <1>5 DEF Direction

----------------------------------------------------------------------------
(***************************************************************************)
(* Powers of two, homes and frames.                                        *)
(***************************************************************************)
LEMMA Pow2Def ==
  /\ Pow2 \in [Nat -> Nat \ {0}]
  /\ Pow2[0] = 1
  /\ \A n \in Nat : Pow2[n + 1] = 2 * Pow2[n]
<1> DEFINE S == Nat \ {0}
           F == [x \in S |-> 2 * x]
           Powers(f) == f = [n \in Nat |-> IF n = 0 THEN 1 ELSE 2 * f[n - 1]]
<1>1. F \in [S -> S] /\ 1 \in S
  OBVIOUS
<1>2. PICK f \in [Nat -> S] : IsSequence(f, 1, F)
  <2> HIDE DEF F, S
  <2> QED BY <1>1, SequenceExists
<1>3. \A n \in Nat : f[n] = IF n = 0 THEN 1 ELSE 2 * f[n - 1]
  <2> SUFFICES ASSUME NEW n \in Nat, n # 0 PROVE f[n] = 2 * f[n - 1]
    BY <1>2 DEF IsSequence
  <2>1. n - 1 \in Nat /\ (n - 1) + 1 = n
    OBVIOUS
  <2>2. f[n] = F[f[n - 1]]
    BY <1>2, <2>1 DEF IsSequence
  <2>3. QED
    BY <2>1, <2>2
<1>4. f = [n \in Nat |-> f[n]]
  OBVIOUS
<1>5. Powers(f)
  BY <1>3, <1>4, Zenon
<1>6. Pow2 = CHOOSE g : Powers(g)
  BY DEF Pow2
<1> HIDE DEF Powers
<1>7. Powers(Pow2)
  BY <1>5, <1>6
<1>8. Pow2 = [n \in Nat |-> IF n = 0 THEN 1 ELSE 2 * Pow2[n - 1]]
  BY <1>7, Zenon DEF Powers
<1>9. \A n \in Nat : Pow2[n] = IF n = 0 THEN 1 ELSE 2 * Pow2[n - 1]
  BY <1>8, Zenon
<1>10. Pow2[0] = 1
  BY <1>9
<1>11. \A n \in Nat : Pow2[n + 1] = 2 * Pow2[n]
  <2> SUFFICES ASSUME NEW n \in Nat PROVE Pow2[n + 1] = 2 * Pow2[n]
    OBVIOUS
  <2>1. n + 1 \in Nat /\ n + 1 # 0 /\ (n + 1) - 1 = n
    OBVIOUS
  <2>2. Pow2[n + 1] = IF n + 1 = 0 THEN 1 ELSE 2 * Pow2[(n + 1) - 1]
    BY <1>9, <2>1
  <2>3. QED
    BY <2>1, <2>2
<1>12. \A n \in Nat : Pow2[n] \in S
  <2> DEFINE K == {n \in Nat : Pow2[n] \in S}
  <2>1. 0 \in K /\ \A n \in Nat : n \in K => n + 1 \in K
    BY <1>10, <1>11
  <2>2. Nat \subseteq K
    <3> HIDE DEF K
    <3> QED BY <2>1, NatInduct
  <2>3. QED
    BY <2>2
<1>13. Pow2 \in [Nat -> S]
  <2>1. Pow2 = [n \in Nat |-> Pow2[n]]
    BY <1>8, <1>9, Zenon
  <2>2. QED
    BY <1>12, <2>1
<1>14. QED
  BY <1>10, <1>11, <1>13

LEMMA Pow2Grows ==
  ASSUME NEW n \in Nat
  PROVE  Pow2[n] \in Nat \ {0} /\ n < Pow2[n]
<1> DEFINE K == {i \in Nat : i < Pow2[i]}
<1>1. \A i \in Nat : Pow2[i] \in Nat \ {0}
  BY Pow2Def
<1>2. 0 \in K /\ \A i \in Nat : i \in K => i + 1 \in K
  BY <1>1, Pow2Def
<1>3. Nat \subseteq K
  <2> HIDE DEF K
  <2> QED BY <1>2, NatInduct
<1>4. QED
  BY <1>1, <1>3

\* The bits of a home: enough for n of them, and one less is not.
LEMMA HomeBits ==
  ASSUME NEW n \in Nat \ {0}
  PROVE  LET k == CeilLog2(n) IN
         /\ k \in Nat /\ n <= Pow2[k]
         /\ k # 0 => Pow2[k - 1] \in 1..n - 1 /\ Pow2[k] = 2 * Pow2[k - 1]
         /\ k = 0 => Pow2[k] = 1 /\ n = 1
<1> DEFINE T == {i \in Nat : n <= Pow2[i]}
<1>1. \A i \in Nat : Pow2[i] \in Nat \ {0}
  BY Pow2Def
<1>2. T \subseteq Nat /\ n \in T
  BY Pow2Grows
<1>3. PICK k \in T : \A i \in T : k <= i
  <2> HIDE DEF T
  <2> QED BY <1>2, LeastNumber
<1>4. k \in 0..n /\ n <= Pow2[k]
  BY <1>2, <1>3
<1>5. k = 0 \/ Pow2[k - 1] < n
  <2> SUFFICES ASSUME k # 0 PROVE Pow2[k - 1] < n
    OBVIOUS
  <2>1. k - 1 \in Nat /\ k - 1 \notin T
    BY <1>3, <1>4
  <2>2. QED
    BY <1>1, <2>1
<1> DEFINE c == CeilLog2(n)
<1>6. c \in 0..n /\ n <= Pow2[c] /\ (c = 0 \/ Pow2[c - 1] < n)
  BY <1>4, <1>5 DEF CeilLog2
<1> HIDE DEF c
<1>7. c \in Nat /\ n <= Pow2[c]
  BY <1>6
<1>8. c # 0 => Pow2[c - 1] \in 1..n - 1 /\ Pow2[c] = 2 * Pow2[c - 1]
  <2> SUFFICES ASSUME c # 0 PROVE Pow2[c - 1] \in 1..n - 1 /\ Pow2[c] = 2 * Pow2[c - 1]
    OBVIOUS
  <2>1. c - 1 \in Nat /\ (c - 1) + 1 = c
    BY <1>6
  <2>2. Pow2[c - 1] \in Nat \ {0}
    BY <1>1, <2>1
  <2>3. Pow2[c] = 2 * Pow2[c - 1]
    BY <2>1, Pow2Def
  <2>4. QED
    BY <1>6, <2>2, <2>3
<1>9. c = 0 => Pow2[c] = 1 /\ n = 1
  BY <1>6, Pow2Def
<1>10. QED
  BY <1>7, <1>8, <1>9 DEF c

\* A cache has as many sets as its index bits can name, or more.
LEMMA IndexBits ==
  ASSUME NEW n \in Nat \ {0}
  PROVE  Pow2[Log2(n)] \in 1..n
<1> DEFINE T == {i \in Nat : n < Pow2[i + 1]}
<1>1. \A i \in Nat : Pow2[i] \in Nat \ {0}
  BY Pow2Def
<1>2. T \subseteq Nat /\ n \in T
  <2>1. n + 1 < Pow2[n + 1]
    BY Pow2Grows
  <2>2. n + 1 \in Nat /\ Pow2[n + 1] \in Nat
    BY <1>1
  <2>3. QED
    BY <2>1, <2>2
<1>3. PICK k \in T : \A i \in T : k <= i
  <2> HIDE DEF T
  <2> QED BY <1>2, LeastNumber
<1>4. k \in 0..n /\ n < Pow2[k + 1]
  BY <1>2, <1>3
<1>5. Pow2[k] <= n
  <2>1. CASE k = 0
    BY <2>1, Pow2Def
  <2>2. CASE k # 0
    <3>1. k - 1 \in Nat /\ k - 1 \notin T /\ (k - 1) + 1 = k
      BY <1>3, <1>4, <2>2
    <3>2. QED
      BY <1>1, <3>1
  <2>3. QED
    BY <2>1, <2>2
<1>6. Log2(n) \in 0..n /\ Pow2[Log2(n)] <= n
  BY <1>4, <1>5 DEF Log2
<1>7. QED
  BY <1>1, <1>6

\* Two blocks that leave the same index and tag are the same: they are less
\* than num_sets apart, and a multiple of it.
LEMMA SameFrame ==
  ASSUME NEW s \in Nat \ {0}, NEW a \in Nat, NEW b \in Nat, a < b
  PROVE  addrParse(s, a) # addrParse(s, b)
<1> DEFINE t == Pow2[Log2(s)]
           d == (b \div s) - (a \div s)
<1> SUFFICES ASSUME addrParse(s, a) = addrParse(s, b) PROVE FALSE
  OBVIOUS
<1>1. t \in 1..s
  BY IndexBits
<1>2. a % s = b % s /\ a \div t = b \div t
  BY DEF addrParse
<1> HIDE DEF t
<1>3. t \in Nat \ {0}
  BY <1>1
<1>4. a = t * (a \div t) + (a % t) /\ a % t \in 0..t - 1
  BY <1>3
<1>5. b = t * (b \div t) + (b % t) /\ b % t \in 0..t - 1
  BY <1>3
<1>6. b - a < t
  <2> DEFINE m == t * (a \div t)
  <2>1. m \in Int
    BY <1>3
  <2>2. a = m + (a % t) /\ b = m + (b % t)
    BY <1>2, <1>4, <1>5
  <2> HIDE DEF m
  <2>3. QED
    BY <1>3, <1>4, <1>5, <2>1, <2>2
<1>7. a = s * (a \div s) + (a % s) /\ b = s * (b \div s) + (b % s)
  OBVIOUS
<1>8. a \div s \in Int /\ b \div s \in Int /\ a % s \in Int
  OBVIOUS
<1>9. b - a = s * d /\ d \in Int
  BY <1>2, <1>7, <1>8
<1> HIDE DEF d
<1>10. d >= 1
  BY <1>9
<1>11. s * d >= s
  BY <1>9, <1>10
<1>12. QED
  BY <1>1, <1>6, <1>9, <1>11

LEMMA HomeIsNode ==
  ASSUME NEW n \in Nets, NEW b \in Nat
  PROVE  allocHomeId(n.nodes, b) \in Node(n)
<1> DEFINE k == CeilLog2(n.nodes)
           p == Pow2[k]
           q == Pow2[k - 1]
           bits == b % p
<1>1. n.nodes \in Nat \ {0}
  BY AddressPathAssumption DEF IsNet
<1>2. /\ k \in Nat /\ n.nodes <= p
      /\ k # 0 => q \in 1..n.nodes - 1
      /\ k = 0 => p = 1 /\ n.nodes = 1
  BY <1>1, HomeBits
<1>3. p \in Nat \ {0}
  BY <1>2, Pow2Def
<1>4. allocHomeId(n.nodes, b) = IF bits < n.nodes THEN bits ELSE bits % q
  BY DEF allocHomeId
<1> HIDE DEF k, p, q
<1>5. bits \in 0..p - 1
  BY <1>3
<1> HIDE DEF bits
<1>6. CASE bits < n.nodes
  BY <1>1, <1>4, <1>5, <1>6 DEF Node
<1>7. CASE ~(bits < n.nodes)
  <2>1. q \in 1..n.nodes - 1
    BY <1>1, <1>2, <1>5, <1>7
  <2>2. bits % q \in 0..n.nodes - 1
    BY <1>1, <1>5, <2>1
  <2>3. QED
    BY <1>1, <1>4, <1>7, <2>2 DEF Node
<1>8. QED
  BY <1>6, <1>7

\* A home serves its own number and at most one of those beyond the last home.
LEMMA HomeServes ==
  ASSUME NEW n \in Nets, NEW h \in Node(n)
  PROVE  Cardinality({b \in 0..Pow2[CeilLog2(n.nodes)] - 1 : allocHomeId(n.nodes, b) = h}) \in 1..2
<1> DEFINE k == CeilLog2(n.nodes)
           p == Pow2[k]
           q == Pow2[k - 1]
           Served == {b \in 0..p - 1 : allocHomeId(n.nodes, b) = h}
<1>1. n.nodes \in Nat \ {0} /\ h \in 0..n.nodes - 1
  BY AddressPathAssumption DEF IsNet, Node
<1>2. /\ k \in Nat /\ n.nodes <= p
      /\ k # 0 => q \in 1..n.nodes - 1 /\ p = 2 * q
      /\ k = 0 => p = 1 /\ n.nodes = 1
  BY <1>1, HomeBits
<1>3. p \in Nat \ {0}
  BY <1>2, Pow2Def
<1>4. \A b \in Nat : allocHomeId(n.nodes, b)
                      = IF b % p < n.nodes THEN b % p ELSE (b % p) % q
  BY DEF allocHomeId
<1> HIDE DEF k, p, q
<1>5. \A b \in 0..p - 1 : b % p = b
  BY <1>3
<1>6. \A b \in 0..p - 1 : allocHomeId(n.nodes, b) = IF b < n.nodes THEN b ELSE b % q
  BY <1>3, <1>4, <1>5
<1>7. h \in Served
  BY <1>1, <1>2, <1>3, <1>6
<1>8. Served \subseteq {h, h + q}
  <2> SUFFICES ASSUME NEW b \in 0..p - 1, allocHomeId(n.nodes, b) = h, b # h
               PROVE  b = h + q
    OBVIOUS
  <2>1. b >= n.nodes /\ b % q = h
    BY <1>1, <1>6
  <2>2. q \in 1..n.nodes - 1 /\ p = 2 * q
    BY <1>1, <1>2, <2>1
  <2>3. b - q \in 0..q - 1
    BY <1>1, <2>1, <2>2
  <2>4. b % q = b - q
    BY <2>2, <2>3
  <2>5. QED
    BY <1>1, <2>1, <2>2, <2>4
<1> HIDE DEF Served
<1>9. IsFiniteSet({h, h + q}) /\ Cardinality({h, h + q}) <= 2
  <2>1. {h, h + q} = {h} \cup {h + q}
    OBVIOUS
  <2>2. IsFiniteSet({h}) /\ Cardinality({h}) = 1
    BY FS_Singleton
  <2>3. QED
    BY <2>1, <2>2, FS_AddElement
<1>10. IsFiniteSet(Served) /\ Cardinality(Served) <= Cardinality({h, h + q})
  BY <1>8, <1>9, FS_Subset
<1>11. Cardinality(Served) \in Nat /\ Cardinality({h, h + q}) \in Nat
  BY <1>9, <1>10, FS_CardinalityType
<1>12. Cardinality(Served) # 0
  BY <1>7, <1>10, FS_EmptySet
<1>13. QED
  BY <1>9, <1>10, <1>11, <1>12 DEF Served, p, k
----------------------------------------------------------------------------
(***************************************************************************)
(* Translation.                                                            *)
(***************************************************************************)
NetOK == net \in Nets /\ IsNet(net) /\ active \subseteq Node(net)

\* The page table is one to one, and a TLB is a part of it.
TablesOK ==
  /\ page_map \subseteq Entry /\ empty_page_num \in Nat
  /\ tlb \in [Node(net) -> SUBSET page_map]
  /\ \A d, e \in page_map : (d.ppage = e.ppage) <=> (d.page = e.page)
  /\ \A e \in page_map : e.ppage < empty_page_num

PacketOK ==
  \/ packet = NoPacket
  \/ /\ packet \in [busy : {TRUE}, from : Node(net), to : Node(net), at : Coord(net), hops : Nat,
                    isReply : BOOLEAN, entry : page_map]
     /\ packet.hops + Distance(packet.at, getLoc(net, packet.to))
          = Distance(getLoc(net, packet.from), getLoc(net, packet.to))

IInv == NetOK /\ TablesOK /\ PacketOK

\* A new page gets a number above all others.
LEMMA TranslateOK ==
  ASSUME TablesOK, NEW page \in Page, translate(page), UNCHANGED net
  PROVE  /\ page_map \subseteq page_map'
         /\ page_map' \subseteq Entry /\ empty_page_num' \in Nat
         /\ \A d, e \in page_map' : (d.ppage = e.ppage) <=> (d.page = e.page)
         /\ \A e \in page_map' : e.ppage < empty_page_num'
         /\ LookedUp(page_map', page) # {}
<1>1. CASE LookedUp(page_map, page) # {}
  BY <1>1 DEF translate, TablesOK
<1>2. CASE LookedUp(page_map, page) = {}
  <2> DEFINE new == [page |-> page, ppage |-> empty_page_num]
  <2>1. page_map' = page_map \cup {new} /\ empty_page_num' = empty_page_num + 1
    BY <1>2 DEF translate
  <2>2. new \in Entry /\ new.page = page /\ new.ppage = empty_page_num
    BY DEF TablesOK, Entry
  <2>3. \A e \in page_map : e.page # page /\ e.ppage \in Nat /\ e.ppage < empty_page_num
    BY <1>2 DEF LookedUp, TablesOK, Entry
  <2> HIDE DEF new
  <2>4. empty_page_num \in Nat
    BY DEF TablesOK
  <2>5. \A d, e \in page_map' : (d.ppage = e.ppage) <=> (d.page = e.page)
    BY <2>1, <2>2, <2>3, <2>4 DEF TablesOK
  <2>6. \A e \in page_map' : e.ppage < empty_page_num'
    BY <2>1, <2>2, <2>3, <2>4
  <2>7. new \in LookedUp(page_map', page)
    BY <2>1, <2>2 DEF LookedUp
  <2>8. QED
    BY <2>1, <2>2, <2>4, <2>5, <2>6, <2>7 DEF TablesOK
<1>3. QED
  BY <1>1, <1>2

LEMMA TlbOK ==
  ASSUME TablesOK, NEW c \in Node(net), NEW page \in Page, tlb_translate(c, page), UNCHANGED net
  PROVE  TablesOK' /\ page_map \subseteq page_map'
<1>1. CASE LookedUp(tlb[c], page) # {}
  BY <1>1 DEF tlb_translate, TablesOK
<1>2. CASE LookedUp(tlb[c], page) = {}
  <2>1. translate(page)
    BY <1>2 DEF tlb_translate
  <2>2. PICK victim : tlb' = [tlb EXCEPT ![c] = (@ \ victim) \cup LookedUp(page_map', page)]
    BY <1>2 DEF tlb_translate
  <2>3. LookedUp(page_map', page) \subseteq page_map'
    BY DEF LookedUp
  <2>4. tlb' \in [Node(net) -> SUBSET page_map']
    BY <2>1, <2>2, <2>3, TranslateOK DEF TablesOK
  <2>5. QED
    BY <2>1, <2>4, TranslateOK DEF TablesOK
<1>3. QED
  BY <1>1, <1>2
----------------------------------------------------------------------------
(***************************************************************************)
(* Packets.                                                                *)
(***************************************************************************)
LEMMA DistanceIsNat ==
  ASSUME NEW n, IsNet(n), NEW a \in Coord(n), NEW b \in Coord(n)
  PROVE  Distance(a, b) \in Nat
BY DEF IsNet, Coord, Distance, Abs

\* A packet that sets out has its whole way before it.
LEMMA PacketStarts ==
  ASSUME NetOK, NEW from \in Node(net), NEW to \in Node(net), NEW b \in BOOLEAN,
         NEW e \in page_map', UNCHANGED net, packet' = Packet(from, to, b, e)
  PROVE  PacketOK'
<1>1. getLoc(net, from) \in Coord(net) /\ getLoc(net, to) \in Coord(net)
  BY LocInMesh DEF NetOK
<1>2. Distance(getLoc(net, from), getLoc(net, to)) \in Nat
  BY <1>1, DistanceIsNat DEF NetOK
<1>3. packet' \in [busy : {TRUE}, from : Node(net), to : Node(net), at : Coord(net), hops : Nat,
                   isReply : BOOLEAN, entry : page_map']
  BY <1>1 DEF Packet
<1>4. packet'.hops + Distance(packet'.at, getLoc(net, packet'.to))
        = Distance(getLoc(net, packet'.from), getLoc(net, packet'.to))
  BY <1>2 DEF Packet
<1>5. QED
  BY <1>3, <1>4 DEF PacketOK

LEMMA AccessOK ==
  ASSUME IInv, NEW c \in active, NEW page \in Page, NEW i \in 0..BlocksPerPage - 1,
         Access(c, page, i)
  PROVE  IInv'
<1>1. c \in Node(net) /\ tlb_translate(c, page) /\ UNCHANGED <<net, active>>
  BY DEF IInv, NetOK, Access
<1>2. TablesOK' /\ NetOK'
  BY <1>1, TlbOK DEF IInv, NetOK
<1>3. PICK e \in LookedUp(tlb'[c], page) :
        LET home == allocHomeId(net.nodes, Block(e.ppage, i)) IN
        packet' = IF home = c THEN NoPacket
                  ELSE Packet(c, home, FALSE, [page |-> page, ppage |-> e.ppage])
  BY DEF Access
<1> DEFINE home == allocHomeId(net.nodes, Block(e.ppage, i))
<1>4. e \in page_map' /\ e \in Entry /\ e.page = page
  BY <1>1, <1>2, <1>3 DEF TablesOK, LookedUp
<1>5. [page |-> page, ppage |-> e.ppage] = e
  BY <1>4 DEF Entry
<1>6. home \in Node(net)
  <2>1. Block(e.ppage, i) \in Nat
    BY <1>4, AddressPathAssumption DEF Block, Entry
  <2>2. QED
    BY <2>1, HomeIsNode DEF IInv, NetOK
<1> HIDE DEF home
<1>7. PacketOK'
  <2>1. CASE home = c
    BY <1>3, <2>1 DEF PacketOK, home, NoPacket
  <2>2. CASE home # c
    <3>1. packet' = Packet(c, home, FALSE, e)
      BY <1>3, <1>5, <2>2 DEF home
    <3>2. QED
      BY <1>1, <1>4, <1>6, <3>1, PacketStarts DEF IInv
  <2>3. QED
    BY <2>1, <2>2
<1>8. QED
  BY <1>2, <1>7 DEF IInv

\* A busy packet is in the mesh, and so is where it goes.
LEMMA BusyPacket ==
  ASSUME IInv, packet.busy
  PROVE  /\ packet \in [busy : {TRUE}, from : Node(net), to : Node(net), at : Coord(net),
                        hops : Nat, isReply : BOOLEAN, entry : page_map]
         /\ packet.hops + Distance(packet.at, getLoc(net, packet.to))
              = Distance(getLoc(net, packet.from), getLoc(net, packet.to))
         /\ IsNet(net) /\ getLoc(net, packet.to) \in Coord(net)
<1>1. packet # NoPacket
  <2>1. NoPacket.busy = FALSE
    BY DEF NoPacket
  <2>2. QED
    BY <2>1
<1>2. packet \in [busy : {TRUE}, from : Node(net), to : Node(net), at : Coord(net),
                  hops : Nat, isReply : BOOLEAN, entry : page_map]
      /\ packet.hops + Distance(packet.at, getLoc(net, packet.to))
           = Distance(getLoc(net, packet.from), getLoc(net, packet.to))
  BY <1>1, Zenon DEF IInv, PacketOK
<1>3. IsNet(net) /\ packet.to \in Node(net)
  BY <1>2 DEF IInv, NetOK
<1>4. QED
  BY <1>2, <1>3, LocInMesh

LEMMA MovedPacket ==
  ASSUME NEW f \in Node(net), NEW t \in Node(net), NEW a \in Coord(net), NEW h \in Nat,
         NEW r \in BOOLEAN, NEW e \in page_map
  PROVE  [busy |-> TRUE, from |-> f, to |-> t, at |-> a, hops |-> h, isReply |-> r, entry |-> e]
           \in [busy : {TRUE}, from : Node(net), to : Node(net), at : Coord(net), hops : Nat,
                isReply : BOOLEAN, entry : page_map]
OBVIOUS

LEMMA HopOK ==
  ASSUME IInv, Hop
  PROVE  IInv'
<1> DEFINE to == getLoc(net, packet.to)
<1>1. packet.busy /\ packet.at # to /\ UNCHANGED <<net, active, page_map, empty_page_num, tlb>>
  BY DEF Hop, Arrived
<1>2. packet' = [packet EXCEPT !.at = Moved(@, Dir), !.hops = @ + 1]
  BY DEF Hop
<1>3. Moved(packet.at, Dir) \in Coord(net)
      /\ Distance(Moved(packet.at, Dir), to) + 1 = Distance(packet.at, to)
  BY <1>1, BusyPacket, HopTowards DEF Dir
<1>4. Distance(Moved(packet.at, Dir), to) \in Nat
  BY <1>1, <1>3, BusyPacket, DistanceIsNat
<1>5. PacketOK'
  <2>0. packet \in [busy : {TRUE}, from : Node(net), to : Node(net), at : Coord(net),
                    hops : Nat, isReply : BOOLEAN, entry : page_map]
    BY <1>1, BusyPacket
  <2>1. packet' \in [busy : {TRUE}, from : Node(net), to : Node(net), at : Coord(net),
                     hops : Nat, isReply : BOOLEAN, entry : page_map]
    <3> DEFINE next == Moved(packet.at, Dir)
    <3>1. packet' = [packet EXCEPT !.at = next, !.hops = packet.hops + 1] /\ next \in Coord(net)
      BY <1>2, <1>3
    <3> HIDE DEF next
    <3>2. packet' = [busy |-> TRUE, from |-> packet.from, to |-> packet.to, at |-> next,
                     hops |-> packet.hops + 1, isReply |-> packet.isReply,
                     entry |-> packet.entry]
      BY <2>0, <3>1
    <3>3. /\ packet.from \in Node(net) /\ packet.to \in Node(net)
          /\ packet.hops + 1 \in Nat /\ packet.isReply \in BOOLEAN
          /\ packet.entry \in page_map
      BY <2>0
    <3>4. [busy |-> TRUE, from |-> packet.from, to |-> packet.to, at |-> next,
           hops |-> packet.hops + 1, isReply |-> packet.isReply, entry |-> packet.entry]
            \in [busy : {TRUE}, from : Node(net), to : Node(net), at : Coord(net), hops : Nat,
                 isReply : BOOLEAN, entry : page_map]
      BY <3>1, <3>3, MovedPacket, Zenon
    <3>5. QED
      BY <3>2, <3>4, Zenon
  <2>2. packet'.hops = packet.hops + 1 /\ packet'.at = Moved(packet.at, Dir)
        /\ packet'.to = packet.to /\ packet'.from = packet.from
    BY <1>2, <2>0
  <2>3. packet.hops \in Nat
    BY <1>1, BusyPacket
  <2>4. packet'.hops + Distance(packet'.at, getLoc(net, packet'.to))
          = Distance(getLoc(net, packet'.from), getLoc(net, packet'.to))
    BY <1>1, <1>3, <1>4, <2>2, <2>3, BusyPacket
  <2>5. QED
    BY <1>1, <2>1, <2>4 DEF PacketOK
<1>6. QED
  BY <1>1, <1>5 DEF IInv, NetOK, TablesOK

LEMMA ArriveOK ==
  ASSUME IInv, Arrive
  PROVE  IInv'
<1>1. packet.busy /\ UNCHANGED <<net, active, page_map, empty_page_num, tlb>>
  BY DEF Arrive
<1>2. CASE packet.isReply
  BY <1>1, <1>2 DEF Arrive, IInv, NetOK, TablesOK, PacketOK, NoPacket
<1>3. CASE ~packet.isReply
  <2>1. packet' = Packet(packet.to, packet.from, TRUE, packet.entry)
    BY <1>3 DEF Arrive
  <2>2. PacketOK'
    BY <1>1, <2>1, BusyPacket, PacketStarts DEF IInv
  <2>3. QED
    BY <1>1, <2>2 DEF IInv, NetOK, TablesOK
<1>4. QED
  BY <1>2, <1>3

\* The tables stay one to one and every packet in the mesh, on a shortest way.
LEMMA Invariance == Spec => []IInv
<1>1. Init => IInv
  <2> SUFFICES ASSUME Init PROVE IInv
    OBVIOUS
  <2>1. NetOK
    BY AddressPathAssumption DEF Init, NetOK
  <2>2. TablesOK
    BY DEF Init, TablesOK
  <2>3. PacketOK
    BY DEF Init, PacketOK
  <2>4. QED
    BY <2>1, <2>2, <2>3 DEF IInv
<1>2. IInv /\ [Next]_vars => IInv'
  <2> SUFFICES ASSUME IInv, [Next]_vars PROVE IInv'
    OBVIOUS
  <2>1. CASE Next
    BY <2>1, AccessOK, HopOK, ArriveOK DEF Next
  <2>2. CASE UNCHANGED vars
    BY <2>2 DEF vars, IInv, NetOK, TablesOK, PacketOK
  <2>3. QED
    BY <2>1, <2>2
<1>3. QED
  BY <1>1, <1>2, PTL DEF Spec

----------------------------------------------------------------------------
(***************************************************************************)
(* The ways of the TLBs, the types and what is true of every address.      *)
(***************************************************************************)
TlbsFit == \A c \in Node(net) : IsFiniteSet(tlb[c]) /\ Cardinality(tlb[c]) <= TlbWays

\* A page is looked up in one place only.
LEMMA OneFound ==
  ASSUME NEW map \in SUBSET Entry, \A d, e \in map : (d.ppage = e.ppage) <=> (d.page = e.page),
         NEW page, LookedUp(map, page) # {}
  PROVE  \E e : LookedUp(map, page) = {e}
<1>1. PICK e : e \in map /\ e.page = page
  BY DEF LookedUp
<1>2. ASSUME NEW d \in map, d.page = page
      PROVE  d = e
  <2>1. d \in Entry /\ e \in Entry
    BY <1>1
  <2>2. d.ppage = e.ppage
    BY <1>1, <1>2
  <2>3. QED
    BY <1>1, <1>2, <2>1, <2>2 DEF Entry
<1>3. QED
  BY <1>1, <1>2 DEF LookedUp

\* A TLB makes room before it is filled.
LEMMA FillFits ==
  ASSUME NEW S, IsFiniteSet(S), Cardinality(S) <= TlbWays, NEW e,
         NEW victim \in IF Cardinality(S) < TlbWays THEN {{}} ELSE {{v} : v \in S}
  PROVE  IsFiniteSet((S \ victim) \cup {e}) /\ Cardinality((S \ victim) \cup {e}) <= TlbWays
<1>1. TlbWays \in Nat /\ Cardinality(S) \in Nat
  BY AddressPathAssumption, FS_CardinalityType
<1>2. IsFiniteSet(S \ victim) /\ Cardinality(S \ victim) \in Nat /\ Cardinality(S \ victim) < TlbWays
  <2>1. CASE Cardinality(S) < TlbWays
    <3>1. S \ victim = S
      BY <2>1
    <3>2. QED
      BY <1>1, <2>1, <3>1
  <2>2. CASE ~(Cardinality(S) < TlbWays)
    <3>1. PICK v \in S : victim = {v}
      BY <2>2
    <3>2. IsFiniteSet(S \ {v}) /\ Cardinality(S \ {v}) = Cardinality(S) - 1
      BY FS_RemoveElement
    <3>3. Cardinality(S \ {v}) \in Nat
      BY <3>2, FS_CardinalityType
    <3>4. QED
      BY <1>1, <3>1, <3>2, <3>3
  <2>3. QED
    BY <2>1, <2>2
<1>3. QED
  BY <1>1, <1>2, FS_AddElement

LEMMA TlbsFitStep ==
  ASSUME IInv, TlbsFit, [Next]_vars
  PROVE  TlbsFit'
<1>1. ASSUME NEW c \in active, NEW page \in Page, NEW i \in 0..BlocksPerPage - 1,
             Access(c, page, i)
      PROVE  TlbsFit'
  <2>1. c \in Node(net) /\ tlb_translate(c, page) /\ net' = net
    BY <1>1 DEF IInv, NetOK, Access
  <2>2. CASE LookedUp(tlb[c], page) # {}
    BY <2>1, <2>2 DEF tlb_translate, TlbsFit
  <2>3. CASE LookedUp(tlb[c], page) = {}
    <3>1. translate(page)
      BY <2>1, <2>3 DEF tlb_translate
    <3>2. PICK victim \in IF Cardinality(tlb[c]) < TlbWays THEN {{}} ELSE {{e} : e \in tlb[c]} :
            tlb' = [tlb EXCEPT ![c] = (@ \ victim) \cup LookedUp(page_map', page)]
      BY <2>1, <2>3 DEF tlb_translate
    <3>3. /\ page_map' \in SUBSET Entry
          /\ \A d, e \in page_map' : (d.ppage = e.ppage) <=> (d.page = e.page)
      BY <2>1, <3>1, TranslateOK DEF IInv
    <3>4. LookedUp(page_map', page) # {}
      BY <2>1, <3>1, TranslateOK DEF IInv
    <3>5. PICK e : LookedUp(page_map', page) = {e}
      BY <3>3, <3>4, OneFound
    <3>6. IsFiniteSet(tlb[c]) /\ Cardinality(tlb[c]) <= TlbWays
      BY <2>1 DEF TlbsFit
    <3>7. /\ IsFiniteSet((tlb[c] \ victim) \cup {e})
          /\ Cardinality((tlb[c] \ victim) \cup {e}) <= TlbWays
      BY <3>6, FillFits
    <3>8. tlb' = [tlb EXCEPT ![c] = (tlb[c] \ victim) \cup {e}] /\ tlb \in [Node(net) -> SUBSET page_map]
      BY <3>2, <3>5 DEF IInv, TablesOK
    <3>9. ASSUME NEW d \in Node(net)
          PROVE  IsFiniteSet(tlb'[d]) /\ Cardinality(tlb'[d]) <= TlbWays
      <4>1. CASE d = c
        BY <3>7, <3>8, <4>1
      <4>2. CASE d # c
        BY <3>8, <4>2 DEF TlbsFit
      <4>3. QED
        BY <4>1, <4>2
    <3>10. QED
      BY <2>1, <3>9 DEF TlbsFit
  <2>4. QED
    BY <2>2, <2>3
<1>2. CASE Hop \/ Arrive \/ UNCHANGED vars
  BY <1>2 DEF Hop, Arrive, vars, TlbsFit
<1>3. QED
  BY <1>1, <1>2 DEF Next

\* Every variable keeps its type, and no TLB has more entries than ways.
THEOREM PathTyped == Spec => []TypeOK
<1>1. Init => TlbsFit
  <2> SUFFICES ASSUME Init, NEW c \in Node(net)
               PROVE  IsFiniteSet(tlb[c]) /\ Cardinality(tlb[c]) <= TlbWays
    BY DEF TlbsFit
  <2>1. tlb[c] = {} /\ TlbWays \in Nat
    BY AddressPathAssumption DEF Init
  <2>2. QED
    BY <2>1, FS_EmptySet
<1>2. IInv /\ TlbsFit => TypeOK
  <2> SUFFICES ASSUME IInv, TlbsFit PROVE TypeOK
    OBVIOUS
  <2>1. IsNet(net) /\ active \subseteq Node(net) /\ page_map \subseteq Entry /\ empty_page_num \in Nat
    BY DEF IInv, NetOK, TablesOK
  <2>2. \A c \in Node(net) : tlb[c] \subseteq Entry /\ Cardinality(tlb[c]) <= TlbWays
    BY DEF IInv, TablesOK, TlbsFit
  <2>3. packet.busy => /\ packet.from \in Node(net) /\ packet.to \in Node(net)
                       /\ packet.at \in Coord(net) /\ packet.hops \in Nat
    BY BusyPacket
  <2>4. QED
    BY <2>1, <2>2, <2>3 DEF TypeOK
<1>3. QED
  BY <1>1, <1>2, TlbsFitStep, Invariance, PTL DEF Spec

\* Blocks are spread over the homes: each has some, none more than twice as
\* many as another.
THEOREM HomesBalanced == Spec => []HomesShare
<1>1. IInv => HomesShare
  BY HomeServes DEF IInv, NetOK, HomesShare
<1>2. QED
  BY <1>1, Invariance, PTL

\* The index and the tag that a cache keeps tell any two blocks apart, for
\* every number of sets, powers of two or not.
THEOREM FramesKeptApart == Spec => []FramesApart
<1>1. FramesApart
  <2> SUFFICES ASSUME NEW sets \in NumSets, NEW b \in Allocated, NEW a \in 0..b - 1
               PROVE  addrParse(sets, a) # addrParse(sets, b)
    BY DEF FramesApart
  <2>1. b \in Nat /\ a \in Nat /\ a < b /\ sets \in Nat \ {0}
    BY AddressPathAssumption DEF Allocated
  <2>2. QED
    BY <2>1, SameFrame
<1>2. QED
  BY <1>1, PTL

\* No two pages, of one program or of two, share a physical page, and a TLB
\* is never out of date.
THEOREM PagesKeptApart == Spec => []PagesApart
<1>1. IInv => PagesApart
  <2> SUFFICES ASSUME IInv PROVE PagesApart
    OBVIOUS
  <2>1. \A c \in active : tlb[c] \subseteq page_map
    BY DEF IInv, NetOK, TablesOK
  <2>2. packet.busy => packet.entry \in page_map
    BY BusyPacket
  <2>3. QED
    BY <2>1, <2>2 DEF PagesApart, IInv, TablesOK
<1>2. QED
  BY <1>1, Invariance, PTL

\* In a mesh of any width, routing only uses links that init allocated,
\* although the test of getLink is too weak in three dimensions.
THEOREM LinksAllocated == Spec => []LinkExists
<1>1. IInv => LinkExists
  BY BusyPacket, HopTowards DEF LinkExists, Arrived, Link, Dir
<1>2. QED
  BY <1>1, Invariance, PTL

\* Routing makes no detour.
THEOREM WaysShortest == Spec => []ShortestWay
<1>1. IInv => ShortestWay
  BY BusyPacket DEF ShortestWay
<1>2. QED
  BY <1>1, Invariance, PTL

\* Contention is accounted to the right link: two different channels never
\* share an entry of the array.
THEOREM LinksNotShared == Spec => []LinksApart
<1>1. IInv => LinksApart
  <2> SUFFICES ASSUME IInv, packet.busy, ~Arrived, NEW b \in Coord(net), NEW e \in Direction,
                      Moved(b, e) \in Coord(net)
               PROVE  (getLink(net, b, e) = Link)
                        <=> ({b, Moved(b, e)} = {packet.at, Moved(packet.at, Dir)})
    BY DEF LinksApart
  <2>1. packet.at \in Coord(net) /\ Dir \in Direction /\ Moved(packet.at, Dir) \in Coord(net)
    BY BusyPacket, HopTowards DEF Arrived, Dir
  <2>2. QED
    BY <2>1, BusyPacket, LinkEnds DEF Link
<1>2. QED
  BY <1>1, Invariance, PTL
=============================================================================
