-------------------------------- MODULE Mesh --------------------------------
(***************************************************************************)
(* The on-chip network as data: where a node is, which link leaves it in a *)
(* direction, and the first hop of dimension-order routing                 *)
(* (src/src/network.cpp); and the home that an address is given            *)
(* (System::allocHomeId).  A net is a record of net_type, num_nodes and    *)
(* net_width.                                                              *)
(***************************************************************************)
EXTENDS Integers

NetType   == {"MESH_2D", "MESH_3D"}
Direction == {"EAST", "WEST", "NORTH", "SOUTH", "UP", "DOWN"}

Size(type, w) == IF type = "MESH_3D" THEN w * w * w ELSE w * w

\* ceil(sqrt(num_nodes)) and ceil(cbrt(num_nodes)): the smallest mesh with
\* room for every node.
IsNet(net) ==
  /\ net.type \in NetType /\ net.nodes \in Nat \ {0} /\ net.width \in Nat \ {0}
  /\ net.nodes <= Size(net.type, net.width)
  /\ Size(net.type, net.width - 1) < net.nodes

Node(net) == 0..net.nodes - 1

getLoc(net, id) ==
  LET w == net.width IN
  IF net.type = "MESH_3D"
  THEN [x |-> (id % (w * w)) % w, y |-> (id % (w * w)) \div w, z |-> id \div (w * w)]
  ELSE [x |-> id % w, y |-> id \div w, z |-> 0]

getNodeId(net, loc) ==
  IF net.type = "MESH_3D" THEN loc.x + loc.y * net.width + loc.z * net.width * net.width
  ELSE loc.x + loc.y * net.width

\* Where routers are; the last ones may have no node.
Coord(net) ==
  LET side == 0..net.width - 1 IN
  [x : side, y : side, z : IF net.type = "MESH_3D" THEN side ELSE {0}]

\* The lower end, along its axis, of the link that leaves i.
Lower(i, dir) == IF dir \in {"WEST", "NORTH", "DOWN"} THEN i - 1 ELSE i

\* Mutant: the links of the second axis are not set apart.
getLinkShared(net, loc, dir) ==
  CASE dir \in {"EAST", "WEST"}   -> <<Lower(loc.x, dir), loc.y, loc.z>>
    [] dir \in {"NORTH", "SOUTH"} -> <<Lower(loc.y, dir), loc.x, loc.z>>
    [] dir \in {"UP", "DOWN"}     -> <<Lower(loc.z, dir), loc.x, loc.y>>

\* Mutant: a link belongs to the node that it leads to.
getLinkUpper(net, loc, dir) ==
  LET w == net.width
      Upper(i) == IF dir \in {"WEST", "NORTH", "DOWN"} THEN i ELSE i + 1 IN
  CASE dir \in {"EAST", "WEST"}   -> <<Upper(loc.x), loc.y, loc.z>>
    [] dir \in {"NORTH", "SOUTH"} -> <<Upper(loc.y), loc.x + w, 0>>
    [] dir \in {"UP", "DOWN"}     -> <<Upper(loc.z), loc.x, loc.y + 2 * w>>

\* The place in the array of links; a mesh of two dimensions has no third index.
getLink(net, loc, dir) ==
  LET w == net.width
      flat == net.type # "MESH_3D" IN
  CASE dir \in {"EAST", "WEST"}   -> <<Lower(loc.x, dir), loc.y, loc.z>>
    [] dir \in {"NORTH", "SOUTH"} ->
         IF flat THEN <<Lower(loc.y, dir), loc.x + w, 0>> ELSE <<Lower(loc.y, dir), loc.z, loc.x + w>>
    [] dir \in {"UP", "DOWN"}     -> <<Lower(loc.z, dir), loc.x, loc.y + 2 * w>>

\* What init allocates.
LinkArray(net) ==
  LET w == net.width IN
  (0..w - 2) \X (IF net.type = "MESH_3D" THEN 0..w - 1 ELSE 0..2 * w - 1)
             \X (IF net.type = "MESH_3D" THEN 0..3 * w - 1 ELSE {0})

\* What getLink tests before it indexes the array: in three dimensions the
\* last index has no upper bound.
Indexed(net, l) ==
  LET w == net.width IN
  /\ l[1] \in 0..w - 2
  /\ IF net.type = "MESH_3D" THEN l[2] \in 0..w - 1 /\ l[3] >= 0 ELSE l[2] \in 0..2 * w - 1

\* The three loops of transmit: first x, then y, then z.
Towards(at, to) ==
  CASE at.x # to.x -> IF to.x > at.x THEN "EAST" ELSE "WEST"
    [] at.x = to.x /\ at.y # to.y -> IF to.y > at.y THEN "SOUTH" ELSE "NORTH"
    [] OTHER -> IF to.z > at.z THEN "UP" ELSE "DOWN"

\* Mutant: the second loop runs in the wrong direction.
MovedWrong(at, dir) ==
  CASE dir = "EAST"  -> [at EXCEPT !.x = @ + 1]
    [] dir = "WEST"  -> [at EXCEPT !.x = @ - 1]
    [] dir = "SOUTH" -> [at EXCEPT !.y = @ - 1]
    [] dir = "NORTH" -> [at EXCEPT !.y = @ + 1]
    [] dir = "UP"    -> [at EXCEPT !.z = @ + 1]
    [] dir = "DOWN"  -> [at EXCEPT !.z = @ - 1]

Moved(at, dir) ==
  CASE dir = "EAST"  -> [at EXCEPT !.x = @ + 1]
    [] dir = "WEST"  -> [at EXCEPT !.x = @ - 1]
    [] dir = "SOUTH" -> [at EXCEPT !.y = @ + 1]
    [] dir = "NORTH" -> [at EXCEPT !.y = @ - 1]
    [] dir = "UP"    -> [at EXCEPT !.z = @ + 1]
    [] dir = "DOWN"  -> [at EXCEPT !.z = @ - 1]

Abs(i) == IF i < 0 THEN -i ELSE i

\* local_distance
Distance(a, b) == Abs(b.x - a.x) + Abs(b.y - a.y) + Abs(b.z - a.z)
----------------------------------------------------------------------------
\* 1 << n
Pow2[n \in Nat] == IF n = 0 THEN 1 ELSE 2 * Pow2[n - 1]

\* (int) log2(n), and its ceiling.
Log2(n)     == CHOOSE k \in 0..n : Pow2[k] <= n /\ n < Pow2[k + 1]
CeilLog2(n) == CHOOSE k \in 0..n : n <= Pow2[k] /\ (k = 0 \/ Pow2[k - 1] < n)

\* Mutant: addresses beyond the last home all go to the first.
allocHomeIdFirst(homes, block) ==
  LET bits == block % Pow2[CeilLog2(homes)] IN IF bits < homes THEN bits ELSE 0

\* Low-order interleaving of the blocks over any number of homes.
allocHomeId(homes, block) ==
  LET mask == CeilLog2(homes)
      bits == block % Pow2[mask]
  IN  IF bits < homes THEN bits ELSE bits % Pow2[mask - 1]

\* Mutant: index_bits is rounded up.
addrParseUp(sets, block) == [index |-> block % sets, tag |-> block \div Pow2[CeilLog2(sets)]]

\* Cache::addrParse and addrCompose: what a line keeps of the address of its
\* block, and the address that a victim is given back.  The parts are or-ed.
addrParse(sets, block) == [index |-> block % sets, tag |-> block \div Pow2[Log2(sets)]]

addrCompose(sets, frame) ==
  LET top == Pow2[Log2(sets)] IN
  (frame.index % top)
    + top * (IF frame.index >= top /\ frame.tag % 2 = 0 THEN frame.tag + 1 ELSE frame.tag)
=============================================================================
