----------------------------- MODULE AddressPath -----------------------------
(***************************************************************************)
(* The way of an address: the TLB of a core and the page table translate   *)
(* it (System::tlb_translate, PageTable::translate), the block has a home  *)
(* (System::getHomeId), and a request walks through the mesh to the home   *)
(* and the answer back (Network::transmit, one hop of its loops a step).   *)
(* Delays and contention of the links are left out.                        *)
(***************************************************************************)
EXTENDS Mesh, FiniteSets

CONSTANTS
  Page,           \* pages: records of a program, prog_id, and a virtual page
  BlocksPerPage,  \* page_size over the block size
  TlbWays,        \* the TLB has one set
  NumSets,        \* possible num_sets of a cache
  Nets            \* possible networks

ASSUME AddressPathAssumption ==
  /\ BlocksPerPage \in Nat \ {0} /\ TlbWays \in Nat \ {0}
  /\ NumSets \subseteq Nat \ {0} /\ \A n \in Nets : IsNet(n)

VARIABLES
  net,            \* the network of this run
  active,         \* the cores that run threads
  page_map,       \* page_map: pairs of a program's page and its physical page
  empty_page_num,
  tlb,            \* tlb[c]: entries of the TLB of core c
  packet          \* the message under way

vars == <<net, active, page_map, empty_page_num, tlb, packet>>

NoPacket == [busy |-> FALSE]
Entry    == [page : Page, ppage : Nat]

Init ==
  /\ net \in Nets
  /\ active \in {a \in SUBSET Node(net) : Cardinality(a) = IF net.nodes = 1 THEN 1 ELSE 2}
  /\ page_map = {} /\ empty_page_num = 0
  /\ tlb = [c \in Node(net) |-> {}]
  /\ packet = NoPacket
----------------------------------------------------------------------------
\* Mutant: pages are looked up without their program.
LookedUpAnywhere(map, page) == {e \in map : e.page.vpage = page.vpage}

\* accessLine of a TLB, and page_map.find.
LookedUp(map, page) == {e \in map : e.page = page}

\* PageTable::translate: a new page gets the next number.
translate(page) ==
  LET hit == LookedUp(page_map, page)
      new == [page |-> page, ppage |-> empty_page_num] IN
  IF hit # {} THEN /\ UNCHANGED <<page_map, empty_page_num>>
  ELSE /\ page_map' = page_map \cup {new}
       /\ empty_page_num' = empty_page_num + 1

\* System::tlb_translate; the physical page is that of the entry in tlb'.
tlb_translate(c, page) ==
  IF LookedUp(tlb[c], page) # {} THEN UNCHANGED <<tlb, page_map, empty_page_num>>
  ELSE /\ translate(page)
       /\ \E victim \in IF Cardinality(tlb[c]) < TlbWays THEN {{}} ELSE {{e} : e \in tlb[c]} :
            tlb' = [tlb EXCEPT ![c] = (@ \ victim) \cup LookedUp(page_map', page)]

Block(ppage, i) == ppage * BlocksPerPage + i

Packet(from, to, isReply, entry) ==
  [busy |-> TRUE, from |-> from, to |-> to, at |-> getLoc(net, from), hops |-> 0,
   isReply |-> isReply, entry |-> entry]

\* An access of a core that misses in its caches.
Access(c, page, i) ==
  /\ ~packet.busy
  /\ tlb_translate(c, page)
  /\ \E e \in LookedUp(tlb'[c], page) :
       LET home == allocHomeId(net.nodes, Block(e.ppage, i)) IN
       packet' = IF home = c THEN NoPacket ELSE Packet(c, home, FALSE, [page |-> page, ppage |-> e.ppage])
  /\ UNCHANGED <<net, active>>

Arrived == packet.at = getLoc(net, packet.to)
Dir     == Towards(packet.at, getLoc(net, packet.to))
Link    == getLink(net, packet.at, Dir)

\* One turn of a loop of transmit; the assertion on link_cur stops the
\* program.
Hop ==
  /\ packet.busy /\ ~Arrived /\ Indexed(net, Link)
  /\ packet' = [packet EXCEPT !.at = Moved(@, Dir), !.hops = @ + 1]
  /\ UNCHANGED <<net, active, page_map, empty_page_num, tlb>>

\* The home answers; the answer of the home ends the access.
Arrive ==
  /\ packet.busy /\ Arrived
  /\ packet' = IF packet.isReply THEN NoPacket
               ELSE Packet(packet.to, packet.from, TRUE, packet.entry)
  /\ UNCHANGED <<net, active, page_map, empty_page_num, tlb>>

Next ==
  \/ \E c \in active, page \in Page, i \in 0..BlocksPerPage - 1 : Access(c, page, i)
  \/ Hop
  \/ Arrive

Spec == Init /\ [][Next]_vars
----------------------------------------------------------------------------
TypeOK ==
  /\ IsNet(net) /\ active \subseteq Node(net)
  /\ page_map \subseteq Entry /\ empty_page_num \in Nat
  /\ \A c \in Node(net) : tlb[c] \subseteq Entry /\ Cardinality(tlb[c]) <= TlbWays
  /\ packet.busy => /\ packet.from \in Node(net) /\ packet.to \in Node(net)
                    /\ packet.at \in Coord(net) /\ packet.hops \in Nat

\* A packet only uses links that were allocated; the test of getLink does not
\* ensure it in three dimensions.
LinkExists == packet.busy /\ ~Arrived => Link \in LinkArray(net)

\* Every packet takes a shortest way.
ShortestWay ==
  packet.busy => packet.hops + Distance(packet.at, getLoc(net, packet.to))
                   = Distance(getLoc(net, packet.from), getLoc(net, packet.to))

\* The link that a packet takes is the one between its two routers, in either
\* direction, and of no other pair of routers.
LinksApart ==
  packet.busy /\ ~Arrived =>
    \A b \in Coord(net), e \in Direction :
      Moved(b, e) \in Coord(net) =>
        ((getLink(net, b, e) = Link) <=> ({b, Moved(b, e)} = {packet.at, Moved(packet.at, Dir)}))

\* Pages of two programs, or of one, never share a physical page, although
\* cores pass from one program to the next with what their TLBs hold, and an
\* address that left a TLB is never out of date: the home of a block does not
\* change.
PagesApart ==
  /\ \A d, e \in page_map : (d.ppage = e.ppage) <=> (d.page = e.page)
  /\ \A e \in page_map : e.ppage < empty_page_num
  /\ \A c \in active : tlb[c] \subseteq page_map
  /\ packet.busy => packet.entry \in page_map

\* Every home serves blocks, none more than twice as many as another.
HomesShare ==
  LET round == 0..Pow2[CeilLog2(net.nodes)] - 1
      Served(h) == {b \in round : allocHomeId(net.nodes, b) = h} IN
  \A h \in Node(net) : Cardinality(Served(h)) \in 1..2

Allocated == 0..empty_page_num * BlocksPerPage - 1

\* Two blocks never look alike to a cache, whatever its number of sets.
FramesApart ==
  \A sets \in NumSets, b \in Allocated :
    \A a \in 0..b - 1 : addrParse(sets, a) # addrParse(sets, b)

\* "This function composes three separate parts ... into a memory address"
\* (src/src/cache.cpp:275): the address of a victim is the one it was put
\* there with.
VictimKnown ==
  \A sets \in NumSets, b \in Allocated : addrCompose(sets, addrParse(sets, b)) = b
=============================================================================
