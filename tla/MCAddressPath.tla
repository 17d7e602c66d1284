---------------------------- MODULE MCAddressPath ----------------------------
(***************************************************************************)
(* Networks for TLC: those of two and three dimensions that are full, have *)
(* an incomplete last row, or leave a plane out.                           *)
(***************************************************************************)
EXTENDS AddressPath

NetsOf(type, nodes) ==
  {n \in [type : {type}, nodes : nodes, width : 1..4] : IsNet(n)}

SomeNets == NetsOf("MESH_2D", {1, 2, 4, 7}) \cup NetsOf("MESH_3D", {5, 8})
OneNet   == NetsOf("MESH_2D", {2})

\* Two programs use the same virtual page, and one of them another one.
Pages == {[prog |-> 1, vpage |-> 0], [prog |-> 1, vpage |-> 1], [prog |-> 2, vpage |-> 0]}
=============================================================================
