------------------------------ MODULE MCAuction ------------------------------
(* The three nodes of node_registry.NODES, with small disks. *)
EXTENDS Auction

CONSTANTS n1, n2, n3

MCNodes == <<n1, n2, n3>>
MCSize == {0, 1, 2}
=============================================================================
