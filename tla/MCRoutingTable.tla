--------------------------- MODULE MCRoutingTable ---------------------------
(* Ids of 4 bits, with node 0.  8 and 10 share a prefix of 2 bits, on which a
   bucket of two does not split; 8 and 9, or 8 and 12, make it split. *)
EXTENDS RoutingTable
=============================================================================
