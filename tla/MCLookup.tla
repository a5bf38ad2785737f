------------------------------ MODULE MCLookup ------------------------------
(* Four peers around a shortlist of three (two in the run for
   KClosestAnswered): a peer that the routing table knows
   can be pushed out, come back through another answer, or fail. *)
EXTENDS Lookup
=============================================================================
