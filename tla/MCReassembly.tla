---------------------------- MODULE MCReassembly ----------------------------
(* Four messages of two fragments from three peers, more than the limits allow
   at once, in all and for p1; one that fits in a datagram; and one that the
   sender lets through but whose fragments go over the limit. *)
EXTENDS Reassembly, TLC
CONSTANTS a, b, c, d, e, f, p1, p2, p3
MCFrom == a :> p1 @@ b :> p1 @@ c :> p2 @@ d :> p3 @@ e :> p2 @@ f :> p3
MCSize == a :> 6 @@ b :> 8 @@ c :> 5 @@ d :> 7 @@ e :> 3 @@ f :> 9
(* One sender restarts, once. *)
MCRestarts == [p \in Peers |-> IF p = p1 THEN 1 ELSE 0]
NoRestarts == [p \in Peers |-> 0]
(* One message of the largest size encode_frame lets through. *)
LargestFrom == a :> p1
LargestSize == a :> 262144
=============================================================================
