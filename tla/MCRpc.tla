------------------------------- MODULE MCRpc --------------------------------
(* A STORE and two lookups of different keys, at one peer. *)
EXTENDS Rpc, TLC
CONSTANTS c1, c2, c3, p1, record, k1, k2
MCTo == [c \in Calls |-> p1]
MCKind == [c \in Calls |-> IF c = c1 THEN "Store" ELSE "FindNode"]
MCContent == c1 :> record @@ c2 :> k1 @@ c3 :> k2
=============================================================================
