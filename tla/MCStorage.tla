----------------------------- MODULE MCStorage -----------------------------
(* Two threads, two keys, a short and a long record, and a budget that holds
   one record of each length but not two long ones. *)
EXTENDS Storage, TLC

CONSTANTS short, long

MCValueLen == short :> 1 @@ long :> 3

Symmetry == Permutations(Keys) \cup Permutations(Threads)
=============================================================================
