------------------------------ MODULE MCPublish ------------------------------
(* Records r1 and s1 are rival first versions, r2 and q2 versions that r1
   authorises.  Operations that run together: two publications of rival
   records; a rotation while another server publishes the old record again; a
   new Status List; and two rotations of the same record. *)
EXTENDS Publish, TLC
CONSTANTS r1, s1, r2, q2, first, rival, again, rotate, rotate_too, list
MCPrev == r1 :> Absent @@ s1 :> Absent @@ r2 :> r1 @@ q2 :> r1
Does(kind, node, v) == [kind |-> kind, node |-> node, value |-> v]
MCOp ==
    first :> Does("set", 1, r1) @@ rival :> Does("set", 3, s1) @@ again :> Does("set", 3, r1)
    @@ rotate :> Does("update", 2, r2) @@ rotate_too :> Does("update", 1, q2)
    @@ list :> Does("status", 1, r2)

Empty == [n \in 1..N |-> Absent]
Somewhere == {f \in [1..N -> {r1, Absent}] : f # Empty}
Scenario(records, ops) == {[record |-> f, ops |-> ops] : f \in records}

MCStart ==
    Scenario({Empty, [Empty EXCEPT ![2] = s1]}, {first, rival})
    \cup Scenario({f \in Somewhere : f[1] = r1 /\ f[4] = r1}, {rotate, again})
    \cup Scenario(Somewhere, {list})

Rotations == Scenario({[n \in 1..N |-> r1]}, {rotate, rotate_too})
=============================================================================
