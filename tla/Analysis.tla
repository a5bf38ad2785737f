------------------------------ MODULE Analysis ------------------------------
(***************************************************************************)
(* The topology analysis (src/examples/topology_analysis.rs): it starts    *)
(* the nodes, bootstraps them twice, publishes records and reads them      *)
(* back, and then judges the network by what the nodes hold and know.      *)
(*                                                                         *)
(* A record is its key; it is read back as it was published, since it has  *)
(* one version (Cluster).  An operation with a lost call may also last     *)
(* longer than OP_TIMEOUT: it is counted as failed, and what it asked of   *)
(* the nodes until then is taken to be all.  What is printed is left out.  *)
(***************************************************************************)
EXTENDS Cluster
LOCAL INSTANCE SequencesExt
LOCAL INSTANCE FiniteSetsExt

CONSTANTS
    NUM_NODES, NUM_RECORDS

VARIABLES
    nodes,    \* the ids of the nodes, in the order in which they start; the first is the seed
    records,  \* the keys of the records, in the order in which they are published
    phase,    \* "pass1", "pass2", "publish", "retrieve", "report" or "end"
    index,    \* the next index in the phase
    published, set_fail, get_ok, get_fail,
    verdict   \* the status of every check

analysisVars == <<world, nodes, records, phase, index, published, set_fail, get_ok, get_fail, verdict>>

Started == ToSet(nodes)
Checks == {"set", "get", "replication", "placement", "bucket", "local_top_k", "convergence"}

(* Outcomes after the operation r (its world and whether it succeeded): an
   operation that lost a call may also come too late. *)
Timely(luck) == IF luck.lost = {} THEN {TRUE} ELSE BOOLEAN

Step(size, next) ==
    IF index < size THEN index' = index + 1 /\ UNCHANGED phase ELSE index' = 1 /\ phase' = next

-----------------------------------------------------------------------------
(* All nodes but the seed bootstrap, one after the other, twice. *)
Bootstrap(pass, next) ==
    /\ phase = pass
    /\ \E p \in {nodes[index + 1]}, seed \in {nodes[1]}, luck \in Lucks(world) :
          world' = After(bootstrap(world, p, seed, luck).world, luck)
    /\ Step(NUM_NODES - 1, next)
    /\ UNCHANGED <<nodes, records, published, set_fail, get_ok, get_fail, verdict>>

Publish ==
    /\ phase = "publish"
    /\ \E writer \in {nodes[1 + ((index - 1) % NUM_NODES)]}, key \in {records[index]}, luck \in Lucks(world) :
       \E r \in {set_detailed(world, writer, key, luck)}, timely \in Timely(luck) :
          LET ok == r.complete /\ timely
          IN  /\ world' = After(r.world, luck)
              /\ published' = IF ok THEN Append(published, key) ELSE published
              /\ set_fail' = IF ok THEN set_fail ELSE set_fail + 1
    /\ Step(NUM_RECORDS, "retrieve")
    /\ UNCHANGED <<nodes, records, get_ok, get_fail, verdict>>

(* The reader is half the nodes away from the writer. *)
Retrieve ==
    /\ phase = "retrieve"
    /\ IF index > Len(published)
       THEN phase' = "report" /\ UNCHANGED <<world, index, get_ok, get_fail>>
       ELSE /\ \E reader \in {nodes[1 + ((index - 1 + NUM_NODES \div 2) % NUM_NODES)]},
                  key \in {published[index]}, luck \in Lucks(world) :
               \E r \in {get(world, reader, key, luck)}, timely \in Timely(luck) :
                  LET ok == r.found /\ timely
                  IN  /\ world' = After(r.world, luck)
                      /\ get_ok' = IF ok THEN get_ok + 1 ELSE get_ok
                      /\ get_fail' = IF ok THEN get_fail ELSE get_fail + 1
            /\ index' = index + 1 /\ UNCHANGED phase
    /\ UNCHANGED <<nodes, records, published, set_fail, verdict>>

-----------------------------------------------------------------------------
(* The diagnosis. *)
Count(P(_)) == Cardinality({key \in ToSet(published) : P(key)})

collect_storage_layout(key) == {n \in Started : Holding(world, n, key)}

print_replication_summary ==
    LET copies(key) == Cardinality(collect_storage_layout(key))
        Zero(key) == copies(key) = 0
        Under(key) == copies(key) < ksize
        Over(key) == copies(key) > ksize
    IN  [zero_copies |-> Count(Zero), under_replicated |-> Count(Under), over_replicated |-> Count(Over)]

verify_global_replica_placement ==
    LET closest(key) == Nearest(Started, key, ksize)
        missing(key) == closest(key) \ collect_storage_layout(key)
        None_(key) == missing(key) = closest(key)
        Partial(key) == missing(key) # {} /\ ~None_(key)
        Extras(key) == collect_storage_layout(key) \ closest(key) # {}
    IN  [none |-> Count(None_), partial |-> Count(Partial), with_extras |-> Count(Extras)]

(* The violations in the buckets B of node n, in the order of the list. *)
BucketViolations(n, B) ==
    LET keyspace_max == 2^Bits - 1
        expected_start[b \in DOMAIN B] ==
            IF b = 1 THEN 0
            ELSE IF B[b - 1].hi < keyspace_max THEN B[b - 1].hi + 1 ELSE expected_start[b - 1]
        peers == {<<b, j>> \in (DOMAIN B) \X (1..(ksize + 1)) : j <= Len(B[b].nodes)}
        peer(x) == B[x[1]].nodes[x[2]]
    IN  {<<"start", b>> : b \in {b \in DOMAIN B : B[b].lo # expected_start[b]}}
        \cup {<<"inverted", b>> : b \in {b \in DOMAIN B : B[b].hi < B[b].lo}}
        \cup {<<"above_k", b>> : b \in {b \in DOMAIN B : Len(B[b].nodes) > ksize}}
        \cup {<<"range", x>> : x \in {x \in peers : ~RT(n)!covers(B[x[1]], peer(x))}}
        \cup {<<"itself", x>> : x \in {x \in peers : peer(x) = n}}
        \cup {<<"duplicate", x>> : x \in {x \in peers : \E y \in peers \ {x} : peer(y) = peer(x)}}
        \cup (IF Last(B).hi # keyspace_max THEN {<<"end">>} ELSE {})

(* The heuristic reference is log2 of the number of nodes: here a power of 2. *)
inspect_bucket_structure ==
    LET Buckets(n) == world.net[n].buckets
        log2 == CHOOSE e \in 0..Bits : 2^e = NUM_NODES
    IN  [violations |-> MapThenSumSet(LAMBDA n : Cardinality(BucketViolations(n, Buckets(n))), Started),
         converged |-> 10 * MapThenSumSet(LAMBDA n : Len(Buckets(n)), Started) >= 7 * log2 * NUM_NODES]

(* Each table is asked for each record, and compared with all its contacts. *)
verify_local_top_k ==
    Cardinality({<<n, key>> \in Started \X ToSet(published) :
       neighbors(world, n, key) # Nearest(RT(n)!PrimaryOf(world.net[n]) \ {key}, key, ksize)})

Status(failed, warned) == IF failed THEN "Fail" ELSE IF warned THEN "Warn" ELSE "Pass"

Report ==
    /\ phase = "report" /\ phase' = "end"
    /\ LET replication == print_replication_summary
           placement == verify_global_replica_placement
           buckets == inspect_bucket_structure
       IN  verdict' =
           [set         |-> Status(set_fail > 0, FALSE),
            get         |-> Status(get_fail > 0 \/ get_ok # Len(published), FALSE),
            replication |-> Status(replication.zero_copies > 0,
                                   replication.under_replicated > 0 \/ replication.over_replicated > 0),
            placement   |-> Status(placement.none > 0, placement.partial > 0 \/ placement.with_extras > 0),
            bucket      |-> Status(buckets.violations > 0, FALSE),
            local_top_k |-> Status(verify_local_top_k > 0, FALSE),
            convergence |-> Status(FALSE, ~buckets.converged)]
    /\ UNCHANGED <<world, nodes, records, index, published, set_fail, get_ok, get_fail>>

-----------------------------------------------------------------------------
NoVerdict == [c \in Checks |-> "Pass"]

(* start_node, for every node. *)
AnalysisInit ==
    /\ nodes \in {s \in [1..NUM_NODES -> Nodes] : IsInjective(s)}
    /\ records \in {s \in [1..NUM_RECORDS -> Keys] : IsInjective(s)}
    /\ world = FoldLeft(Listening, Nowhere, nodes)
    /\ phase = "pass1" /\ index = 1 /\ published = <<>>
    /\ set_fail = 0 /\ get_ok = 0 /\ get_fail = 0 /\ verdict = NoVerdict

AnalysisNext ==
    \/ Bootstrap("pass1", "pass2") \/ Bootstrap("pass2", "publish")
    \/ Publish \/ Retrieve \/ Report
    \/ /\ phase # "end" /\ (Tasks \/ Elapse)
       /\ UNCHANGED <<nodes, records, phase, index, published, set_fail, get_ok, get_fail, verdict>>

AnalysisSpec == AnalysisInit /\ [][AnalysisNext]_analysisVars

-----------------------------------------------------------------------------
(* The analysis judges a network by its losses only.  When no call is lost,
   every SET completes, every record is found from the other side of the
   network, the k closest nodes and no others hold it, and every node answers
   with its top k.  One lost call does not take a published record from all of
   its k closest nodes; and whatever is lost, the buckets stay a partition in
   the order of the list and a published record is held (run, the statuses). *)
AnalysisSound ==
    phase = "end" =>
       /\ world.losses = 0 => \A c \in Checks \ {"convergence"} : verdict[c] = "Pass"
       /\ world.losses <= 1 => verdict.placement # "Fail"
       /\ verdict.bucket = "Pass" /\ verdict.replication # "Fail"
=============================================================================
