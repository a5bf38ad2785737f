------------------------------ MODULE DhtNode ------------------------------
(***************************************************************************)
(* The program of every container (src/scripts/dht_node.rs): a node starts *)
(* as the seed, as a peer of the seed or isolated, bootstraps with         *)
(* retries, publishes its record or retrieves one with retries, and serves *)
(* until it is told to stop.  Several of them run, at any pace, on the     *)
(* network of Cluster.                                                     *)
(*                                                                         *)
(* Every publisher has a record of its own; the first one's uses           *)
(* FIXED_DID_UUID, and its key is the RETRIEVE_KEY of the retrievers.      *)
(* The environment is complete: BOOTSTRAP_ADDR parses, RETRIEVE_KEY is set. *)
(***************************************************************************)
EXTENDS Cluster

CONSTANTS
    Seed,         \* the node with IS_SEED
    Publishes,    \* publisher -> the key of its record
    Retrievers,   \* the nodes with ROLE=retriever
    RetrieveKey,
    BootRetries,  \* max_retries: 8
    Attempts      \* max_attempts: 10

Publishers == DOMAIN Publishes

VARIABLES
    start,    \* node -> "seed", "peer" or "isolated"
    pc,       \* node -> "off", "boot", "role", "active" or "stopped"
    tries,    \* node -> attempts so far of the loop it is in
    joined,   \* the nodes whose bootstrap found somebody
    said,     \* node -> what it reported last: "nothing", "published", "failed",
              \* "found" or "missing"
    known     \* history: the retrievers with an attempt after the publication

programVars == <<world, start, pc, tries, joined, said, known>>

Goto(n, to) == pc' = [pc EXCEPT ![n] = to]

(* start_server, and the first branch of run. *)
start_server(n) ==
    /\ pc[n] = "off"
    /\ world' = Listening(world, n)
    /\ Goto(n, IF start[n] = "peer" THEN "boot" ELSE "role")
    /\ UNCHANGED <<start, tries, joined, said, known>>

(* One attempt; after the last one the node continues anyway. *)
bootstrap_with_retries(n) ==
    /\ pc[n] = "boot"
    /\ \E luck \in Lucks(world) : \E r \in {bootstrap(world, n, Seed, luck)} :
          LET last == tries[n] + 1 = BootRetries
          IN  /\ world' = After(r.world, luck)
              /\ joined' = IF r.found # {} THEN joined \cup {n} ELSE joined
              /\ Goto(n, IF r.found # {} \/ last THEN "role" ELSE "boot")
              /\ tries' = [tries EXCEPT ![n] = IF r.found # {} \/ last THEN 0 ELSE @ + 1]
    /\ UNCHANGED <<start, said, known>>

(* The end of an attempt of n, which ends the loop or leaves it to retry. *)
Attempted(n, ok, success, failure) ==
    LET last == tries[n] + 1 = Attempts
    IN  /\ Goto(n, IF ok \/ last THEN "active" ELSE "role")
        /\ tries' = [tries EXCEPT ![n] = @ + 1]
        /\ said' = [said EXCEPT ![n] = IF ok THEN success ELSE IF last THEN failure ELSE @]

(* Mutant: every answer of set but a conflict is taken for a success. *)
PublishAnyway(n) ==
    /\ pc[n] = "role" /\ n \in Publishers
    /\ \E luck \in Lucks(world) :
          /\ world' = After(set_detailed(world, n, Publishes[n], luck).world, luck)
          /\ Attempted(n, TRUE, "published", "failed")
    /\ UNCHANGED <<start, joined, known>>

(* One set; a success is followed by a get on the spot. *)
run_publisher(n) ==
    /\ pc[n] = "role" /\ n \in Publishers
    /\ \E luck \in Lucks(world) : \E r \in {set_detailed(world, n, Publishes[n], luck)} :
          LET V == IF r.complete THEN get(r.world, n, Publishes[n], luck).world ELSE r.world
          IN  /\ world' = After(V, luck)
              /\ Attempted(n, r.complete, "published", "failed")
    /\ UNCHANGED <<start, joined, known>>

PublishedKey == \E p \in Publishers : Publishes[p] = RetrieveKey /\ said[p] = "published"

run_retriever(n) ==
    /\ pc[n] = "role" /\ n \in Retrievers
    /\ \E luck \in Lucks(world) : \E r \in {get(world, n, RetrieveKey, luck)} :
          /\ world' = After(r.world, luck)
          /\ Attempted(n, r.found, "found", "missing")
    /\ known' = IF PublishedKey THEN known \cup {n} ELSE known
    /\ UNCHANGED <<start, joined>>

(* Ctrl-C. *)
Stop(n) ==
    /\ pc[n] = "active"
    /\ world' = stop(world, n)
    /\ Goto(n, "stopped")
    /\ UNCHANGED <<start, tries, joined, said, known>>

ProgramInit ==
    /\ start \in [Publishers \cup Retrievers -> {"seed", "peer", "isolated"}]
    /\ \A n \in DOMAIN start : start[n] = "seed" <=> n = Seed
    /\ world = Nowhere
    /\ pc = [n \in DOMAIN start |-> "off"] /\ tries = [n \in DOMAIN start |-> 0]
    /\ joined = {} /\ said = [n \in DOMAIN start |-> "nothing"] /\ known = {}

ProgramNext ==
    \/ \E n \in DOMAIN start :
          \/ start_server(n) \/ bootstrap_with_retries(n)
          \/ run_publisher(n) \/ run_retriever(n) \/ Stop(n)
    \/ (Tasks \/ Elapse) /\ UNCHANGED <<start, pc, tries, joined, said, known>>

ProgramSpec == ProgramInit /\ [][ProgramNext]_programVars

-----------------------------------------------------------------------------
Stopped == {n \in DOMAIN start : pc[n] = "stopped"}

(* What the programs report holds.  A record reported as published is held by
   a node that runs, and by another node than its publisher when that one had
   joined, until a node stops; and k copies outlive k - 1 nodes that stop
   (run_publisher).  A retriever that joined, as the publisher had, misses a
   record that had been published before its last attempt only if a call was
   lost or a node stopped (run_retriever). *)
ProgramsSound ==
    /\ \A p \in Publishers : said[p] = "published" =>
          LET holders == {n \in world.up : Holding(world, n, Publishes[p])}
          IN  /\ Stopped = {} => holders # {} /\ (p \in joined => holders # {p})
              /\ p \in joined /\ Cardinality(Stopped) < ksize => holders # {}
    /\ \A n \in Retrievers :
          said[n] = "missing" /\ n \in known /\ n \in joined /\ world.losses = 0 /\ Stopped = {} =>
             \E p \in Publishers : Publishes[p] = RetrieveKey /\ p # Seed /\ p \notin joined
=============================================================================
