------------------------------ MODULE Cluster ------------------------------
(***************************************************************************)
(* Several nodes with their routing tables and stores, and the operations  *)
(* of a Server on them: bootstrap, set, get and stop (src/src/network),    *)
(* with the handlers of the peers that they reach (src/src/protocol).      *)
(*                                                                         *)
(* An operation is a function from the world before it to the world after  *)
(* it: the programs that use a Server wait for one before the next.  The   *)
(* calls of a round are made nearest first; other orders are in Lookup.    *)
(* Every record has one version, signed by its owner; rivals are in        *)
(* Publish.  What an operation meets is its luck: the calls <<caller,      *)
(* peer, what>> of which the request or the answer is lost for good, and   *)
(* whether a contact that answers again had been silent for long.          *)
(***************************************************************************)
EXTENDS Integers, FiniteSets, Sequences, TableParameters
LOCAL INSTANCE SequencesExt
LOCAL INSTANCE FiniteSetsExt

CONSTANTS
    alpha,    \* the peers that a lookup asks at a time
    Nodes,    \* the ids of the nodes
    Keys,     \* the keys of the records
    Losses    \* operations with a lost call (bound)

VARIABLE
    world     \* net: node -> table; stored: <<node, key>>; up: the nodes that run;
              \* seeds: the nodes with seeds; welcoming, pings: tasks <<node, peer>>;
              \* losses: operations with a lost call

RT(n) == INSTANCE RoutingTable WITH
    node <- n, Contacts <- Nodes, MinLookupContacts <- alpha \div 2 + 1,
    buckets <- world.net[n].buckets, health <- world.net[n].health,
    oldest <- world.net[n].oldest, leaver <- None

Min2(a, b) == IF a < b THEN a ELSE b
distance_to(n, key) == RT(n)!distance[n, key]
Sorted(S, key) == SetToSortSeq(S, LAMBDA m, n : distance_to(m, key) < distance_to(n, key))
Nearest(S, key, n) == LET First(s) == ToSet(SubSeq(s, 1, Min2(n, Len(s)))) IN First(Sorted(S, key))
neighbors(W, p, key) == ToSet(RT(p)!find_neighbors(W.net[p], key, {}))
Holding(W, p, key) == <<p, key>> \in W.stored

NewTable == [buckets |-> <<RT(CHOOSE n \in Nodes : TRUE)!NewBucket(0, 2^Bits - 1)>>,
             health |-> [n \in {} |-> 0], oldest |-> None]

(* listen: a node with an empty table. *)
Listening(W, p) == [W EXCEPT !.net[p] = NewTable, !.up = @ \cup {p}]

(* No node runs. *)
Nowhere == [net |-> [n \in Nodes |-> NewTable], stored |-> {}, up |-> {}, seeds |-> {},
            welcoming |-> {}, pings |-> {}, losses |-> 0]

Lucks(W) ==
    LET peers == {c \in W.up \X W.up : c[1] # c[2]}
        lost == {{}} \cup (IF W.losses < Losses
                           THEN {{<<c[1], c[2], w>>} : c \in peers, w \in {"request", "answer"}}
                           ELSE {})
        failing == \E p \in Nodes : DOMAIN W.net[p].health # {}
    IN  [lost : lost, late : IF failing THEN BOOLEAN ELSE {FALSE}]

(* The world after an operation that met this luck. *)
After(W, luck) == [W EXCEPT !.losses = @ + Cardinality(luck.lost)]

-----------------------------------------------------------------------------
(* Contacts, at node p. *)
note_failure(W, p, n) == [W EXCEPT !.net[p] = RT(p)!FailureRecorded(@, n)]
note_alive(W, p, n) == [W EXCEPT !.net[p].health = RT(p)!Forget(@, n)]

(* The newcomer n enters the table, which becomes T; the records of p wait to
   be sent to it, if p has any. *)
Welcomed(W, p, n, T) ==
    [W EXCEPT !.net[p] = T,
              !.pings = IF T.oldest = None THEN @ ELSE @ \cup {<<p, T.oldest>>},
              !.welcoming = IF \E key \in Keys : Holding(W, p, key) THEN @ \cup {<<p, n>>} ELSE @]

schedule_welcome_if_new(W, p, n, luck) ==
    LET returned == luck.late /\ RT(p)!has_failures(W.net[p], n)
    IN  IF ~returned /\ n \in RT(p)!PrimaryOf(W.net[p])
        THEN note_alive(W, p, n)
        ELSE Welcomed(W, p, n, RT(p)!Added(note_alive(W, p, n).net[p], n))

(* Requests that reach q, and answers that come back. *)
Reached(W, p, q, luck) == q \in W.up /\ <<p, q, "request">> \notin luck.lost
Heard(W, p, q, luck) == Reached(W, p, q, luck) /\ <<p, q, "answer">> \notin luck.lost

(* The answer of q to a FindNode ("nodes"), FindValue or FindHash of p, or
   silence, and the world after it. *)
Reported(W, q, p, key, hit) ==
    [world |-> W, happened |-> TRUE, hit |-> hit,
     nodes |-> IF hit THEN {} ELSE ToSet(RT(q)!find_neighbors_to_advertise(W.net[q], key, {p}))]

rpc_find(W, q, p, key, kind, luck) ==
    Reported(schedule_welcome_if_new(W, q, p, luck), q, p, key, kind # "nodes" /\ Holding(W, q, key))

Silence(W) == [world |-> W, happened |-> FALSE, hit |-> FALSE, nodes |-> {}]

(* What p makes of the answer, or of what it did not hear of it. *)
Returned(answer, p, q, heard, luck) ==
    IF heard THEN [answer EXCEPT !.world = schedule_welcome_if_new(@, p, q, luck)]
    ELSE Silence(note_failure(answer.world, p, q))

call_find(W, p, q, key, kind, luck) ==
    Returned(IF Reached(W, p, q, luck) THEN rpc_find(W, q, p, key, kind, luck) ELSE Silence(W),
             p, q, Heard(W, p, q, luck), luck)

-----------------------------------------------------------------------------
(* A lookup c of p (Lookup has its steps): "nodes", "find", "first" or "check". *)
NewCrawl(W, p, key, kind, peers, everyone) ==
    [world |-> W, p |-> p, key |-> key, kind |-> kind, ask_everyone |-> everyone,
     nearest |-> Nearest(peers, key, ksize), contacted |-> {}, last |-> {},
     failed |-> {}, found |-> FALSE, without |-> {}]

next_peers(c) ==
    LET rest == c.nearest \ c.contacted
    IN  IF c.ask_everyone \/ c.nearest = c.last THEN rest ELSE Nearest(rest, c.key, alpha)

(* The answer a in the round of c; failing_among leaves out the failing contacts. *)
Answered(c, q, a) ==
    LET failing == DOMAIN a.world.net[c.p].health
    IN  IF ~a.happened THEN [c EXCEPT !.world = a.world, !.failed = @ \cup {q}]
        ELSE IF a.hit THEN [c EXCEPT !.world = a.world, !.found = TRUE]
        ELSE [c EXCEPT !.world = a.world, !.without = Nearest(@ \cup ({q} \cap c.nearest), c.key, 1),
                       !.nearest = Nearest(@ \cup (a.nodes \ (c.failed \cup failing)), c.key, ksize)]

WithoutFailed(c) == [c EXCEPT !.nearest = @ \ c.failed]

find_round(c, luck) ==
    LET asked == next_peers(c)
        marked == [c EXCEPT !.contacted = @ \cup asked, !.last = c.nearest]
        Ask(d, q) == Answered(d, q, call_find(d.world, d.p, q, d.key, d.kind, luck))
    IN  WithoutFailed(FoldLeft(Ask, marked, Sorted(asked, c.key)))

(* A value ends a lookup for it; a peer that is silent ends a check, which
   waits for it until its deadline. *)
Decided(c) ==
    \/ c.nearest \subseteq c.contacted
    \/ c.found /\ c.kind \in {"find", "first"}
    \/ c.failed # {} /\ c.kind = "check"

RECURSIVE Crawled(_, _)
Crawled(c, luck) == IF Decided(c) THEN c ELSE Crawled(find_round(c, luck), luck)

Crawl(W, p, key, kind, peers, everyone, luck) ==
    Crawled(NewCrawl(W, p, key, kind, peers, everyone), luck)

-----------------------------------------------------------------------------
(* network_copy: an empty replica q asks the nodes closest to the key that do
   not fail.  It may store when it had somebody to ask and all answered. *)
CheckEnded(c, asked) == [world |-> c.world, unknown |-> asked = {} \/ c.failed # {}]

network_copy(W, q, key, luck) ==
    LET known == neighbors(W, q, key)
        asked == known \ DOMAIN W.net[q].health
        closer == {n \in known : distance_to(n, key) < distance_to(q, key)}
    IN  CheckEnded(Crawl(W, q, key, "check", asked, Cardinality(closer) < ksize, luck), asked)

(* rpc_store at q for p, and what it does after the check. *)
StoreChecked(check, q, p, key, luck) ==
    LET V == [check.world EXCEPT !.stored = @ \cup {<<q, key>>}]
    IN  IF check.unknown THEN Silence(check.world)
        ELSE [world |-> schedule_welcome_if_new(V, q, p, luck), happened |-> TRUE]

rpc_store(W, q, p, key, luck) ==
    StoreChecked(IF Holding(W, q, key) THEN [world |-> W, unknown |-> FALSE]
                 ELSE network_copy(W, q, key, luck),
                 q, p, key, luck)

Acknowledged(answer, p, q, heard) ==
    LET ok == answer.happened /\ heard
    IN  [world |-> IF ok THEN note_alive(answer.world, p, q) ELSE note_failure(answer.world, p, q),
         ok |-> ok]

call_store_rpc(W, p, q, key, luck) ==
    Acknowledged(IF Reached(W, p, q, luck) THEN rpc_store(W, q, p, key, luck) ELSE Silence(W),
                 p, q, Heard(W, p, q, luck))

(* The STOREs of p to these nodes: the world, and those that acknowledged. *)
StoreAll(W, p, targets, key, luck) ==
    LET Count(s, q, r) == [world |-> r.world, acks |-> s.acks \cup (IF r.ok THEN {q} ELSE {})]
        Send(s, q) == Count(s, q, call_store_rpc(s.world, p, q, key, luck))
    IN  FoldLeft(Send, [world |-> W, acks |-> {}], Sorted(targets, key))

-----------------------------------------------------------------------------
(* Operations of a Server. *)
call_ping_addr(W, p, q, luck) ==
    LET V == IF Reached(W, p, q, luck) THEN schedule_welcome_if_new(W, q, p, luck) ELSE W
    IN  IF Heard(W, p, q, luck)
        THEN [world |-> schedule_welcome_if_new(V, p, q, luck), ok |-> TRUE]
        ELSE [world |-> V, ok |-> FALSE]

bootstrap(W, p, seed, luck) ==
    LET From(r) == Crawl(r.world, p, p, "nodes", IF r.ok THEN {seed} ELSE {}, FALSE, luck)
        Result(c) == [world |-> c.world, found |-> c.nearest]
    IN  Result(From(call_ping_addr([W EXCEPT !.seeds = @ \cup {p}], p, seed, luck)))

discover_publish_nodes(W, p, key, luck) ==
    Crawl(W, p, key, "nodes", neighbors(W, p, key), FALSE, luck)

(* The lookup of a publication: a value that `find` finds is cached at the
   nearest node that did not have it, and is the one to be published. *)
Found(c, p, key, luck) ==
    IF c.found
    THEN discover_publish_nodes(StoreAll(c.world, p, c.without, key, luck).world, p, key, luck)
    ELSE c

check_publish_state(W, p, key, luck) ==
    IF Holding(W, p, key) THEN discover_publish_nodes(W, p, key, luck)
    ELSE Found(Crawl(W, p, key, "find", neighbors(W, p, key), FALSE, luck), p, key, luck)

select_responsible_nodes(p, key, found) == Nearest(found \cup {p}, key, ksize)

(* set_digest_detailed, once its lookup c ended. *)
StoreAtChosen(c, p, key, luck) ==
    LET chosen == select_responsible_nodes(p, key, c.nearest)
        V == [c.world EXCEPT !.stored = @ \cup (IF p \in chosen THEN {<<p, key>>} ELSE {})]
        cut_off == chosen \ {p} = {} /\ (RT(p)!PrimaryOf(V.net[p]) # {} \/ p \in V.seeds)
        Result(s) == [world |-> s.world, complete |-> s.acks = chosen \ {p} /\ ~cut_off]
    IN  Result(StoreAll(V, p, chosen \ {p}, key, luck))

set_detailed(W, p, key, luck) == StoreAtChosen(check_publish_state(W, p, key, luck), p, key, luck)

get(W, p, key, luck) ==
    LET Result(c) == [world |-> c.world, found |-> c.found]
    IN  IF Holding(W, p, key) THEN [world |-> W, found |-> TRUE]
        ELSE Result(Crawl(W, p, key, "first", neighbors(W, p, key), FALSE, luck))

(* stop: the neighbours are told, and remove the contact; the process ends. *)
rpc_leave(W, q, p) == [W EXCEPT !.net[q] = RT(q)!Removed(@, p)]

stop(W, p) ==
    LET V == FoldLeft(LAMBDA U, q : IF q \in U.up THEN rpc_leave(U, q, p) ELSE U, W,
                      Sorted(neighbors(W, p, p), p))
        Others(tasks) == {t \in tasks : t[1] # p}
    IN  [V EXCEPT !.net[p] = NewTable, !.up = @ \ {p}, !.stored = {s \in @ : s[1] # p},
                  !.welcoming = Others(@), !.pings = Others(@)]

-----------------------------------------------------------------------------
(* Tasks of the nodes. *)
(* Mutant: a newcomer is sent every record. *)
ReplicateAll(W, p, n, luck) ==
    LET V == [W EXCEPT !.welcoming = @ \ {<<p, n>>}]
    IN  FoldSet(LAMBDA key, U : call_store_rpc(U, p, n, key, luck).world, V,
                {key \in Keys : Holding(W, p, key)})

(* replicate_to: p sends the newcomer n the records that it should hold. *)
replicate_to(W, p, n, luck) ==
    LET Due(key) ==
            LET known == ToSet(RT(p)!find_neighbors(W.net[p], key, {n}))
            IN  /\ Holding(W, p, key)
                /\ known = {} \/ \E m \in known : distance_to(n, key) < distance_to(m, key)
                /\ \A m \in known : distance_to(p, key) < distance_to(m, key)
        V == [W EXCEPT !.welcoming = @ \ {<<p, n>>}]
    IN  FoldSet(LAMBDA key, U : call_store_rpc(U, p, n, key, luck).world, V, {key \in Keys : Due(key)})

(* The ping of the oldest contact of a full bucket. *)
call_ping_node(W, p, q, luck) ==
    LET Ended(r) == IF r.ok THEN r.world ELSE note_failure(r.world, p, q)
    IN  Ended(call_ping_addr([W EXCEPT !.pings = @ \ {<<p, q>>}], p, q, luck))

Tasks ==
    \E luck \in Lucks(world) :
       \/ \E t \in world.welcoming : world' = After(replicate_to(world, t[1], t[2], luck), luck)
       \/ \E t \in world.pings : world' = After(call_ping_node(world, t[1], t[2], luck), luck)

(* The backoff of a failing contact elapses. *)
Elapse ==
    \E p \in Nodes : \E n \in DOMAIN world.net[p].health :
       /\ world.net[p].health[n].waiting
       /\ world' = [world EXCEPT !.net[p].health[n].waiting = FALSE]
=============================================================================
