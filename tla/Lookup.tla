------------------------------- MODULE Lookup -------------------------------
(***************************************************************************)
(* One iterative lookup of a key (src/src/crawling.rs): the node lookup,   *)
(* the value lookup of a publication, the read of a DID Document, the      *)
(* check of a STORE and the quorum read of the Status List.                *)
(*                                                                         *)
(* A peer is its distance to the key, so the k smallest are the k closest. *)
(* What a peer answers is chosen when it answers: nothing, a value, or up  *)
(* to k other peers.  A call that gets no answer ends at its timeout.      *)
(***************************************************************************)
EXTENDS Integers, FiniteSets

CONSTANTS
    N,        \* the peers of the network
    ksize,    \* k: the size of the shortlist, and of an answer
    alpha,    \* the peers asked at a time
    Values,   \* the records (or hashes of records) that peers may hold
    Accepted, \* the values that `accept` approves
    Kinds     \* the lookups to run

Peers == 1..N
LookupKinds == {"nodes", "find", "first", "check", "quorum"}

ASSUME LookupAssumption ==
    /\ N \in Nat /\ ksize \in Nat \ {0} /\ alpha \in Nat \ {0}
    /\ Accepted \subseteq Values /\ IsFiniteSet(Values)
    /\ Kinds \subseteq LookupKinds

VARIABLES
    kind,                  \* which lookup this is
    ask_everyone,          \* ask all uncontacted peers in each round
    failing,               \* contacts with failures, in the routing table
    contacts,              \* the contacts of the routing table
    initial,               \* the neighbours that the lookup starts from
    nearest, contacted,    \* the shortlist: its entries and whom it asked
    last_ids_crawled, failed, skipped,
    nearest_without_value, \* the closest peer that answered without the value
    waiting,               \* peers asked in this round and not answered yet
    replies,               \* answers not handled yet: <<peer, reply>>
    to_remove, found_values, incomplete,
    pc,                    \* "loop", "round" or "done"
    result,                \* how the lookup ended
    cached,                \* the peers that a copy of the value was sent to
    heard, answered        \* history: peers it learned of, and that answered it

start == <<kind, ask_everyone, contacts, initial>>
base == <<nearest, contacted, last_ids_crawled, failed, skipped>>
round == <<to_remove, found_values, incomplete, nearest_without_value>>
vars == <<start, base, round, failing, waiting, replies, pc, result, cached, heard, answered>>

-----------------------------------------------------------------------------
(* NodeHeap: the closest peers of a set, and a push into the shortlist. *)
Closest(S, n) == {p \in S : Cardinality({q \in S : q < p}) < n}

(* Mutant: the shortlist is filled once, and not sorted again. *)
PushUnsorted(heap, S, maxsize) == heap \cup Closest(S \ heap, maxsize - Cardinality(heap))

push(heap, S, maxsize) == Closest(heap \cup S, maxsize)

uncontacted == nearest \ contacted
have_contacted_all == uncontacted = {}

Minimum(a, b) == IF a < b THEN a ELSE b
Maximum(a, b) == IF a < b THEN b ELSE a

read_quorum == alpha \div 2 + 1
maximum_votes == alpha

(* A reply: no answer, a value, or up to k other peers. *)
Silent == [happened |-> FALSE, value |-> {}, nodes |-> {}]
Hit(v) == [happened |-> TRUE, value |-> {v}, nodes |-> {}]
Miss(S) == [happened |-> TRUE, value |-> {}, nodes |-> S]
RepliesOf(p) ==
    {Silent}
       \cup (IF kind = "nodes" THEN {} ELSE {Hit(v) : v \in Values})
       \cup {Miss(S) : S \in {S \in SUBSET (Peers \ {p}) : Cardinality(S) <= ksize}}

(* The votes for v among the values found, as <<voter, value>>; voter 0 is
   the local copy. *)
Votes(found, v) == {f \in found : f[2] = v}

(* The value with a strict majority of the votes, if one has it. *)
strict_quorum_value(found, minimum_votes) ==
    LET required == Maximum(minimum_votes, Cardinality(found) \div 2 + 1)
        highest(v) == \A w \in Values : Cardinality(Votes(found, w)) <= Cardinality(Votes(found, v))
        winners == {v \in Values : Cardinality(Votes(found, v)) >= required /\ highest(v)}
    IN  IF Cardinality(winners) = 1 THEN winners ELSE {}

(* Routing table: healthy contacts, unless too few remain.  No contact has
   failed often enough here to be stale. *)
find_neighbors(known, bad) ==
    LET healthy == Closest(known \ bad, ksize)
    IN  IF Cardinality(healthy) >= read_quorum THEN healthy ELSE Closest(known, ksize)

Outcome(status, value, nodes) ==
    [status |-> status, value |-> value, nodes |-> nodes,
     unresponsive |-> IF status \in {"nodes", "tie"} THEN failed \cup skipped ELSE {}]
Running == [status |-> "running", value |-> {}, nodes |-> {}, unresponsive |-> {}]
lookup_nodes(status) == Outcome(status, {}, nearest)

-----------------------------------------------------------------------------
(* The lookup starts from the neighbours the routing table gives; the check
   of a STORE leaves out the failing ones.  The Status List read counts the
   local copy, if there is one, as a vote. *)
Init ==
    /\ kind \in Kinds
    /\ contacts \in SUBSET Peers /\ failing \in SUBSET contacts
    /\ ask_everyone \in (IF kind = "check" THEN BOOLEAN ELSE {FALSE})
    /\ initial = find_neighbors(contacts, failing) \ (IF kind = "check" THEN failing ELSE {})
    /\ initial # {}
    /\ nearest = push({}, initial, ksize) /\ contacted = {} /\ last_ids_crawled = {}
    /\ failed = {} /\ skipped = {} /\ nearest_without_value = {}
    /\ waiting = {} /\ replies = {} /\ to_remove = {} /\ incomplete = FALSE
    /\ found_values \in {{}} \cup (IF kind = "quorum" THEN {{<<0, v>>} : v \in Values} ELSE {})
    /\ pc = "loop" /\ result = Running /\ cached = {}
    /\ heard = initial /\ answered = {}

(* A round of a quorum read asks no more peers than votes remain; the others
   have no limit but the shortlist. *)
limit == IF kind = "quorum" THEN maximum_votes - Cardinality(found_values) ELSE Cardinality(nearest)

(* The peers of the next round: alpha, or all when the shortlist has not
   changed since the last round. *)
next_peers ==
    LET count == IF ask_everyone \/ nearest = last_ids_crawled THEN Cardinality(nearest) ELSE alpha
    IN  Closest(uncontacted, Minimum(count, limit))

(* Mutant: the lookup goes on until the shortlist is full. *)
DecidedWhenFull ==
    \/ have_contacted_all /\ Cardinality(nearest) = ksize
    \/ kind = "find" /\ found_values # {}

(* The values found in the round decide `find`; those found so far decide
   `find_quorum`; the others end when no peer is left to ask. *)
Decided ==
    \/ have_contacted_all
    \/ kind = "find" /\ found_values # {}
    \/ kind = "quorum" /\ strict_quorum_value(found_values, read_quorum) # {}
    \/ kind = "quorum" /\ Cardinality(found_values) >= maximum_votes

(* find_round, and the head of the round in `search`. *)
Ask ==
    /\ pc = "loop" /\ ~Decided
    /\ waiting' = next_peers
    /\ contacted' = contacted \cup waiting'
    /\ last_ids_crawled' = nearest
    /\ pc' = "round" /\ to_remove' = {}
    /\ UNCHANGED <<start, nearest, failed, skipped, found_values, incomplete, nearest_without_value,
                   failing, replies, result, cached, heard, answered>>

(* call_find_node, call_find: an answer makes the peer alive in the routing
   table, a timeout counts as a failure of a contact. *)
Complete(p, reply) ==
    /\ pc = "round" /\ p \in waiting
    /\ reply \in RepliesOf(p)
    /\ waiting' = waiting \ {p}
    /\ replies' = replies \cup {<<p, reply>>}
    /\ failing' = IF reply.happened THEN failing \ {p} ELSE failing \cup ({p} \cap contacts)
    /\ answered' = IF reply.happened THEN answered \cup {p} ELSE answered
    /\ UNCHANGED <<start, base, round, pc, result, cached, heard>>

searching == kind \in {"first", "check"}

(* `search` handles an answer as it comes; a find_round returns when the last
   call of the round has ended, and its answers are handled in any order. *)
Next_reply(p, reply) == pc = "round" /\ <<p, reply>> \in replies /\ (searching \/ waiting = {})

(* Mutant: a peer that does not answer is forgotten. *)
ForgetSilence(p, reply) ==
    /\ Next_reply(p, reply) /\ ~reply.happened
    /\ replies' = replies \ {<<p, reply>>}
    /\ to_remove' = to_remove \cup {p}
    /\ UNCHANGED <<start, base, found_values, incomplete, nearest_without_value,
                   failing, waiting, pc, result, cached, heard, answered>>

(* No answer. *)
NoAnswer(p, reply) ==
    /\ Next_reply(p, reply) /\ ~reply.happened
    /\ replies' = replies \ {<<p, reply>>}
    /\ to_remove' = to_remove \cup {p}
    /\ incomplete' = TRUE
    /\ UNCHANGED <<start, base, found_values, nearest_without_value,
                   failing, waiting, pc, result, cached, heard, answered>>

(* A value: `search` ends with the first one it accepts and drops the others. *)
Value(p, reply) ==
    /\ Next_reply(p, reply) /\ reply.value # {}
    /\ IF searching /\ reply.value \subseteq Accepted
       THEN /\ pc' = "done" /\ result' = Outcome("found", reply.value, {})
            /\ waiting' = {} /\ replies' = {}
       ELSE /\ replies' = replies \ {<<p, reply>>}
            /\ UNCHANGED <<pc, result, waiting>>
    /\ found_values' = IF searching THEN found_values
                       ELSE found_values \cup {<<p, v>> : v \in reply.value}
    /\ UNCHANGED <<start, base, to_remove, incomplete, nearest_without_value,
                   failing, cached, heard, answered>>

(* A list of nodes: add_reported leaves out those that failed in this lookup
   or that the routing table knows are failing. *)
add_reported(p, reply) ==
    /\ Next_reply(p, reply) /\ reply.happened /\ reply.value = {}
    /\ LET known_failing == reply.nodes \cap failing
       IN  /\ skipped' = skipped \cup known_failing
           /\ nearest' = push(nearest, reply.nodes \ (failed \cup known_failing), ksize)
    /\ nearest_without_value' = IF kind = "find" /\ p \in nearest
                                THEN push(nearest_without_value, {p}, 1)
                                ELSE nearest_without_value
    /\ replies' = replies \ {<<p, reply>>}
    /\ heard' = heard \cup reply.nodes
    /\ UNCHANGED <<start, contacted, last_ids_crawled, failed, to_remove, found_values, incomplete,
                   failing, waiting, pc, result, cached, answered>>

(* Mutant: a peer that does not answer stays in the shortlist. *)
RemoveNothing ==
    /\ pc = "round" /\ waiting = {} /\ replies = {}
    /\ failed' = failed \cup to_remove
    /\ pc' = "loop"
    /\ UNCHANGED <<start, nearest, contacted, last_ids_crawled, skipped, round,
                   failing, waiting, replies, result, cached, heard, answered>>

(* The end of a round. *)
remove_failed ==
    /\ pc = "round" /\ waiting = {} /\ replies = {}
    /\ nearest' = nearest \ to_remove
    /\ failed' = failed \cup to_remove
    /\ pc' = "loop"
    /\ UNCHANGED <<start, contacted, last_ids_crawled, skipped, round,
                   failing, waiting, replies, result, cached, heard, answered>>

(* `search` gives up at its deadline, at the head of a round or while it
   waits.  The peers that have been silent long enough count as failed. *)
Deadline ==
    /\ kind = "check" /\ result = Running
    /\ \/ pc = "loop" /\ ~have_contacted_all /\ UNCHANGED failing
       \/ /\ pc = "round" /\ waiting # {} /\ replies = {}
          /\ failing' \in {failing, failing \cup (waiting \cap contacts)}
    /\ pc' = "done" /\ result' = Outcome("incomplete", {}, {}) /\ waiting' = {}
    /\ UNCHANGED <<start, base, round, replies, cached, heard, answered>>

(* The ends of the five lookups.  `find` sends a copy of the value it found
   to the closest peer that did not have it. *)
Decide ==
    /\ pc = "loop" /\ Decided /\ pc' = "done"
    /\ LET value == strict_quorum_value(found_values, IF kind = "find" THEN 1 ELSE read_quorum)
       IN  /\ result' = CASE kind = "nodes" -> lookup_nodes("nodes")
                          [] kind = "find" /\ found_values = {} -> lookup_nodes("nodes")
                          [] kind = "find" /\ found_values # {} /\ value = {} -> lookup_nodes("tie")
                          [] kind \in {"find", "quorum"} /\ value # {} -> Outcome("found", value, {})
                          [] kind = "quorum" /\ value = {} -> Outcome("no_quorum", {}, {})
                          [] searching -> Outcome(IF incomplete THEN "incomplete" ELSE "not_found", {}, {})
           /\ cached' = IF kind = "find" /\ value # {} THEN nearest_without_value ELSE {}
    /\ UNCHANGED <<start, base, round, failing, waiting, replies, heard, answered>>

Next ==
    \/ Ask
    \/ \E p \in waiting : \E reply \in RepliesOf(p) : Complete(p, reply)
    \/ \E r \in replies : NoAnswer(r[1], r[2]) \/ Value(r[1], r[2]) \/ add_reported(r[1], r[2])
    \/ remove_failed
    \/ Deadline
    \/ Decide

(* Every call ends at its timeout at the latest, and the task of the lookup
   is scheduled again whenever it can go on. *)
Spec == Init /\ [][Next]_vars /\ WF_vars(Next)

-----------------------------------------------------------------------------
(* The type invariant, and who may be where. *)
TypeOK ==
    /\ kind \in Kinds /\ ask_everyone \in BOOLEAN
    /\ contacts \subseteq Peers /\ failing \subseteq contacts /\ initial \subseteq contacts
    /\ nearest \subseteq heard /\ heard \subseteq Peers
    /\ contacted \subseteq Peers /\ last_ids_crawled \subseteq Peers
    /\ failed \subseteq contacted /\ skipped \subseteq heard /\ to_remove \subseteq contacted
    /\ nearest_without_value \subseteq answered /\ answered \subseteq contacted
    /\ waiting \subseteq contacted
    /\ \A r \in replies : r[1] \in contacted /\ r[2] \in RepliesOf(r[1])
    /\ found_values \subseteq (contacted \cup {0}) \X Values
    /\ incomplete \in BOOLEAN /\ pc \in {"loop", "round", "done"}
    /\ result.status \in {"running", "nodes", "tie", "found", "not_found", "incomplete", "no_quorum"}
    /\ result.value \subseteq Values /\ result.nodes \subseteq heard
    /\ cached \subseteq answered

(* The nodes that a lookup gives when it has asked them all have answered it:
   a peer that timed out does not come back through the answer of another,
   and one that entered the shortlist late has been asked (find_lookup_nodes,
   and `find` without a value). *)
NodesResponded == result.status = "nodes" => result.nodes \subseteq answered

(* `search` says NotFound only if every peer it asked answered, including
   those pushed out of the shortlist since. *)
NotFoundIsComplete == result.status = "not_found" => contacted \subseteq answered

(* The check of a replica that asks everyone says NotFound only after every
   neighbour it knew has answered: earlier answers cannot push one out. *)
NeighborsHeard == result.status = "not_found" /\ ask_everyone => initial \subseteq answered

(* Silence is never taken for an answer: a lookup is well-typed, the nodes it
   gives have answered, and a replica's check has heard its neighbours
   (find_lookup_nodes, search). *)
SilenceCounts == TypeOK /\ NodesResponded /\ NeighborsHeard

(* The Status List read takes a value only with a strict majority of all the
   votes it collected, at least read_quorum of them, and collects at most
   alpha votes, one for each peer. *)
QuorumRead ==
    kind = "quorum" =>
       /\ Cardinality(found_values) <= maximum_votes
       /\ \A f, g \in found_values : f[1] = g[1] => f = g
       /\ \A v \in result.value :
             /\ Cardinality(Votes(found_values, v)) >= read_quorum
             /\ 2 * Cardinality(Votes(found_values, v)) > Cardinality(found_values)

(* A node lookup in which every peer answered gives the k closest of all the
   peers it learned of, although its shortlist forgets the farther ones. *)
FindsClosest ==
    result.status = "nodes" /\ failed \cup skipped = {} => result.nodes = Closest(heard, ksize)

(* What a lookup returns is what its answers give: the closest of the nodes,
   and the value of a majority (NodeHeap, find_quorum). *)
ResultFollows == FindsClosest /\ QuorumRead

(* "Until the k closest nodes it knows have all answered": a node lookup
   gives fewer than k nodes only if it knows no other that may answer. *)
KClosestAnswered ==
    result.status = "nodes" => result.nodes = Closest(heard \ result.unresponsive, ksize)

(* Every lookup ends, whatever its peers answer. *)
Terminates == <>(pc = "done")
=============================================================================
