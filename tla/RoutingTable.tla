---------------------------- MODULE RoutingTable ----------------------------
(***************************************************************************)
(* The routing table of a node (src/src/routing.rs): k-buckets that split, *)
(* replacement lists, and the failures counted against contacts.           *)
(*                                                                         *)
(* Every operation runs under the write lock of the table and is one step. *)
(* A contact is its id.  Backoffs elapse at any time (RetryAfter).         *)
(***************************************************************************)
EXTENDS Integers, FiniteSets, TableParameters
LOCAL INSTANCE Sequences
LOCAL INSTANCE SequencesExt
LOCAL INSTANCE FiniteSetsExt

CONSTANTS
    node,               \* the id of this node
    Contacts,           \* the ids of the nodes that make contact
    MinLookupContacts   \* min_lookup_contacts

Ids == 0..(2^Bits - 1)

ASSUME RoutingAssumption ==
    /\ Bits \in Nat \ {0}
    /\ node \in Ids /\ Contacts \subseteq Ids
    /\ ksize \in Nat \ {0} /\ ReplacementFactor \in Nat
    /\ SplitModulus \in Nat \ {0} /\ Bits % SplitModulus = 0
    /\ StaleAfterFailures \in Nat \ {0}
    /\ MinLookupContacts \in Nat
    /\ None \notin Contacts

VARIABLES
    buckets,  \* sequence of [lo, hi, nodes, replacement_nodes]
    health,   \* per failing contact: its failures, and whether it is in its backoff
    oldest,   \* what the last add_contact returned: the contact to ping
    leaver    \* history: the contact that the last step let leave, or None

vars == <<buckets, health, oldest, leaver>>

-----------------------------------------------------------------------------
(* KBucket *)
NewBucket(lo, hi) == [lo |-> lo, hi |-> hi, nodes |-> <<>>, replacement_nodes |-> <<>>]
covers(b, id) == b.lo <= id /\ id <= b.hi
contains(b, n) == n \in ToSet(b.nodes)

(* At most max_replacement_nodes are kept, the newest ones. *)
Newest(s) ==
    SubSeq(s, 1 + Max({0, Len(s) - ReplacementFactor * ksize}), Len(s))

(* The bucket after add_node; its result is contains(add_node(b, n), n). *)
add_node(b, n) ==
    IF contains(b, n)
    THEN [b EXCEPT !.nodes = Append(Remove(@, n), n)]
    ELSE IF Len(b.nodes) < ksize
         THEN [b EXCEPT !.nodes = Append(@, n)]
         ELSE [b EXCEPT !.replacement_nodes = Newest(Append(Remove(@, n), n))]

remove_node(b, n) ==
    LET waiting == Remove(b.replacement_nodes, n)
    IN  IF ~contains(b, n) \/ waiting = <<>>
        THEN [b EXCEPT !.nodes = Remove(@, n), !.replacement_nodes = waiting]
        ELSE [b EXCEPT !.nodes = Append(Remove(@, n), Last(waiting)),
                       !.replacement_nodes = Front(waiting)]

(* Mutant: the contact in the middle goes to the upper half. *)
SplitBeforeMid(b) ==
    LET mid == b.lo + (b.hi - b.lo) \div 2
        all == b.nodes \o b.replacement_nodes
    IN  <<FoldLeft(add_node, NewBucket(b.lo, mid), SelectSeq(all, LAMBDA n : n < mid)),
          FoldLeft(add_node, NewBucket(mid + 1, b.hi), SelectSeq(all, LAMBDA n : n >= mid))>>

split(b) ==
    LET mid == b.lo + (b.hi - b.lo) \div 2
        all == b.nodes \o b.replacement_nodes
    IN  <<FoldLeft(add_node, NewBucket(b.lo, mid), SelectSeq(all, LAMBDA n : n <= mid)),
          FoldLeft(add_node, NewBucket(mid + 1, b.hi), SelectSeq(all, LAMBDA n : n > mid))>>

(* The length of the prefix that the ids of the primary contacts share. *)
depth(b) ==
    IF Len(b.nodes) = 0 THEN 0
    ELSE Max({d \in 0..Bits : \A m, n \in ToSet(b.nodes) :
                 m \div 2^(Bits - d) = n \div 2^(Bits - d)})

-----------------------------------------------------------------------------
(* RoutingTable.  T is a table: its buckets and its health. *)
Table == [buckets |-> buckets, health |-> health, oldest |-> oldest]
bucket_index_for(T, id) == CHOOSE i \in DOMAIN T.buckets : covers(T.buckets[i], id)
bucket_for(T, id) == T.buckets[bucket_index_for(T, id)]
WithBucket(T, id, b) == [T EXCEPT !.buckets[bucket_index_for(T, id)] = b]
Forget(h, n) == [m \in DOMAIN h \ {n} |-> h[m]]
has_failures(T, n) == n \in DOMAIN T.health
is_stale(T, n) == has_failures(T, n) /\ T.health[n].failures >= StaleAfterFailures

Removed(T, n) ==
    [WithBucket(T, n, remove_node(bucket_for(T, n), n)) EXCEPT !.health = Forget(@, n)]

(* Mutant: a full bucket gives up its oldest contact. *)
ReplaceOldest(T, n) ==
    LET b == bucket_for(T, n)
    IN  IF Len(b.nodes) < ksize \/ contains(b, n) THEN T ELSE Removed(T, Head(b.nodes))

(* A full bucket gives up its first stale contact for n. *)
replace_stale_if_full(T, n) ==
    LET b == bucket_for(T, n)
        stale == SelectSeq(b.nodes, LAMBDA m : is_stale(T, m))
    IN  IF Len(b.nodes) < ksize \/ contains(b, n) \/ stale = <<>>
        THEN T
        ELSE Removed(T, Head(stale))

(* The halves take the place of the bucket. *)
split_bucket(T, i) ==
    [T EXCEPT !.buckets = SubSeq(@, 1, i - 1) \o split(@[i]) \o SubSeq(@, i + 1, Len(@))]

(* One pass of insert: it ends with n added or kept as a replacement, or
   splits the bucket and goes round again. *)
Offered(T, n) == WithBucket(T, n, add_node(bucket_for(T, n), n))

SplitIfFull(T, n) ==
    LET b == bucket_for(T, n)
    IN  IF contains(b, n)
        THEN [table |-> [T EXCEPT !.oldest = None], done |-> TRUE]
        ELSE IF covers(b, node) \/ depth(b) % SplitModulus # 0
        THEN [table |-> split_bucket(T, bucket_index_for(T, n)), done |-> FALSE]
        ELSE [table |-> [T EXCEPT !.oldest = Head(b.nodes)], done |-> TRUE]

InsertOnce(s, n) == SplitIfFull(Offered(replace_stale_if_full(s.table, n), n), n)

(* A bucket can be halved Bits times. *)
insert(T, n) ==
    FoldLeft(LAMBDA s, i : IF s.done THEN s ELSE InsertOnce(s, n),
             [table |-> T, done |-> FALSE], [i \in 1..(Bits + 1) |-> i])

Become(T) ==
    buckets' = T.buckets /\ health' = T.health /\ oldest' = T.oldest /\ leaver' = None

Added(T, n) == IF n = node THEN [T EXCEPT !.oldest = None] ELSE insert(T, n).table

add_contact(n) == Become(Added(Table, n))

(* Called for the Leave of a registered contact. *)
remove_contact(n) ==
    LET T == Removed(Table, n)
    IN  buckets' = T.buckets /\ health' = T.health /\ leaver' = n /\ UNCHANGED oldest

Failures(n) == IF has_failures(Table, n) THEN health[n].failures ELSE 0

(* Counting stops at StaleAfterFailures: more make no difference. *)
Failed(T, n) ==
    LET f == IF has_failures(T, n) THEN T.health[n].failures ELSE 0
        h == [failures |-> Min({f + 1, StaleAfterFailures}), waiting |-> TRUE]
    IN  [T EXCEPT !.health = [m \in DOMAIN @ \cup {n} |-> IF m = n THEN h ELSE @[m]]]

FailureRecorded(T, n) ==
    LET b == bucket_for(T, n)
        U == Failed(T, n)
    IN  IF ~contains(b, n) THEN WithBucket(T, n, remove_node(b, n))
        ELSE IF has_failures(T, n) /\ T.health[n].waiting THEN T
        ELSE IF is_stale(U, n) /\ b.replacement_nodes # <<>> THEN Removed(U, n)
        ELSE U

record_failure(n) == Become(FailureRecorded(Table, n))

record_success(n) ==
    /\ n \in DOMAIN health
    /\ Become([Table EXCEPT !.health = Forget(@, n)])

(* The backoff of a contact elapses. *)
RetryAfter(n) ==
    /\ n \in DOMAIN health /\ health[n].waiting
    /\ Become([Table EXCEPT !.health[n].waiting = FALSE])

Init ==
    /\ buckets = <<NewBucket(0, 2^Bits - 1)>>
    /\ health = [n \in {} |-> 0]
    /\ oldest = None /\ leaver = None

Next ==
    \E n \in Contacts :
       \/ add_contact(n) \/ remove_contact(n)
       \/ record_failure(n) \/ record_success(n) \/ RetryAfter(n)

Spec == Init /\ [][Next]_vars

-----------------------------------------------------------------------------
(* find_neighbors, and what a node reports to others. *)
distance[a, b \in Ids] ==
    MapThenSumSet(LAMBDA i : IF (a \div 2^i) % 2 = (b \div 2^i) % 2 THEN 0 ELSE 2^i, 0..(Bits - 1))

PrimaryOf(T) == UNION {ToSet(T.buckets[i].nodes) : i \in DOMAIN T.buckets}
Primary == PrimaryOf(Table)
Replacements == UNION {ToSet(buckets[i].replacement_nodes) : i \in DOMAIN buckets}

FirstK(s) == SubSeq(s, 1, Min({Len(s), ksize}))

(* Mutant: only the bucket of the target is searched. *)
ClosestInBucket(T, target, exclude, keep) ==
    LET found == (ToSet(bucket_for(T, target).nodes) \cap keep) \ (exclude \cup {target})
    IN  FirstK(SetToSortSeq(found, LAMBDA m, n : distance[m, target] < distance[n, target]))

closest(T, target, exclude, keep) ==
    LET found == (PrimaryOf(T) \cap keep) \ (exclude \cup {target})
    IN  FirstK(SetToSortSeq(found, LAMBDA m, n : distance[m, target] < distance[n, target]))

find_neighbors_to_advertise(T, target, exclude) ==
    closest(T, target, exclude, {n \in Contacts : ~is_stale(T, n)})

find_neighbors(T, target, exclude) ==
    LET FirstLongEnough(healthy, not_stale) ==
            IF Len(healthy) >= MinLookupContacts THEN healthy
            ELSE IF not_stale # <<>> THEN not_stale
            ELSE closest(T, target, exclude, Contacts)
    IN  FirstLongEnough(closest(T, target, exclude, {n \in Contacts : ~has_failures(T, n)}),
                        find_neighbors_to_advertise(T, target, exclude))

-----------------------------------------------------------------------------
(* The type invariant of the table; the lists stay within their limits. *)
TypeOK ==
    /\ \A b \in ToSet(buckets) : /\ b.lo \in Ids /\ b.hi \in Ids
                                 /\ b.nodes \in Seq(Contacts) /\ Len(b.nodes) <= ksize
                                 /\ b.replacement_nodes \in Seq(Contacts)
                                 /\ Len(b.replacement_nodes) <= ReplacementFactor * ksize
    /\ DOMAIN health \subseteq Contacts
    /\ \A n \in DOMAIN health :
          health[n] \in [failures : 1..StaleAfterFailures, waiting : BOOLEAN]
    /\ oldest \in Contacts \cup {None} /\ leaver \in Contacts \cup {None}

(* After any number of splits, the buckets partition the key space, every
   contact is in the bucket that covers it, once, and this node is in none.
   Failures are counted for primary contacts only (the comment of
   ContactHealth): none stay behind when a contact is removed or replaced. *)
WellFormed ==
    /\ \A id \in Ids : Cardinality({i \in DOMAIN buckets : covers(buckets[i], id)}) = 1
    /\ \A b \in ToSet(buckets) :
          LET all == b.nodes \o b.replacement_nodes
          IN  /\ Cardinality(ToSet(all)) = Len(all)
              /\ \A n \in ToSet(all) : covers(b, n) /\ n # node
    /\ DOMAIN health \subseteq Primary

(* A node waits as a replacement only for a place in a full bucket without a
   stale contact: as soon as a place is free or a contact goes stale, the
   newest replacement has it (remove_node, record_failure, replace_stale_if_full). *)
ReplacementsWait ==
    \A b \in ToSet(buckets) : b.replacement_nodes # <<>> =>
       Len(b.nodes) = ksize /\ \A n \in ToSet(b.nodes) : ~is_stale(Table, n)

(* The structure of the table after any sequence of operations: well-typed,
   well-formed, and no replacement waits for a place that is free. *)
TableSound == TypeOK /\ WellFormed /\ ReplacementsWait

(* A contact leaves the table only if it says so, or if it is stale after
   STALE_AFTER_FAILURES failures in a row: a node that answers keeps its place.
   And only one that leaves makes the table smaller: a node that lost its own
   connection keeps its contacts (record_failure). *)
ContactsKept ==
    [][/\ \A n \in Primary \ Primary' : leaver' = n \/ Failures(n) >= StaleAfterFailures - 1
       /\ Cardinality(Primary') < Cardinality(Primary) => leaver' # None]_vars

(* find_neighbors leaves out a healthy contact only for k closer ones, and finds
   somebody while there is a contact, whatever has failed. *)
NeighborsAreClosest ==
    \A target \in Contacts \cup {node} :
       LET found == find_neighbors(Table, target, {})
           others == Primary \ (ToSet(found) \cup {target})
       IN  /\ found = <<>> => others = {}
           /\ \A n \in others :
                 \/ has_failures(Table, n)
                 \/ Len(found) = ksize /\ \A m \in ToSet(found) : distance[m, target] < distance[n, target]
=============================================================================
