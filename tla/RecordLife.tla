----------------------------- MODULE RecordLife -----------------------------
(***************************************************************************)
(* How long a record lives, and where: the hourly republication            *)
(* (src/src/network/maintenance.rs), the records sent to a node that joins *)
(* or comes back (src/src/protocol/welcome.rs), the network check of a     *)
(* replica without a copy (src/src/protocol/store_check.rs), the ages that *)
(* the storage keeps (src/src/storage.rs), and nodes that stop, lose their *)
(* link, join and return.                                                  *)
(*                                                                         *)
(* One record in one version: versions are in Replica and Publish.  Nodes  *)
(* are numbered by their distance to its key.  Each has a table of its     *)
(* own, and a node that is down stays in it until a request to it fails.   *)
(* A clock ticks REFRESH times an hour; what takes seconds or minutes (a   *)
(* retry, a probe) happens between two ticks.  The loops of the nodes have *)
(* any phase, and a pass may end late.  Nobody publishes the record again. *)
(***************************************************************************)
EXTENDS Integers, FiniteSets

CONSTANTS
    N, ksize,
    min_lookup_contacts,
    REFRESH,     \* ticks between two passes of a loop, and the age that is sent again
    TTL,
    Faults,      \* stops and lost links (bound)
    Hitches,     \* STOREs lost, newcomers that the queue of Welcome turns away, late passes (bound)
    Watch        \* ticks counted since the record was published (bound)

Nodes == 1..N

ASSUME RecordLifeAssumption ==
    /\ N \in Nat \ {0} /\ ksize \in Nat \ {0} /\ min_lookup_contacts \in Nat
    /\ REFRESH \in Nat \ {0} /\ TTL \in Nat /\ REFRESH < TTL
    /\ Faults \in Nat /\ Hitches \in Nat /\ Watch \in Nat

VARIABLES
    up,        \* the nodes that run and have a link
    age,       \* node -> the age of its copy, or -1 when it has none
    table,     \* node -> node -> "live", "failing", "stale", or "absent" from the table
    due,       \* node -> ticks until its next pass
    faults, losses, late,
    written,   \* ticks since the record was published
    lacking,   \* ticks, since the last disturbance, for which a node has lacked a copy it should have
    placed     \* all had theirs since the last disturbance

lifeTimeVars == <<up, age, table, due, faults, losses, late, written, lacking, placed>>

(* Three passes of a loop, one of them late. *)
Settled == 3 * REFRESH + 1

Least(m, n) == IF m < n THEN m ELSE n
Nearest(S) == {n \in S : Cardinality({d \in S : d < n}) < ksize}

(* get_default, iter_all: a copy that has expired is not there. *)
Expired(a) == a > TTL
Holds(n) == age[n] >= 0 /\ ~Expired(age[n])
Holders == {n \in up : Holds(n)}

(* A node goes or comes, or something is lost. *)
Disturbed(disturbed) ==
    IF disturbed THEN lacking' = 0 /\ placed' = FALSE ELSE UNCHANGED <<lacking, placed>>

-----------------------------------------------------------------------------
(* The view of one node. *)

Contacts(n, health) == {m \in Nodes \ {n} : table[n][m] \in health}

find_neighbors(n, exclude) ==
    LET healthy == Nearest(Contacts(n, {"live"}) \ exclude)
        not_stale == Nearest(Contacts(n, {"live", "failing"}) \ exclude)
    IN  IF Cardinality(healthy) >= min_lookup_contacts THEN healthy
        ELSE IF not_stale # {} THEN not_stale
        ELSE Nearest(Contacts(n, {"stale"}) \ exclude)

(* What a lookup of n hears of: the nodes it starts with, and those that the
   ones that tell report, save those n knows to fail (add_reported). *)
Heard(n, start, tellers) ==
    LET reported == [m \in tellers |-> Nearest(Contacts(m, {"live", "failing"}) \ {n})]
        hearing[i \in Nat] ==
            IF i = 0 THEN start
            ELSE LET S == hearing[i - 1]
                 IN  S \cup (UNION {reported[m] : m \in S \cap tellers} \ Contacts(n, {"failing", "stale"}))
    IN  hearing[N]

(* network_copy: the nodes that a replica without the record asks for a hash.
   Who holds the record answers with it and reports nobody. *)
Asked(n) ==
    LET start == find_neighbors(n, {}) \cap Contacts(n, {"live"})
    IN  start \cup Nearest(Heard(n, start, up \ Holders))

(* Nobody to ask, or one of them silent, and the STORE is refused. *)
network_copy(n) == Asked(n) # {} /\ Asked(n) \subseteq up

(* Mutant: a check that gives up counts no failures. *)
SilenceForgotten(n) == {}

(* note_no_answer: those it asked in vain count as failing. *)
note_no_answer(n) == Asked(n) \ up

(* record_failure of a contact that did not answer; who is not in the table
   is not counted. *)
Noted(n, silent, heard) ==
    [m \in Nodes |-> IF m \in silent /\ (m \in heard \/ table[n][m] = "live") THEN "failing"
                     ELSE IF m \in heard THEN "live" ELSE table[n][m]]

-----------------------------------------------------------------------------
(* Mutant: a record that is stored already keeps its age. *)
KeepAge(n, sent) == IF n \in sent /\ ~Holds(n) THEN 0 ELSE age[n]

(* A STORE of the record at n, insert_if_absent: written, or renewed. *)
StoreAt(n, sent) == IF n \in sent THEN 0 ELSE age[n]

(* The STOREs of s to these nodes, some of which may be lost.  Who has the
   record renews it; who does not checks first, and a refusal is no answer.
   s counts who did not answer, and whom its lookup called in vain, as
   failing; heard are those it has just heard from. *)
Send(s, targets, called, heard) ==
    \E lost \in SUBSET targets :
       LET empty == (targets \ lost) \ Holders
           stored == ((targets \ lost) \cap Holders) \cup {n \in empty : network_copy(n)}
           silent(n) == (IF n = s THEN called \cup (targets \ stored) ELSE {})
                        \cup (IF n \in empty THEN note_no_answer(n) ELSE {})
       IN  /\ losses' = losses + Cardinality(lost) /\ losses' + late' <= Hitches
           /\ age' = [n \in Nodes |-> StoreAt(n, stored)]
           /\ table' = [n \in Nodes |-> Noted(n, silent(n), IF n = s THEN heard ELSE {})]

-----------------------------------------------------------------------------
(* A lookup of the key by n finds the closest nodes it hears of.  The shortlist
   is cut to k while nodes that do not answer are in it; some were given up
   before the others were heard of. *)
find(n, given_up) == Nearest(Heard(n, find_neighbors(n, {}), up) \ ({n} \cup given_up))

(* Every contact of a node without a link is silent to it. *)
Gone(n) == IF n \in up THEN Nodes \ up ELSE Nodes \ {n}

(* schedule_refresh: a lookup of the copies older than an hour, which are sent
   to the nodes found; the copy that is sent is not renewed. *)
schedule_refresh(n) ==
    /\ due[n] = 0
    /\ late' \in {late, late + 1} /\ losses + late' <= Hitches
    /\ due' = [due EXCEPT ![n] = REFRESH + late' - late]
    /\ IF Holds(n) /\ age[n] >= REFRESH /\ find_neighbors(n, {}) # {}
       THEN \E given_up \in SUBSET Gone(n) :
               LET found == find(n, given_up)
               IN  Send(n, found \ Gone(n), given_up \cup (found \cap Gone(n)), {})
       ELSE UNCHANGED <<age, table, losses>>
    /\ Disturbed(losses' # losses)
    /\ UNCHANGED <<up, faults, written>>

(* replicate_to: whether m sends its copy to the newcomer n. *)
replicate_to(m, n) ==
    LET neighbors == find_neighbors(m, {n})
        new_node_close == neighbors = {} \/ \E d \in neighbors : n < d
        this_closest == \A d \in neighbors : m < d
    IN  new_node_close /\ this_closest

(* schedule_welcome_if_new: m hears from a node that is new to it, or that it
   counts as failing: by a request, or by the answer to a probe.  It is sent
   what it should hold, unless it failed for less than RETURNED_AFTER, or the
   queue is full. *)
schedule_welcome_if_new(m, n) ==
    /\ m # n /\ {m, n} \subseteq up /\ table[m][n] # "live"
    /\ UNCHANGED <<up, due, faults, late, written>>
    /\ \/ Send(m, IF Holds(m) /\ replicate_to(m, n) THEN {n} ELSE {}, {}, {n})
       \/ /\ losses' = losses + (IF table[m][n] = "failing" THEN 0 ELSE 1) /\ losses' + late <= Hitches
          /\ table' = [table EXCEPT ![m][n] = "live"] /\ UNCHANGED age
    /\ Disturbed(losses' # losses)

(* A node that stopped has an empty table, and no loop runs. *)
Stopped(n) == n \notin up /\ \A m \in Nodes : table[n][m] = "absent"

(* A node starts, or has its link again. *)
Join(n) ==
    /\ n \notin up /\ up' = up \cup {n}
    /\ Disturbed(TRUE)
    /\ UNCHANGED <<age, table, due, faults, losses, late, written>>

(* A node loses its link; or it stops, with or without its records, and tells
   some of the others (rpc_leave). *)
Fault(n) ==
    /\ n \in up /\ faults < Faults /\ faults' = faults + 1
    /\ up' = up \ {n}
    /\ \/ UNCHANGED <<age, table, due>>
       \/ /\ due' = [due EXCEPT ![n] = REFRESH]
          /\ age' \in {age, [age EXCEPT ![n] = -1]}
          /\ \E told \in SUBSET up :
                table' = [m \in Nodes |-> IF m = n THEN [d \in Nodes |-> "absent"]
                             ELSE IF m \in told THEN [table[m] EXCEPT ![n] = "absent"] ELSE table[m]]
    /\ Disturbed(TRUE)
    /\ UNCHANGED <<losses, late, written>>

(* A pass without a copy to send. *)
Idle(n) == ~Holds(n) \/ age[n] + 1 < REFRESH

(* The responsible nodes that lack the record. *)
Lacking == IF Holders = {} THEN {} ELSE Nearest(up) \ Holders

(* The nodes that hear, from others, of a node which is gone and not in their
   own table: they call it in vain each time, and cannot count it as failing. *)
Misled == {n \in up : \E m \in Heard(n, find_neighbors(n, {}), up) \ up : table[n][m] = "absent"}

(* A tick.  Nodes that are up have met; lookups of buckets and keys have met
   some contacts that do not answer, and probes have counted those that fail as
   stale, in five failures; prune_expired runs every minute: what has expired
   is gone. *)
LifeTick ==
    /\ \A n \in Nodes : due[n] > 0
    /\ \A m, n \in up : m # n => table[m][n] = "live"
    /\ due' = [n \in Nodes |-> IF Stopped(n) THEN due[n]
                               ELSE IF due[n] = 1 /\ Idle(n) THEN REFRESH ELSE due[n] - 1]
    /\ age' = [n \in Nodes |-> IF age[n] < 0 \/ Expired(age[n] + 1) THEN -1 ELSE age[n] + 1]
    /\ written' = Least(written + 1, Watch)
    /\ lacking' = IF Lacking = {} \/ Misled # {} THEN 0 ELSE Least(lacking + 1, Settled)
    /\ placed' = (Misled = {} /\ (placed \/ Nearest(up) \subseteq Holders))
    /\ UNCHANGED <<up, faults, losses, late>>
    /\ \E met \in SUBSET {c \in Nodes \X (Nodes \ up) : table[c[1]][c[2]] = "live"} :
          table' = [n \in Nodes |-> [m \in Nodes |->
             IF table[n][m] = "failing" \/ <<n, m>> \in met THEN "stale" ELSE table[n][m]]]

RecordLifeInit ==
    /\ up = Nodes /\ due \in [Nodes -> 1..REFRESH]
    /\ age = [n \in Nodes |-> IF n \in Nearest(Nodes) THEN 0 ELSE -1]
    /\ table = [n \in Nodes |-> [m \in Nodes |-> "live"]]
    /\ faults = 0 /\ losses = 0 /\ late = 0 /\ written = 0 /\ lacking = 0 /\ placed = TRUE

RecordLifeNext ==
    \/ \E n \in Nodes : schedule_refresh(n) \/ Join(n) \/ Fault(n)
    \/ \E m, n \in Nodes : schedule_welcome_if_new(m, n)
    \/ LifeTick

RecordLifeSpec == RecordLifeInit /\ [][RecordLifeNext]_lifeTimeVars

-----------------------------------------------------------------------------
(* The record is lost only by a fault: once all responsible nodes have had it,
   and until the next fault or lost STORE, it does not expire everywhere while
   two nodes are up, although a node that sends its copy never renews its own
   (schedule_refresh, insert_if_absent).  While a node is misled, a replica may
   refuse every copy, and the others may expire. *)
RecordSurvives ==
    [][Holders # {} /\ Holders' = {} => ~placed \/ ~placed' \/ Cardinality(up) < 2]_lifeTimeVars

(* A node that should hold the record, and lacks it while another has it, has it
   again before three passes are over (schedule_refresh, replicate_to): a pass
   leaves out copies that were renewed within the hour, and the STORE of one
   may be refused because the network check (network_copy) asks a node that is
   gone, which then counts as failing.  It may take longer only while a node is
   misled: it refuses every STORE on account of the node that is gone, or keeps
   a place for it among the k it sends its copy to, and the pass that reaches
   one holder alone keeps that one from sending its own. *)
CopiesPlaced == lacking < Settled

(* DESIGN.md, section 11: records expire 14 days after they were written. *)
ExpiresAfterTTL == written > TTL => Holders = {}
=============================================================================
