------------------------------ MODULE Welcome ------------------------------
(***************************************************************************)
(* The queue of the nodes that are sent the records they should hold       *)
(* (src/src/protocol/welcome.rs).  Handlers of messages, on the workers    *)
(* and in tasks of their own, meet nodes at the same time; each looks at   *)
(* the map of the nodes in flight, at its length and then inserts, three   *)
(* accesses that others come between.  A welcome then waits for the        *)
(* semaphore, which serves in order, scans the storage and sends.          *)
(***************************************************************************)
EXTENDS Integers, Sequences, FiniteSets

CONSTANTS
    Newcomers,             \* nodes that make contact
    Handlers,              \* handlers that run at once
    MAX_WELCOME_QUEUE, WELCOME_CONCURRENCY,
    Meetings               \* messages from new or returning nodes (bound)

ASSUME WelcomeAssumption ==
    MAX_WELCOME_QUEUE \in Nat /\ WELCOME_CONCURRENCY \in Nat \ {0} /\ Meetings \in Nat

VARIABLES
    meeting,            \* what each handler is doing: [step, peer], or the step "idle"
    met,                \* messages so far
    welcome_in_flight,  \* the nodes waiting for, or receiving, their records
    permits,            \* free permits of the semaphore
    queue,              \* welcomes waiting for a permit, in order
    replicating         \* welcomes that hold one

welcomeVars == <<meeting, met, welcome_in_flight, permits, queue, replicating>>

Idle == [step |-> "idle"]
At(h, step) == meeting[h].step = step
MovesTo(h, step) == meeting' = [meeting EXCEPT ![h].step = step]
Leaves(h) == meeting' = [meeting EXCEPT ![h] = Idle]

-----------------------------------------------------------------------------
(* schedule_welcome_if_new, once the node has entered the routing table. *)
Meet(h, p) ==
    /\ At(h, "idle") /\ met < Meetings /\ met' = met + 1
    /\ meeting' = [meeting EXCEPT ![h] = [step |-> "contains", peer |-> p]]
    /\ UNCHANGED <<welcome_in_flight, permits, queue, replicating>>

contains_key(h) ==
    /\ At(h, "contains")
    /\ IF meeting[h].peer \in welcome_in_flight THEN Leaves(h) ELSE MovesTo(h, "length")
    /\ UNCHANGED <<met, welcome_in_flight, permits, queue, replicating>>

(* A node met beyond the limit is left to the hourly republication. *)
CheckLength(h) ==
    /\ At(h, "length")
    /\ IF Cardinality(welcome_in_flight) >= MAX_WELCOME_QUEUE THEN Leaves(h) ELSE MovesTo(h, "insert")
    /\ UNCHANGED <<met, welcome_in_flight, permits, queue, replicating>>

(* Mutant: what the insertion returns is ignored. *)
InsertAlways(h) ==
    /\ At(h, "insert")
    /\ queue' = Append(queue, meeting[h].peer)
    /\ welcome_in_flight' = welcome_in_flight \cup {meeting[h].peer}
    /\ Leaves(h)
    /\ UNCHANGED <<met, permits, replicating>>

(* The insertion tells whether another handler was first; if not, the task
   that waits for a permit is started. *)
InsertAndSpawn(h) ==
    /\ At(h, "insert")
    /\ queue' = IF meeting[h].peer \in welcome_in_flight THEN queue ELSE Append(queue, meeting[h].peer)
    /\ welcome_in_flight' = welcome_in_flight \cup {meeting[h].peer}
    /\ Leaves(h)
    /\ UNCHANGED <<met, permits, replicating>>

acquire_owned ==
    /\ queue # <<>> /\ permits > 0
    /\ permits' = permits - 1 /\ queue' = Tail(queue)
    /\ replicating' = Append(replicating, Head(queue))
    /\ UNCHANGED <<meeting, met, welcome_in_flight>>

(* Mutant: each STORE of a replication asks for a permit of the same semaphore. *)
StoresWait(i) ==
    /\ i \in DOMAIN replicating /\ permits > 0
    /\ replicating' = SubSeq(replicating, 1, i - 1) \o SubSeq(replicating, i + 1, Len(replicating))
    /\ permits' = permits + 1
    /\ welcome_in_flight' = welcome_in_flight \ {replicating[i]}
    /\ UNCHANGED <<meeting, met, queue>>

(* replicate_to returns, the permit is dropped and the node removed.  Whether
   its records arrived does not matter here. *)
WelcomeEnds(i) ==
    /\ i \in DOMAIN replicating
    /\ replicating' = SubSeq(replicating, 1, i - 1) \o SubSeq(replicating, i + 1, Len(replicating))
    /\ permits' = permits + 1
    /\ welcome_in_flight' = welcome_in_flight \ {replicating[i]}
    /\ UNCHANGED <<meeting, met, queue>>

WelcomeInit ==
    /\ meeting = [h \in Handlers |-> Idle] /\ met = 0
    /\ welcome_in_flight = {} /\ permits = WELCOME_CONCURRENCY /\ queue = <<>> /\ replicating = <<>>

Scheduling(h) == contains_key(h) \/ CheckLength(h) \/ InsertAndSpawn(h)
Replication == acquire_owned \/ \E i \in 1..WELCOME_CONCURRENCY : WelcomeEnds(i)

WelcomeNext ==
    \/ \E h \in Handlers : Scheduling(h) \/ \E p \in Newcomers : Meet(h, p)
    \/ Replication

(* Handlers and tasks are scheduled, and every STORE of a replication is
   answered or times out. *)
WelcomeFairness == WF_welcomeVars(Replication) /\ WF_welcomeVars(\E h \in Handlers : Scheduling(h))

WelcomeSpec == WelcomeInit /\ [][WelcomeNext]_welcomeVars /\ WelcomeFairness

-----------------------------------------------------------------------------
(* However handlers interleave, a node has one welcome, the nodes in flight are
   exactly those with one, no more than WELCOME_CONCURRENCY scan the storage,
   and the limit of the queue, checked before the insertion, is exceeded by less
   than the handlers that run at once (schedule_welcome_if_new). *)
WelcomeBounded ==
    LET all == queue \o replicating
    IN  /\ Len(replicating) = WELCOME_CONCURRENCY - permits /\ permits >= 0
        /\ \A i, j \in DOMAIN all : all[i] = all[j] => i = j
        /\ welcome_in_flight = {all[i] : i \in DOMAIN all}
        /\ Cardinality(welcome_in_flight) < MAX_WELCOME_QUEUE + Cardinality(Handlers)

(* No node stays in flight for ever, where it would never again be sent its
   records (schedule_welcome_if_new). *)
WelcomesEnd == <>[](welcome_in_flight = {})
=============================================================================
