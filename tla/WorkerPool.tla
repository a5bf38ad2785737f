----------------------------- MODULE WorkerPool -----------------------------
(***************************************************************************)
(* The receive loop of Server::listen (src/src/network/mod.rs) and the     *)
(* workers that handle the datagrams (transport.rs, handle_datagram).      *)
(*                                                                         *)
(* Each worker has a bounded queue.  The loop offers a datagram to every   *)
(* queue in turn without waiting, then waits for one.  A STORE to an empty *)
(* replica asks other nodes, and their answers come in through the same    *)
(* socket, loop and workers: the lookup runs apart, in its own task.       *)
(***************************************************************************)
EXTENDS Integers, FiniteSets, Sequences
LOCAL INSTANCE SequencesExt

CONSTANTS
    num_workers,          \* available_parallelism()
    WORKER_QUEUE_DEPTH,   \* 256
    MAX_STORE_LOOKUPS,    \* STOREs that wait for a lookup at once
    Requests,             \* requests that other nodes send (bound)
    Stores                \* those that are a STORE to an empty replica

ASSUME PoolAssumption ==
    /\ num_workers \in Nat \ {0} /\ WORKER_QUEUE_DEPTH \in Nat \ {0}
    /\ MAX_STORE_LOOKUPS \in Nat /\ Stores \subseteq Requests

(* A datagram is a request, or the answer that the lookup of a STORE waits for. *)
Datagram == {<<"request", r>> : r \in Requests} \cup {<<"answer", r>> : r \in Stores}
Worker == 0 .. num_workers - 1

VARIABLES
    arriving,   \* datagrams in the buffer of the socket, oldest first
    sent,       \* history: the datagrams sent to this node
    job,        \* <<>>, or the datagram that the loop waits to pass on, and to whom
    idx,        \* the worker whose turn it is
    queues,     \* Worker -> the datagrams in its channel
    busy,       \* Worker -> <<>>, or <<d>> for the datagram that it handles
    lookups,    \* STOREs whose lookup runs, each with a slot
    handled     \* datagrams whose handling is over

poolVars == <<arriving, sent, job, idx, queues, busy, lookups, handled>>

-----------------------------------------------------------------------------
(* Others send: a request at any time, an answer to a lookup that asks. *)
Arrive(d) ==
    /\ d \notin sent /\ (d[1] = "answer" => d[2] \in lookups)
    /\ arriving' = Append(arriving, d) /\ sent' = sent \cup {d}
    /\ UNCHANGED <<job, idx, queues, busy, lookups, handled>>

(* Mutant: a datagram that finds every queue full is dropped. *)
DropWhenFull(d, base) ==
    LET free == {i \in Worker : Len(queues[(base + i) % num_workers]) < WORKER_QUEUE_DEPTH}
    IN  IF free = {} THEN UNCHANGED <<queues, idx, job>>
        ELSE LET w == (base + CHOOSE i \in free : \A j \in free : i <= j) % num_workers
             IN  /\ queues' = [queues EXCEPT ![w] = Append(@, d)]
                 /\ idx' = (w + 1) % num_workers /\ UNCHANGED job

(* try_send, to each worker in turn from base; nothing else runs in between. *)
Offer(d, base) ==
    LET free == {i \in Worker : Len(queues[(base + i) % num_workers]) < WORKER_QUEUE_DEPTH}
    IN  IF free = {} THEN job' = <<[datagram |-> d, to |-> base]>> /\ UNCHANGED <<queues, idx>>
        ELSE LET w == (base + CHOOSE i \in free : \A j \in free : i <= j) % num_workers
             IN  /\ queues' = [queues EXCEPT ![w] = Append(@, d)]
                 /\ idx' = (w + 1) % num_workers /\ UNCHANGED job

Receive ==
    /\ job = <<>> /\ arriving # <<>>
    /\ Offer(Head(arriving), idx)
    /\ arriving' = Tail(arriving)
    /\ UNCHANGED <<sent, busy, lookups, handled>>

(* send, once the queue of the base worker has room. *)
SendWaiting ==
    /\ job # <<>> /\ Len(queues[job[1].to]) < WORKER_QUEUE_DEPTH
    /\ queues' = [queues EXCEPT ![job[1].to] = Append(@, job[1].datagram)]
    /\ idx' = (job[1].to + 1) % num_workers /\ job' = <<>>
    /\ UNCHANGED <<arriving, sent, busy, lookups, handled>>

Take(w) ==
    /\ busy[w] = <<>> /\ queues[w] # <<>>
    /\ busy' = [busy EXCEPT ![w] = <<Head(queues[w])>>]
    /\ queues' = [queues EXCEPT ![w] = Tail(@)]
    /\ UNCHANGED <<arriving, sent, job, idx, lookups, handled>>

Over(w) ==
    /\ busy' = [busy EXCEPT ![w] = <<>>]
    /\ handled' = handled \cup {busy[w][1]}

(* Mutant: a STORE is handled by the worker, which waits for its lookup. *)
WaitInline(w) ==
    LET d == busy[w][1]
        waits == d \in {<<"request", r>> : r \in Stores} /\ <<"answer", d[2]>> \notin handled
    IN  /\ busy[w] # <<>>
        /\ IF waits THEN UNCHANGED <<busy, handled>> ELSE Over(w)
        /\ lookups' = IF waits THEN lookups \cup {d[2]} ELSE lookups \ {d[2]}
        /\ UNCHANGED <<arriving, sent, job, idx, queues>>

(* handle_datagram.  A STORE that needs a lookup takes a slot and is spawned,
   or is dropped; an answer goes to the lookup that waits for it. *)
handle_datagram(w) ==
    LET d == busy[w][1]
        store == d[1] = "request" /\ d[2] \in Stores
    IN  /\ busy[w] # <<>>
        /\ Over(w)
        /\ lookups' = IF d[1] = "answer" THEN lookups \ {d[2]}
                      ELSE IF store /\ Cardinality(lookups) < MAX_STORE_LOOKUPS
                      THEN lookups \cup {d[2]} ELSE lookups
        /\ UNCHANGED <<arriving, sent, job, idx, queues>>

PoolInit ==
    /\ arriving = <<>> /\ sent = {} /\ job = <<>> /\ idx = 0
    /\ queues = [w \in Worker |-> <<>>] /\ busy = [w \in Worker |-> <<>>]
    /\ lookups = {} /\ handled = {}

PoolWork == Receive \/ SendWaiting \/ \E w \in Worker : Take(w) \/ handle_datagram(w)

PoolNext == PoolWork \/ \E d \in Datagram : Arrive(d)

(* The loop and the workers are tasks, which the runtime schedules fairly; a
   node that is asked answers, which is the case in which nothing may time out. *)
PoolFairness ==
    /\ WF_poolVars(Receive \/ SendWaiting)
    /\ \A w \in Worker : WF_poolVars(Take(w) \/ handle_datagram(w))
    /\ \A r \in Stores : WF_poolVars(Arrive(<<"answer", r>>))

PoolSpec == PoolInit /\ [][PoolNext]_poolVars /\ PoolFairness

-----------------------------------------------------------------------------
Places(d) ==
    Cardinality({i \in DOMAIN arriving : arriving[i] = d})
    + Cardinality({i \in DOMAIN job : job[i].datagram = d})
    + Cardinality({wi \in Worker \X (1 .. WORKER_QUEUE_DEPTH) :
                      wi[2] \in DOMAIN queues[wi[1]] /\ queues[wi[1]][wi[2]] = d})
    + Cardinality({w \in Worker : busy[w] = <<d>>})
    + (IF d \in handled THEN 1 ELSE 0)

(* "When all channels are full the receive loop blocks on the base worker
   rather than dropping" (Server::listen): a datagram that arrived is in one
   queue, held by the loop or one worker, or handled, and handled once.  Queues
   and lookups keep to their limits. *)
PoolConserves ==
    /\ \A d \in Datagram : Places(d) = IF d \in sent THEN 1 ELSE 0
    /\ idx \in Worker /\ Len(job) <= 1
    /\ \A w \in Worker : Len(queues[w]) <= WORKER_QUEUE_DEPTH
    /\ lookups \subseteq Stores /\ Cardinality(lookups) <= MAX_STORE_LOOKUPS

(* "It could leave every worker waiting for answers queued behind it"
   (handle_datagram): however many STOREs arrive at once, every datagram is
   handled in the end and every lookup gets its answer. *)
PoolDrains == <>[](handled = sent /\ lookups = {})
=============================================================================
