# A TLA+ development of auth-kademlia-rs

auth-kademlia-rs is a Kademlia DHT over UDP whose records are authenticated. A
key holds either a DID Document, signed by the key it contains, or the Status
List, signed by an issuer. A node is one `Server` with a store, a routing table
and a protocol object. Datagrams are handled by a pool of workers and by the
tasks they spawn, so that almost every operation interleaves with every other.

This directory holds the models of its parts, what TLC checks of them on small
instances, and what TLAPS proves of them for every instance. `PROJECT.json`
lists the parts, the runs, the source lines behind each definition, the
hazards, the mutants that show each property can fail, and the theorems.

## 1. The parts of the system

| Part | Source | Model |
|---|---|---|
| Record store | `storage.rs` | `Storage`, `AtomicStore` |
| Record requests of a replica | `protocol/handlers.rs`, `store_check.rs`, `transport.rs` | `Replica` |
| Verification and its cache | `auth_handler.rs`, `signature_cache.rs`, `crypto/` | `Verification` |
| Routing table | `routing.rs`, `node.rs` | `RoutingTable` |
| Contacts | `protocol/contacts.rs`, `network/maintenance.rs` | `Membership` |
| Welcome of new nodes | `protocol/welcome.rs` | `Welcome`, `RecordLife` |
| Republication and expiry | `network/maintenance.rs` | `RecordLife` |
| Lookups | `crawling.rs`, `node.rs` (`NodeHeap`), `network/read.rs` | `Lookup` |
| Fragmentation and reassembly | `fragmentation.rs`, `protocol/transport.rs` | `Reassembly` |
| Requests and answers | `protocol/transport.rs`, `messages.rs`, `handlers.rs` | `Rpc` |
| Round-trip estimates | `retransmit.rs` | `RoundTrips` |
| Publication and update | `network/publish.rs`, `network/update.rs`, `protocol/client.rs` | `Publish` |
| Worker pool | `network/mod.rs`, `protocol/transport.rs` | `WorkerPool` |
| Server life cycle | `network/mod.rs`, `protocol/mod.rs`, `py_bindings.rs` | `ServerLife` |
| Owner of a DID | `testbed/node.rs`, `testbed/did.rs` | `Ownership` |
| Several nodes together | `network/`, `protocol/` | `Cluster` |
| Topology analysis | `examples/topology_analysis.rs` | `Analysis` |
| Container program | `scripts/dht_node.rs` | `DhtNode` |
| Counters, other examples | `counters.rs`, `examples/`, `scripts/`, `testbed/` | no (section 8) |

Paths are below `src/src`; those of `examples`, `scripts` and `testbed` below
`src`.

How they interact: an operation of a `Server` (publish, update, get) runs a
lookup, which reads the routing table and asks peers through `call` of the
protocol. `call` numbers the message, cuts it into fragments, and waits for the
answer that has its number. At the peer the fragments are put together and a
worker handles the request; a STORE that finds the replica empty runs a lookup
of its own, the network check, before it writes into the store. Each model takes
the parts below it at their boundary, as weakly as those parts promise:

- `Publish` lets a lookup be answered by any set of nodes and lets requests and
  answers be lost, late or repeated, which is what `Lookup` and `Rpc` allow;
- `Replica` lets the network check end with any result, and its writes are the
  atomic operations of `AtomicStore`, which it includes (`INSTANCE`);
- `Storage` is shown to implement `AtomicStore`;
- `Lookup` lets a peer answer anything, and routing-table health is an input;
- `Rpc` takes a whole message as one datagram; `Reassembly` says when that is so;
- `Rpc` lets the wait before a copy be any of a set; `RoundTrips` bounds it;
- `Membership` and every node of `Cluster` include the operations of
  `RoutingTable` (`INSTANCE`); `Analysis` and `DhtNode` extend `Cluster`.

## 2. The modules

Identifiers keep the names of the source. Strings, formats and bytes are
abstracted to model values; a record is a model value with its length, its DID
and its signer where a property needs them.

**Storage** has one step per atomic access of `ForgetfulStorage`: the entry lock
of the map, the `fetch_update` that reserves bytes, the write, the `fetch_sub`
that releases bytes, and each visit of `retain` in `prune_expired`. `inflight`
is a history of the bytes a thread has charged and no entry holds yet. Threads
run `set`, `insert_if_absent` and `prune_expired` concurrently and time passes
between any two steps. **AtomicStore** is the promise: a call takes effect in one
step with the right status, and expired records may vanish.

**Replica** follows a STORE, UPDATE or UpdateStatusList from the decoded request
to its answer: the set of requests in progress that suppresses copies, the test
`store_needs_lookup`, the places for STOREs that wait for a lookup, the task
spawned for it, the network check, verification, and the write. Reading the old
record of an UPDATE, verifying and writing are separate steps, as in the code,
where an `await` lies between them.

**Verification** has the record format, the algorithms by the lengths that select
them, the rule for DID records, rotations and the Status List, and the cache. A
check looks in the cache, verifies on another thread, and inserts, with other
checks, evictions and a key file that is truncated and rewritten in between.

**RoutingTable** has the list of buckets with their ranges, splitting,
replacement lists, eviction after failures, backoff, and `find_neighbors`. Each
operation is one action, since each runs under the write lock. Its operators take
the table as an argument, so that `Cluster` can have one for each node.
**TableParameters** holds the constants of a table, which the two share.

**Membership** has the handlers that learn of a node from a message, one step for
each time they take the lock of the table, the calls that count a failure, and
the maintenance loop with its probes and its seeds. Peers come, go and move.

**RoundTrips** has the calls of `record` on its map as steps of concurrent tasks,
and the integer arithmetic of the estimates.

**Lookup** has the five lookups in one module, since they share `SpiderCrawl`:
of nodes, of a value before a publication (`find`), of a DID Document
(`find_first_valid`), of the network check (`search` with a deadline) and of
the quorum read. Peers are numbered by their distance to the target. Answers
arrive one by one in any order; the code's handling of each is an action.

**Reassembly** has senders that number and cut messages and restart, and the
receiver's map with its global limit, its limit for each peer, and its expiry.
Sent fragments are never removed from the network, so they may be lost,
repeated and reordered.

**Rpc** has `call` with its timer, its copies, the receipt that delays copies,
the deadline, the cancelled caller, the guard that removes the pending entry at
once or through a task, the types a peer answers with (`dispatch_request`), and
the matching of an answer by number, peer and type. A tick is 500 ms.

**Publish** has servers that publish and update one key: the checks, the choice
of replicas, the requests with lost, late and repeated copies, the
classification of the report, the quorum of an update and the commit of the
local copy. Full nodes refuse what does not fit.

**WorkerPool** has the receive loop that offers each datagram to the bounded
queues in turn, the workers, and the lookups of STOREs, whose answers come in
through the same loop.

**Welcome** has the three accesses of a handler to the map of newcomers, the
semaphore and the replication. **RecordLife** has one record on nodes that
republish it, at any phase of their loops and with passes that end late, while
nodes stop, lose their link, join and return. Each node has its own table, and
learns that another is gone from a `Leave`, which may not reach it, or from a
request in vain. A STORE to a replica without the record goes through its
network check, which asks the nodes it knows and those they report, and is
refused while one of them is silent.

**ServerLife** has `listen`, on one of several ports and whether or not the
server listens already, `stop` and `drop`, the set of tasks of a protocol,
and the callers behind the read-write lock and the mutex of the testbed, both of
which serve in order of arrival.

**Ownership** has the commands of an owner over a group of replicas: creating,
publishing, rotating with retries, discarding and forgetting an identity.

**Cluster** composes the parts into a network: nodes with a table and a store, on
which `bootstrap`, `set`, `get`, `stop`, the replication to a newcomer and the
ping of an oldest contact are functions from the world before to the world
after, through the handlers of the peers they reach. What an operation meets is
its luck: at most one call whose request or whose answer is lost for good. Its
abstractions: an operation is one step (the programs wait for each; its
interleavings are in the modules of the parts), the calls of a round are made
nearest first, a record has one version, and a welcome is queued only by a node
that has a record, since another has nothing to send.

**Analysis** is the example that starts nodes in some order, bootstraps them
twice, publishes and reads records, and judges the network. **DhtNode** is the
program of a container: seed, peers and isolated nodes, publishers and
retrievers, each with its retries, at any pace, until they are told to stop.

The `MC` modules give the constants their values; the `Proofs` modules hold the
theorems.

## 3. The runs

Together the passing runs fire every action. Several runs have parts that share
no state: one module extends the component modules, `part` is chosen initially
and says which of them runs, and the others rest. `CHECK_DEADLOCK FALSE` stands
where the system really stops: when every request has been handled and every
command has ended (`replica`), the programs have (`routing_table`), a lookup has
(`lookup`), or every operation has (`publish`).

| Run | Part and configuration | What it shows |
|---|---|---|
| `storage` | `Storage`: 2 threads, 2 keys, two record lengths, budget below the sum, ttl 1 | `Accounting`: the counter is exact up to bytes in flight and the budget holds although counter and map change apart. `RecordsKept`: a readable record is replaced only by `set` and removed only by age. `IsAtomic`: refinement of `AtomicStore` |
| | `Verification`: 2 checks at once, 3 key pairs of two schemes, cache and check of one tick | `ChecksSound`: the answers for DID records and rotations are exact whatever is cached, and those under the issuer's key follow the file once the life of the cache is over |
| | `RecordLife`: 2 replicas, a tick an hour, ttl 4, 1 fault; 3 nodes, with 1 hitch (a lost STORE, a full queue of newcomers or a late pass), or 4, one of which goes for good | `RecordSurvives`: until the next fault or loss, the record does not expire everywhere while two nodes are up. `CopiesPlaced`: a responsible node that lacks it has it again before three passes are over, although the network check may refuse the first STORE and the queue of newcomers may turn it away. Both except the time in which a node hears, from another, of one that is gone and not in its own table |
| `replica` | `Replica`: 2 tasks, 2 workers, 1 place for checks, repeated requests, expiry at any time | `OnlyAuthentic`; `PlacesKept` (no path leaks a place, no check runs on a worker); `StoredAfterCheck`; `CopiesSuppressed`; `EventuallyHandled` |
| | `ServerLife`: 3 callers, 2 listens, 2 ports | `TasksOwned`: every task belongs to the protocol that listens or is being stopped, or was replaced by a second `listen`; after `drop` the others are cancelled. `CommandsEnd`: no order of locks blocks, and a stopped or dropped protocol lets its port go, unless it was replaced |
| | `Membership`: 2 contacts, 2 addresses, buckets of 1, 3 changes of the network | `Rejoins`: a node that lost every contact has a live one again once the network is stable, if it has its link and somebody is at a seed |
| `routing_table` | `RoutingTable`: 4-bit ids, buckets of 2, the node and 5 contacts | `TableSound`: the ranges partition the space, replacements wait only behind full buckets, failures belong to contacts. `ContactsKept`: a contact leaves only when it is stale, failures never make the table smaller. `NeighborsAreClosest` |
| | `RoundTrips`: 2 tasks, 2 peers, capacity 1, samples 24 and 28 | `TripsBounded`: the capacity is exceeded by less than the tasks. `WaitsCoverRoundTrips`: estimates stay among the samples, and a copy is not sent before three times the shortest, or the upper bound of the wait |
| | `Analysis`: 4 nodes in every order, 2 records, k and alpha 2, 1 lost call | `AnalysisSound`: without a loss every check but the convergence heuristic passes; one loss does not take a published record from all its closest nodes, the buckets stay a partition and a published record is held |
| | `DhtNode`: a seed and another node that publish and a retriever, the last two as peers or isolated, 2 attempts, 1 lost call | `ProgramsSound`: a record reported as published is held, and if its publisher had joined also after k - 1 nodes stopped; a retriever that joined, as the publisher had, finds it unless a call was lost or a node stopped |
| `lookup` | `Lookup`: 4 peers, shortlist of 3, alpha 2, all five kinds | `SilenceCounts`: results contain only nodes that answered, and the check hears each neighbour. `NotFoundIsComplete`. `ResultFollows`: honest answers lead to the closest; a quorum read counts one vote for each peer, at most alpha, and needs a strict majority. `Terminates` |
| | `Ownership`: 3 replicas, 3 versions, 1 late request | `KeysNotLost`: no replica is ahead of the owner's keys but by a pending or a discarded rotation. `RotationConfirmed`: a rotation of a record that some replica holds, and that is retried, is confirmed once the network is stable |
| `reassembly` | 6 messages, 3 peers, 2 places, 1 for each peer, one peer restarts | `MapSound`: the limits hold and no complete entry stays. `Intact`: what is put together has one sender and, unless that sender restarted, is one message |
| `rpc` | `Rpc`: a STORE and a FindNode at 1 peer, deadline 5 ticks, waits of 1 and 2, 2 copies, 1 restart | `AnswersMatch`: a peer answers with a type its caller accepts, and a call returns an answer of its peer and type, to its own request unless the caller restarted. `PendingSound`: the pending map leaks nothing and a waiting call stays answerable. `CallsEnd`, with a silent peer and with one that sends receipts for ever |
| | `WorkerPool`: 2 workers, queues of 1, 3 STOREs and another request | `PoolConserves`: no datagram is dropped or handled twice. `PoolDrains`: the workers never wait for each other |
| | `Welcome`: 3 newcomers, 2 handlers, queue of 2, 1 permit, 5 meetings | `WelcomeBounded`: one welcome for each node, permits conserved, the limit exceeded by less than the handlers. `WelcomesEnd`: no node stays in flight |
| `publish` | 4 nodes, 3 replicas, 2 full nodes; three scenarios | `ReportIsTrue`: Complete and Degraded are true of what the replicas hold. `UpdatesHold`: an update that is the only one of its key and succeeds is on a majority of its group, and stays so while others publish. `ReplacedByAuthorised`: no rotated record goes back. `OperationsEnd` |

The scenarios of `publish` are two rival publications; a rotation while another
server publishes the old record again, when the closest and the farthest node and
any of the others hold it; and a new Status List, from every partial replication.

Four properties are conditional on a history variable, because the code gives
the guarantee only then. In `Replica`, `disturbed` holds the tasks during which
the record of their key expired: `store_needs_lookup` is asked before a task is
spawned and again in `rpc_store`, and a record that expires in between can let a
check run on a worker, or let a STORE be written without a check. The properties
exempt these tasks and no others. In `Reassembly` and `Rpc`, `restarts` counts
the restarts of a sender. Message and fragment numbers start at 0 in every
`KademliaProtocol`, so that after a restart at the same address numbers of the
earlier run may be in use at a peer. `Intact` and `AnswersMatch` say both what
holds in any case (sender, peer and type) and what holds without a restart.

### Bounds

- `storage`: two threads are all the pairs of racing accesses; the budget of 6
  bytes fits one long record or two short ones, so that reservations fail,
  succeed and shrink; two clock values are before and after expiry.
- `replica`: two tasks are a request and its copy, two rival STOREs, or a STORE
  and an update; one place makes the bound on checks matter. The proofs of
  section 5 are for any number of tasks.
- `routing_table`: contacts 8 to 12 share a half of the space far from the node
  and fill its bucket and replacement list; adding 0 (the node) splits.
- `lookup`: four peers and a shortlist of three push peers out and bring closer
  ones in; two values tie.
- `reassembly`: messages have one to three fragments; places are fewer than
  messages. A message of one datagram and one over the size limit are among
  them.
- `rpc`: two calls are a waiting one and one that is over, whose answer is late
  or whose entry is still to be removed; the proofs are for any number. 5 ticks
  of 500 ms are the code's timeout, with waits of 1 and 2 ticks. `MaxResends` caps
  the copies counted, not the copies that arrive. Numbers are unbounded: the
  32-bit counters wrap only after 2^32 messages, beyond the lifetime of a call or
  of a partial message. Two queues of one place fill with three datagrams; two
  handlers are all the pairs that pass the test of the welcome queue together.
- `publish`: four nodes and three replicas make views of the replica set
  differ; two operations run at a time.
- `RecordLife`: with three nodes and two replicas one node is outside and enters
  when another leaves. With four, a third node can report the one that is gone,
  and one that should not hold the record still has it and sends it. The larger
  instances (four nodes with returns or with a hitch, five without, a ttl of six
  passes) hold too. Two passes are too few for `CopiesPlaced`: TLC then finds a
  replica that refuses the first STORE. `Watch` counts time for `record_expiry`
  alone.
- `ServerLife`: three callers are one that holds, one that waits and one that
  waits behind it; two listens are a restart, or a second `listen` while the
  server listens, on the same port or the other.
- `Membership`: two contacts and buckets of one make a contact wait as a
  replacement; a change is a peer that comes, goes or moves, or the link.
- `Analysis`, `DhtNode`: four nodes and k = 2 leave nodes that must not hold a
  record. One loss is the bound at which `AnalysisSound` holds: two lost calls
  can make its placement check fail for a record whose SET succeeded.

### Runs that disagree with a document

Each checks one property that a comment or `DESIGN.md` states, and TLC finds a
behaviour of the code without it. `PROJECT.json` quotes the lines.

| Run | What happens |
|---|---|
| `replica_rotation` | with two workers, a slow copy of an update to v2 that was verified against v1 overwrites v3 |
| `lookup_forgets` | a peer cut from the shortlist is not asked again after a closer one fails |
| `reassembly_largest` | a message of the largest legal size is never received |
| `update_rivals` | the local commit of an update overwrites another rotation the node has acknowledged meanwhile |
| `record_expiry` | replicas that republish a record to each other renew its age for ever, though nobody writes it |

### Remarks that no run covers

Met while modelling; each would need a property of its own to be checked.

- `find` (`crawling.rs:363`) gives its shortlist as soon as values are tied, with
  peers it has not asked; a comment says that all nodes it gives responded.
- A failing contact that is reported before it is asked stays in `skipped`
  (`crawling.rs:186`) when it answers, so that it counts as unresponsive too.
- Which peer gets the cached copy of a value (`crawling.rs:348`) depends on the
  order in which the answers of a round are handled.
- An update by a server that reaches nobody (`update.rs:128`) is a group of one
  and succeeds on its own copy, while a publication is reported as cut off.
- The ping of an oldest contact (`contacts.rs:75`) does not compare the id that
  answers with the one it asked for.
- The sender of a republication never renews its own copy; the others do that.
  A newcomer that is farther than all nodes its closest holder knows is not sent
  a record although it may be among the k closest; republication brings it.
- The first STORE after a node dies is refused by a replica that asks it, "and a
  retry succeeds" (`DESIGN.md:248`). Not when the replica was told by a `Leave`
  and a third node, which was not, reports the one that is gone: it is not in
  the replica's table, `record_failure` (`routing.rs:324`) counts nothing, and
  the next check asks it again. A sender keeps a place for such a node among
  its k in the same way. This is the exception in `CopiesPlaced`.
- `listen` (`network/mod.rs:110`) does not look whether the server listens. On a
  second port it replaces the protocol; neither `stop` nor `drop` reaches the
  tasks of the first, which keep their socket, although a comment
  (`network/mod.rs:256`) says that they "must not outlive the server". This is
  the exception in `TasksOwned` and `CommandsEnd`.
- Two rotations of a record at once may both succeed while one is on no majority
  of its group, by the overwriting that `update_rivals` shows. `UpdatesHold` is
  therefore of the only update of a key.
- Without republication a degraded publication can block the rotation of its
  record for want of a majority that has it; and after `discard` of a rotation
  that did reach a majority, the DID cannot be rotated with the keys that remain.
- When `stop` returns the socket may still be bound for a moment, by requests of
  a check that was cancelled (`crawling.rs:430`); comments at
  `network/mod.rs:166` and `protocol/mod.rs:162` say it is released.
- `verify_local_top_k` of the analysis reports a mismatch whenever
  `find_neighbors` skips a failing contact, which it does on purpose.

## 4. Fairness

- `Replica`: weak fairness of each task's step. Tokio polls a ready task, and
  every `await` in a handler ends: a check has a deadline, a verification ends.
- `Lookup`: weak fairness of the next step. A request to a peer ends at its
  timeout, and the lookup is polled by its task.
- `Rpc`: weak fairness of time, of the deadline of a call and of the deferred
  removal. None of answers or receipts: `CallsEnd` holds with a silent peer and
  with one that sends receipts for ever.
- `Publish`: weak fairness of each operation's own steps (`Server`), its
  requests' timeouts among them, and none of replicas.
- `ServerLife`: weak fairness of each caller's step, of the end of each request,
  which has a timeout, and of the end of each task that was cancelled. The locks
  serve in order of arrival, as those of tokio do.
- `Membership`: weak fairness of the maintenance loop. The rest is said of states
  that recur: again and again no request of a kind is under way (each is answered
  or times out), the seeds are due, a backoff is over, and a neighbour is being
  asked (the hourly refresh).
- `Ownership`: weak fairness of the end of an operation, of answers and of late
  requests, where they are enabled. Strong fairness of republication, which
  recurs every hour between other steps, and of a retry by the owner that gets
  past its first read: the environment is assumed not to show `update` for ever
  a record that it cannot replace. `RotationConfirmed` claims nothing of an owner
  who gives up.
- `WorkerPool`: weak fairness of the loop, of each worker and of the answers to
  the lookups: peers that answer are the case in which nothing may time out.
- `Welcome`: weak fairness of handlers and of welcomes, whose STOREs are answered
  or time out.

The other modules need none.

## 5. What is proved

All theorems hold for every value of the constants that the named assumptions
(`...Assumption`, in the module that declares the constants) allow. The proofs
follow one pattern: an inductive invariant, its initial case, one lemma for each
action or group of actions that preserves it, and the consequence.

**StorageProofs.** `BooksBalance` (with `TypeCorrect`, `BytesAreAccounted` and
`BudgetHolds`), `ActiveRecordsKept` (with `FirstWriter` and `NoEarlyEviction`),
`StoreIsAtomic`. The counter equals a sum over
keys and threads. Sums are counted as units (the cardinality of a set of pairs),
so that the lemmas `TotalUpdate` and `TotalMove` follow from the library's facts
about finite sets. The property alone is not inductive: a writer that has
reserved bytes must still find the entry it measured. `LockInv` (no two threads
hold one key) and `ReservedInv` (what a writer reserved is exactly the growth of
its entry) say so; `AbsentInv` is what makes first-writer-wins hold at the write
and not only at the test. The refinement maps a store step to an `AtomicStore`
step or to a stutter.

**ReplicaProofs.** `Authenticity`, `CopiesAreSuppressed`, `PlacesAreKept` (from
`SlotsAreExact`, `ChecksAreApart` and `TypeCorrect`) for any number of workers,
tasks and places, with expiry. The
strengthening: a place is held only by tasks in certain steps (`Placed`), and a
task about to write has verified its record for its key (`Verified`).
`ChecksAreApart` and `CheckedBeforeStored` follow from `RememberedHolds`: what a
task saw of its record still holds unless the task is disturbed. `RotationsFollow`
assumes a single worker; `replica_rotation` shows that this cannot be dropped.

**LookupProofs.** `SilenceIsCounted` (from `LookupNodesRespond`,
`ReplicaHearsNeighbors` and `TypeCorrect`) and `NotFoundMeansAllAnswered`,
whatever the peers answer. The
strengthening accounts for each contacted peer: it is waited for, has answered,
is about to be removed, has failed, or left the shortlist (`Ongoing`), and
`AsksAll` follows the first round of a lookup that asks everyone.

**ReassemblyProofs.** `MapIsSound`, with `MemoryBounded`, for any number of
restarts; it rests on
the cardinality lemmas `ReplaceWithin` and `AddWithin` about the map before and
after a fragment. `MessagesIntact`: `UInv` says that every chunk of an entry has
the entry's sender and number, and that numbers below the counter are unique for
a sender that never restarted.

**RpcProofs.** `PendingIsSound` (from `CallsAnswerable` and `PendingNoLeak`) and
`OwnAnswers`, for any calls, peers and restarts. `PInv` says that numbers of waiting calls are
distinct, below the counter, and not among the numbers whose removal is still to
come: without the last clause a deferred removal could take the entry of a later
call. `FInv` carries peer and type along with an answer, from
`DispatchAccepted` (a caller accepts whatever its peer may answer with), and `OInv` that until a
restart a number belongs to one call.

**RoundTripsProofs.** `TableBounded` for any number of tasks and peers:
`TripsBounded` counts the inserts that are under way, which makes it inductive.
`WaitsCover` for all samples between `Shortest` and `Longest`: a weighted mean of
values in a range stays in it, up to what the two divisions drop
(`MeanBounded`, `VariationBounded`), and the wait is at least three times the
estimate, or its upper bound.

**PublishProofs.** `ReportsHold` for any number of concurrent publications,
nodes and replicas (assuming that only publications run; an update replaces a
record on purpose). `HInv` says that an acknowledgement stays true, since no
STORE replaces a record, and that a report says no more than what was
acknowledged (`Truthful`).

## 6. Only model-checked

- All liveness (`EventuallyHandled`, `CommandsEnd`, `Rejoins`, `Terminates`,
  `RotationConfirmed`, `CallsEnd`, `PoolDrains`, `WelcomesEnd`, `OperationsEnd`):
  fairness and ENABLED are outside what the prover handles.
- `RoutingTable`, `Cluster`, `Analysis`, `DhtNode`: tables are built from
  sequences and folds over them, and a lookup of `Cluster` is a recursive
  operator, for which an induction over data would be needed.
- `Verification`, `RecordLife`, `Ownership`, `WorkerPool`, `Welcome`,
  `ServerLife` and `Membership`, safety included.
- `ResultFollows` of `Lookup`, `UpdatesHold` and `ReplacedByAuthorised` of
  `Publish`.

## 7. What could come next

1. *Proofs*: `UpdatesHold` of a single update; `WelcomeBounded` and
   `PoolConserves` for any number of handlers and workers; well-formed ranges of
   the routing table.
2. *Two versions in `Cluster`*, so that rotations run over real tables.
3. *Refresh of buckets* (`get_refresh_ids`, `lonely_buckets`).

## 8. What is not modelled, and why

- *The arithmetic of signatures, SHA-1 and SHA-256*: a signature is who made it
  and over what, a digest is an injective name. `Managers` names the
  schemes with a key manager; that of Kyber signs nothing and is left out.
- *Byte layout of messages, fragments and records*, logging and printing change
  no state that a property is about.
- *Counters* are measurements behind a feature flag that no other part reads.
- *Python bindings* convert arguments around `Server`; only how callers share it
  is modelled (`ServerLife`).
- *The content of the saved state file and statistics* of maintenance are plain
  input and output.
- *The last lookup time of buckets* (`lonely_buckets`, `get_refresh_ids`) only
  chooses when a refresh looks for nodes.
- *Records whose verification fails at the publisher* end an operation before
  it does anything.
- *The polling of a lookup that waits for the fair lock of the routing table*
  (`crawling.rs:413`): the requests of a round are tasks of their own, so nothing
  waits for the lookup to poll; two tests of the repository hold the lock there.
- *The other examples, scripts and testbed programs* are a benchmark, one
  publication in a straight line, and tools that load a node with traffic.
- *Inline tests*, which are a third to two thirds of the larger source files, are
  read and not modelled.
