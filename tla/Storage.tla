------------------------------ MODULE Storage ------------------------------
(***************************************************************************)
(* The record store of a node (src/src/storage.rs, ForgetfulStorage).      *)
(*                                                                         *)
(* DashMap gives a writer exclusive access to the entry of its key from    *)
(* the call of `entry` to the end of the call; the byte counter is a       *)
(* separate atomic, changed before the entry grows and after it shrinks.   *)
(* A write is therefore up to three steps (enter and reserve, write,       *)
(* release), and prune_expired visits the entries one at a time and gives  *)
(* back all the bytes at the end.  Every key has a lock of its own: two    *)
(* keys of one DashMap shard are only more serialised than that.           *)
(***************************************************************************)
EXTENDS Integers, FiniteSets

CONSTANTS
    Keys,             \* DHT keys
    Values,           \* records
    ValueLen,         \* the length of each record, in bytes
    KeyLen,           \* the length of a key, in bytes
    Threads,          \* the tasks that call the store
    MaxStorageBytes,  \* max_storage_bytes
    Ttl,              \* ttl, -1 for none
    MaxTime,          \* bound of the clock
    Vacant            \* the entry of a key that holds nothing

ASSUME StorageAssumption ==
    /\ IsFiniteSet(Keys) /\ IsFiniteSet(Threads)
    /\ Keys \cap Threads = {} /\ Keys # {} /\ Values # {} /\ Vacant \notin Values
    /\ ValueLen \in [Values -> Nat]
    /\ KeyLen \in Nat
    /\ MaxStorageBytes \in Nat
    /\ Ttl \in Nat \cup {-1}
    /\ MaxTime \in Nat
    /\ Vacant \notin [value : Values, inserted_at : 0..MaxTime]

VARIABLES
    data,                   \* Keys -> the entry, or Vacant
    current_storage_bytes,
    pc,                     \* where each thread is
    call,                   \* the write each thread is executing, or last did
    inflight,               \* bytes charged that no entry holds: reserved, or to release
    todo,                   \* keys that a pruning thread has still to visit
    status,                 \* the StorageWriteStatus each thread got last
    now

vars == <<data, current_storage_bytes, pc, call, inflight, todo, status, now>>

Entry == [value : Values, inserted_at : 0..MaxTime]
Call == [op : {"set", "insert_if_absent"}, key : Keys, value : Values]
Status == {"None", "Stored", "AlreadyStored", "Conflict", "CapacityExceeded"}

-----------------------------------------------------------------------------
is_expired(e) == Ttl # -1 /\ now - e.inserted_at > Ttl

(* What a read of the store returns: an expired entry counts as absent. *)
Live(k) == data[k] # Vacant /\ ~is_expired(data[k])

RecordBytes(v) == KeyLen + ValueLen[v]
EntryBytes(k) == IF data[k] = Vacant THEN 0 ELSE RecordBytes(data[k].value)
Excess(m, n) == IF m > n THEN m - n ELSE 0

(* The thread that is between the start and the end of a write of k. *)
Locked(k) == \E t \in Threads : pc[t] \in {"write", "release"} /\ call[t].key = k

Return(t, s) ==
    /\ pc' = [pc EXCEPT ![t] = "idle"]
    /\ status' = [status EXCEPT ![t] = s]

Fits(n) == n = 0 \/ current_storage_bytes + n <= MaxStorageBytes

(* reserve_bytes: one fetch_update of the counter, which fails as a whole. *)
reserve_bytes(t, n) ==
    \/ /\ Fits(n)
       /\ current_storage_bytes' = current_storage_bytes + n
       /\ inflight' = [inflight EXCEPT ![t] = n]
       /\ pc' = [pc EXCEPT ![t] = "write"]
       /\ UNCHANGED status
    \/ /\ ~Fits(n)
       /\ Return(t, "CapacityExceeded")
       /\ UNCHANGED <<current_storage_bytes, inflight>>

Refresh(t, k) ==
    /\ data' = [data EXCEPT ![k].inserted_at = now]
    /\ Return(t, "AlreadyStored")
    /\ UNCHANGED <<current_storage_bytes, inflight>>

replace_value(t, k, v) ==
    \/ /\ data[k].value = v
       /\ Refresh(t, k)
    \/ /\ data[k].value # v
       /\ reserve_bytes(t, Excess(ValueLen[v], ValueLen[data[k].value]))
       /\ UNCHANGED data

(* The first step of a write, up to the reservation of the bytes it needs. *)
Begin(t, op, k, v) ==
    /\ pc[t] = "idle" /\ ~Locked(k)
    /\ call' = [call EXCEPT ![t] = [op |-> op, key |-> k, value |-> v]]
    /\ UNCHANGED <<todo, now>>

InsertVacant(t, k, v) ==
    /\ data[k] = Vacant
    /\ reserve_bytes(t, RecordBytes(v))
    /\ UNCHANGED data

set(t, k, v) ==
    /\ Begin(t, "set", k, v)
    /\ \/ InsertVacant(t, k, v)
       \/ data[k] # Vacant /\ replace_value(t, k, v)

(* Mutant: insert_if_absent replaces an entry whether it is expired or not. *)
InsertOrReplace(t, k, v) ==
    /\ Begin(t, "insert_if_absent", k, v)
    /\ \/ InsertVacant(t, k, v)
       \/ data[k] # Vacant /\ replace_value(t, k, v)

(* Mutant: a record that differs from the stored one is reported as stored. *)
InsertHidesConflict(t, k, v) ==
    /\ Begin(t, "insert_if_absent", k, v)
    /\ \/ InsertVacant(t, k, v)
       \/ data[k] # Vacant /\ is_expired(data[k]) /\ replace_value(t, k, v)
       \/ Live(k) /\ Refresh(t, k)

insert_if_absent(t, k, v) ==
    /\ Begin(t, "insert_if_absent", k, v)
    /\ \/ InsertVacant(t, k, v)
       \/ data[k] # Vacant /\ is_expired(data[k]) /\ replace_value(t, k, v)
       \/ Live(k) /\ data[k].value = v /\ Refresh(t, k)
       \/ /\ Live(k) /\ data[k].value # v
          /\ Return(t, "Conflict")
          /\ UNCHANGED <<data, current_storage_bytes, inflight>>

(* The entry gets its value; what the old value held beyond it is released. *)
Write(t) ==
    LET k == call[t].key
        v == call[t].value
        shrink == Excess(EntryBytes(k), RecordBytes(v))
    IN  /\ pc[t] = "write"
        /\ data' = [data EXCEPT ![k] = [value |-> v, inserted_at |-> now]]
        /\ inflight' = [inflight EXCEPT ![t] = shrink]
        /\ \/ /\ shrink > 0
              /\ pc' = [pc EXCEPT ![t] = "release"]
              /\ UNCHANGED status
           \/ shrink = 0 /\ Return(t, "Stored")
        /\ UNCHANGED <<current_storage_bytes, call, todo, now>>

(* Mutant: the bytes that were released are still in flight afterwards. *)
ReleaseTwice(t) ==
    /\ current_storage_bytes' = current_storage_bytes - inflight[t]
    /\ UNCHANGED inflight

release_bytes(t) ==
    /\ current_storage_bytes' = current_storage_bytes - inflight[t]
    /\ inflight' = [inflight EXCEPT ![t] = 0]

ReleaseShrunk(t) ==
    /\ pc[t] = "release"
    /\ release_bytes(t)
    /\ Return(t, "Stored")
    /\ UNCHANGED <<data, call, todo, now>>

-----------------------------------------------------------------------------
PruneStart(t) ==
    /\ pc[t] = "idle" /\ Ttl # -1
    /\ pc' = [pc EXCEPT ![t] = "prune"]
    /\ todo' = [todo EXCEPT ![t] = Keys]
    /\ UNCHANGED <<data, current_storage_bytes, call, inflight, status, now>>

(* `retain` on one entry: an expired one goes, its bytes are added up. *)
PruneVisit(t, k) ==
    /\ pc[t] = "prune" /\ k \in todo[t] /\ ~Locked(k)
    /\ todo' = [todo EXCEPT ![t] = @ \ {k}]
    /\ \/ /\ data[k] # Vacant /\ is_expired(data[k])
          /\ data' = [data EXCEPT ![k] = Vacant]
          /\ inflight' = [inflight EXCEPT ![t] = @ + EntryBytes(k)]
       \/ /\ data[k] = Vacant \/ Live(k)
          /\ UNCHANGED <<data, inflight>>
    /\ UNCHANGED <<current_storage_bytes, pc, call, status, now>>

PruneEnd(t) ==
    /\ pc[t] = "prune" /\ todo[t] = {}
    /\ release_bytes(t)
    /\ pc' = [pc EXCEPT ![t] = "idle"]
    /\ UNCHANGED <<data, call, todo, status, now>>

Tick ==
    /\ now < MaxTime
    /\ now' = now + 1
    /\ UNCHANGED <<data, current_storage_bytes, pc, call, inflight, todo, status>>

-----------------------------------------------------------------------------
Init ==
    /\ data = [k \in Keys |-> Vacant]
    /\ current_storage_bytes = 0
    /\ pc = [t \in Threads |-> "idle"]
    /\ call = [t \in Threads |-> CHOOSE c \in Call : TRUE]
    /\ inflight = [t \in Threads |-> 0]
    /\ todo = [t \in Threads |-> {}]
    /\ status = [t \in Threads |-> "None"]
    /\ now = 0

Next ==
    \/ \E t \in Threads :
          \/ \E k \in Keys, v \in Values : set(t, k, v) \/ insert_if_absent(t, k, v)
          \/ Write(t) \/ ReleaseShrunk(t)
          \/ PruneStart(t) \/ (\E k \in Keys : PruneVisit(t, k)) \/ PruneEnd(t)
    \/ Tick

Spec == Init /\ [][Next]_vars

-----------------------------------------------------------------------------
(* The type invariant: the counter and the bytes in flight are never negative
   (the subtraction of release_bytes does not wrap around). *)
TypeOK ==
    /\ data \in [Keys -> Entry \cup {Vacant}]
    /\ current_storage_bytes \in Nat
    /\ pc \in [Threads -> {"idle", "write", "release", "prune"}]
    /\ call \in [Threads -> Call]
    /\ inflight \in [Threads -> Nat]
    /\ todo \in [Threads -> SUBSET Keys]
    /\ status \in [Threads -> Status]
    /\ now \in 0..MaxTime

(* The sum of a function to the naturals, as the number of units it counts. *)
Units(f) == UNION {{x} \X (1..f[x]) : x \in DOMAIN f}
Total(f) == Cardinality(Units(f))

(* What each entry and each thread accounts for. *)
Charges ==
    [x \in Keys \cup Threads |-> IF x \in Keys THEN EntryBytes(x) ELSE inflight[x]]

(* Every charged byte is the byte of an entry or one that a thread has still
   to write or to give back: reserve_bytes, replace_value and prune_expired
   together never lose or invent a byte, whatever the interleaving. *)
BytesAccounted == current_storage_bytes = Total(Charges)

(* The store never holds more than its budget, not even while writers race
   for the last bytes (reserve_bytes), and the counter never runs below what
   is to be subtracted from it (the debug_assert of release_bytes). *)
WithinBudget ==
    /\ current_storage_bytes <= MaxStorageBytes
    /\ Total([k \in Keys |-> EntryBytes(k)]) <= current_storage_bytes
    /\ \A t \in Threads : inflight[t] <= current_storage_bytes

(* The books of the store: it is well-typed, every charged byte is accounted
   for, and the budget is never exceeded (reserve_bytes, replace_value,
   release_bytes, prune_expired). *)
Accounting == TypeOK /\ BytesAccounted /\ WithinBudget

(* First writer wins: while a record can be read, no insert_if_absent puts
   another in its place, neither in one step nor by a writer that found the
   key absent earlier.  Only a `set` (an UPDATE) changes it. *)
ReplacedBySet ==
    \A k \in Keys :
       Live(k) /\ data'[k] # Vacant /\ data'[k].value # data[k].value
       => \E t \in Threads : pc[t] = "write" /\ call[t].key = k /\ call[t].op = "set"

(* No active record is evicted: an entry disappears only in prune_expired, and
   only when it is older than the time to live. *)
RemovedByAge ==
    \A k \in Keys :
       data[k] # Vacant /\ data'[k] = Vacant
       => Ttl # -1 /\ now > data[k].inserted_at + Ttl

(* An active record stays what it is: no insert replaces it, and nothing but
   its age removes it (insert_if_absent, prune_expired). *)
RecordsKept == [][ReplacedBySet /\ RemovedByAge]_vars

(* What a thread knows of its last call: its write has taken effect once the
   entry has its value. *)
Outcome(t) ==
    IF pc[t] = "write" \/ (pc[t] # "release" /\ status[t] = "None")
    THEN Vacant
    ELSE [op |-> call[t].op, key |-> call[t].key, value |-> call[t].value,
          status |-> IF pc[t] = "release" THEN "Stored" ELSE status[t]]

(* The abstract store: the records that a read returns, and the outcomes. *)
Atomic == INSTANCE AtomicStore WITH
    Clients <- Threads,
    Absent <- Vacant,
    record <- [k \in Keys |-> IF Live(k) THEN data[k].value ELSE Vacant],
    answer <- [t \in Threads |-> Outcome(t)]

(* Concurrent calls behave as if each took effect at once, with the status it
   returns: the statuses that STORE answers carry describe the store. *)
IsAtomic == Atomic!Spec
=============================================================================
