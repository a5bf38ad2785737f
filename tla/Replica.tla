------------------------------ MODULE Replica ------------------------------
(***************************************************************************)
(* How a node handles the requests that carry a record: STORE, UPDATE and  *)
(* UpdateStatusList (src/src/protocol/transport.rs from the point where a  *)
(* request is decoded, store_check.rs, handlers.rs, and the verification   *)
(* of auth_handler.rs).                                                    *)
(*                                                                         *)
(* The workers read datagrams and handle a request in place, except that a *)
(* STORE to an empty replica runs as a task of its own.  Every await in a  *)
(* handler is a point where another one may run, so a handler is a         *)
(* sequence of steps.  The record store is AtomicStore, which Storage      *)
(* implements.  What the nodes near the key answer to the network check is *)
(* arbitrary (NetworkCopy).                                                *)
(***************************************************************************)
EXTENDS Integers, FiniteSets

CONSTANTS
    Keys, Values, Absent,
    StatusKey,       \* digest(STATUS_LIST_KEY), a member of Keys
    DidOf,           \* the key of the DID that a record names
    SignedBy,        \* the public key that a record is signed with
    KeyOf,           \* the public key in the document of a record
    IssuerKey,       \* the key of the issuer node
    Requests,        \* the requests that peers send, see Request
    Copies,          \* how often each request arrives (bound)
    Tasks,           \* handlers, on workers or spawned (bound)
    Workers,         \* num_workers of listen
    MaxStoreLookups  \* MAX_STORE_LOOKUPS

(* A copy of a request has the same sender and the same bytes, msg_id included:
   it is the same element of Requests.  A retry of the caller has another
   msg_id.  `auth` is the key that made the auth_signature. *)
Request == [op : {"Store", "Update", "UpdateStatusList"}, sender : STRING, msg_id : Nat,
            key : Keys, value : Values, auth : {KeyOf[v] : v \in Values} \cup {Absent}]

ASSUME ReplicaAssumption ==
    /\ StatusKey \in Keys /\ Absent \notin Values
    /\ Requests # {} /\ \A r \in Requests : r \in Request
    /\ IsFiniteSet(Tasks)
    /\ Workers \in Nat \ {0}
    /\ MaxStoreLookups \in Nat
    /\ Copies \in [Requests -> Nat]

VARIABLES
    record,          \* the store: Keys -> record or Absent
    answer,          \* what the store answered to each task
    arrived,         \* Requests -> copies that have arrived
    in_progress,     \* requests_in_progress
    store_lookups,   \* places taken for STOREs that wait for a lookup
    pc, req,         \* where each task is, and its request
    slot,            \* tasks that hold a StoreLookupSlot
    spawned,         \* tasks that have left their worker
    checked,         \* tasks whose network check found no other record
    old,             \* the record an UPDATE was verified against
    reply,           \* what each task answers its sender, Absent for nothing
    disturbed        \* history: tasks during which the record of their key expired

node == <<record, answer, arrived, in_progress, store_lookups, pc, req, slot,
          spawned, checked, old, reply>>
vars == <<record, answer, arrived, in_progress, store_lookups, pc, req, slot,
          spawned, checked, old, reply, disturbed>>
storeVars == <<record, answer>>
admission == <<arrived, in_progress, store_lookups>>

Store == INSTANCE AtomicStore WITH Clients <- Tasks

NoRequest == CHOOSE r \in Requests : TRUE
Busy == {t \in Tasks : pc[t] # "idle"}
OnWorker == Busy \ spawned
Goto(t, l) == pc' = [pc EXCEPT ![t] = l]

-----------------------------------------------------------------------------
(* The checks of auth_handler.rs. *)
is_bound_to_key(k, v) == k = StatusKey \/ DidOf[v] = k

verify_record(k, v) ==
    /\ is_bound_to_key(k, v)
    /\ SignedBy[v] = IF k = StatusKey THEN IssuerKey ELSE KeyOf[v]

verify_rotation(k, new, prev, auth) ==
    /\ DidOf[prev] = k /\ DidOf[new] = k
    /\ auth = KeyOf[prev]
    /\ SignedBy[new] = KeyOf[new]

verify_issuer_signed(v) == SignedBy[v] = IssuerKey

store_needs_lookup(k) == k # StatusKey /\ record[k] = Absent

-----------------------------------------------------------------------------
(* handle_datagram, from InProgress::start on. *)

(* Mutant: a copy of a request that is being handled is handled again. *)
HandleCopies(t, r) ==
    /\ pc[t] = "idle" /\ Cardinality(OnWorker) < Workers
    /\ arrived[r] < Copies[r]
    /\ arrived' = [arrived EXCEPT ![r] = @ + 1]
    /\ in_progress' = in_progress \cup {r}
    /\ req' = [req EXCEPT ![t] = r]
    /\ Goto(t, "slot")
    /\ UNCHANGED <<store_lookups, storeVars, slot, spawned, checked, old, reply>>

handle_datagram(t, r) ==
    /\ pc[t] = "idle" /\ Cardinality(OnWorker) < Workers
    /\ arrived[r] < Copies[r]
    /\ arrived' = [arrived EXCEPT ![r] = @ + 1]
    /\ \/ r \in in_progress /\ UNCHANGED <<in_progress, pc, req>>
       \/ /\ r \notin in_progress
          /\ in_progress' = in_progress \cup {r}
          /\ req' = [req EXCEPT ![t] = r]
          /\ Goto(t, "slot")
    /\ UNCHANGED <<store_lookups, storeVars, slot, spawned, checked, old, reply>>

(* The end of a handler: InProgress and the slot are dropped. *)
Finish(t) ==
    /\ Goto(t, "idle")
    /\ in_progress' = in_progress \ {req[t]}
    /\ store_lookups' = store_lookups - (IF t \in slot \/ pc[t] = "refuse" THEN 1 ELSE 0)
    /\ slot' = slot \ {t}
    /\ spawned' = spawned \ {t}
    /\ checked' = checked \ {t}
    /\ old' = [old EXCEPT ![t] = Absent]
    /\ reply' = [reply EXCEPT ![t] = Absent]
    /\ req' = [req EXCEPT ![t] = NoRequest]
    /\ Store!Start(t)
    /\ UNCHANGED arrived

(* Mutant: the last place is given twice. *)
TakeOneMore(t) ==
    /\ pc[t] = "slot"
    /\ \/ /\ ~(req[t].op = "Store" /\ store_needs_lookup(req[t].key))
          /\ Goto(t, "receipt")
          /\ UNCHANGED <<store_lookups, slot>>
       \/ /\ req[t].op = "Store" /\ store_needs_lookup(req[t].key)
          /\ store_lookups' = store_lookups + 1
          /\ \/ store_lookups > MaxStoreLookups /\ Goto(t, "refuse") /\ UNCHANGED slot
             \/ store_lookups <= MaxStoreLookups /\ Goto(t, "receipt") /\ slot' = slot \cup {t}
    /\ UNCHANGED <<storeVars, arrived, in_progress, req, spawned, checked, old, reply>>

(* StoreLookupSlot::take, for a STORE that needs a lookup.  A place beyond
   the limit is counted for a moment and given back. *)
TakeSlot(t) ==
    /\ pc[t] = "slot"
    /\ \/ /\ ~(req[t].op = "Store" /\ store_needs_lookup(req[t].key))
          /\ Goto(t, "receipt")
          /\ UNCHANGED <<store_lookups, slot>>
       \/ /\ req[t].op = "Store" /\ store_needs_lookup(req[t].key)
          /\ store_lookups' = store_lookups + 1
          /\ \/ store_lookups >= MaxStoreLookups /\ Goto(t, "refuse") /\ UNCHANGED slot
             \/ store_lookups < MaxStoreLookups /\ Goto(t, "receipt") /\ slot' = slot \cup {t}
    /\ UNCHANGED <<storeVars, arrived, in_progress, req, spawned, checked, old, reply>>

(* No place left: the STORE is dropped without an answer. *)
Refuse(t) == pc[t] = "refuse" /\ Finish(t)

(* `Received` is sent; a STORE with a slot leaves the worker. *)
Receipt(t) ==
    /\ pc[t] = "receipt"
    /\ Goto(t, "dispatch")
    /\ spawned' = IF t \in slot THEN spawned \cup {t} ELSE spawned
    /\ UNCHANGED <<storeVars, admission, req, slot, checked, old, reply>>

Reply(t, x) ==
    /\ Goto(t, "answer")
    /\ reply' = [reply EXCEPT ![t] = x]

(* The response, if any, is sent and the request is no longer in progress. *)
Answer(t) == pc[t] = "answer" /\ Finish(t)

-----------------------------------------------------------------------------
(* rpc_store.  store_needs_lookup is asked again: the record may have gone or
   come since TakeSlot. *)
StoreDispatch(t) ==
    LET k == req[t].key
        v == req[t].value
    IN  /\ pc[t] = "dispatch" /\ req[t].op = "Store"
        /\ \/ store_needs_lookup(k) /\ ~is_bound_to_key(k, v) /\ Reply(t, "InvalidRecord")
           \/ store_needs_lookup(k) /\ is_bound_to_key(k, v) /\ Goto(t, "check") /\ UNCHANGED reply
           \/ ~store_needs_lookup(k) /\ Goto(t, "verify") /\ UNCHANGED reply
        /\ UNCHANGED <<storeVars, admission, req, slot, spawned, checked, old>>

(* Mutant: an empty replica accepts on silence. *)
AcceptOnSilence(t) ==
    /\ pc[t] = "check"
    /\ \/ Goto(t, "verify") /\ UNCHANGED <<checked, reply>>
       \/ Reply(t, "Conflict") /\ UNCHANGED checked
    /\ UNCHANGED <<storeVars, admission, req, slot, spawned, old>>

(* Mutant: the lookup has no deadline, and its answers wait for all workers. *)
WaitForAnswers(t) ==
    /\ pc[t] = "check" /\ OnWorker = {}
    /\ \/ checked' = checked \cup {t} /\ Goto(t, "verify") /\ UNCHANGED reply
       \/ Reply(t, "Conflict") /\ UNCHANGED checked
    /\ UNCHANGED <<storeVars, admission, req, slot, spawned, old>>

(* The three ends of network_copy.  The lookup gets its answers through the
   workers, and gives up after STORE_LOOKUP_TIMEOUT. *)
network_copy(t) ==
    /\ pc[t] = "check"
    /\ \/ /\ Cardinality(OnWorker) < Workers
          /\ \/ /\ checked' = checked \cup {t} /\ Goto(t, "verify")
                /\ UNCHANGED reply
             \/ Reply(t, "Conflict") /\ UNCHANGED checked
       \/ Reply(t, Absent) /\ UNCHANGED checked
    /\ UNCHANGED <<storeVars, admission, req, slot, spawned, old>>

(* Mutant: a record that passed the check is not verified. *)
VerifyNothing(t) ==
    /\ pc[t] = "verify"
    /\ Goto(t, "insert")
    /\ UNCHANGED <<storeVars, admission, req, slot, spawned, checked, old, reply>>

verify_for_key(t) ==
    /\ pc[t] = "verify"
    /\ \/ /\ verify_record(req[t].key, req[t].value)
          /\ Goto(t, "insert")
          /\ UNCHANGED reply
       \/ /\ ~verify_record(req[t].key, req[t].value)
          /\ Reply(t, "InvalidRecord")
    /\ UNCHANGED <<storeVars, admission, req, slot, spawned, checked, old>>

InsertRecord(t) ==
    /\ pc[t] = "insert"
    /\ Store!insert_if_absent(t, req[t].key, req[t].value)
    /\ Reply(t, answer'[t].status)
    /\ UNCHANGED <<admission, req, slot, spawned, checked, old>>

-----------------------------------------------------------------------------
(* rpc_update and rpc_update_status_list, up to the first await. *)
UpdateDispatch(t) ==
    LET k == req[t].key
        v == req[t].value
    IN  /\ pc[t] = "dispatch" /\ req[t].op = "Update"
        /\ \/ (k = StatusKey \/ record[k] = Absent) /\ Reply(t, "NotOk") /\ UNCHANGED old
           \/ k # StatusKey /\ record[k] = v /\ Reply(t, "Ok") /\ UNCHANGED old
           \/ /\ k # StatusKey /\ record[k] \notin {v, Absent}
              /\ old' = [old EXCEPT ![t] = record[k]]
              /\ Goto(t, "rotate") /\ UNCHANGED reply
        /\ UNCHANGED <<storeVars, admission, req, slot, spawned, checked>>

StatusDispatch(t) ==
    LET k == req[t].key
    IN  /\ pc[t] = "dispatch" /\ req[t].op = "UpdateStatusList"
        /\ \/ (k # StatusKey \/ record[k] = Absent) /\ Reply(t, "NotOk")
           \/ k = StatusKey /\ record[k] # Absent /\ Goto(t, "rotate") /\ UNCHANGED reply
        /\ UNCHANGED <<storeVars, admission, req, slot, spawned, checked, old>>

Authorized(t) ==
    IF req[t].op = "Update"
    THEN verify_rotation(req[t].key, req[t].value, old[t], req[t].auth)
    ELSE verify_issuer_signed(req[t].value)

(* The signatures are verified on another thread; the sender is welcomed. *)
VerifyUpdate(t) ==
    /\ pc[t] = "rotate"
    /\ \/ Authorized(t) /\ Goto(t, "set") /\ UNCHANGED reply
       \/ ~Authorized(t) /\ Reply(t, "NotOk")
    /\ UNCHANGED <<storeVars, admission, req, slot, spawned, checked, old>>

SetRecord(t) ==
    /\ pc[t] = "set"
    /\ Store!set(t, req[t].key, req[t].value)
    /\ Reply(t, IF answer'[t].status = "CapacityExceeded" THEN "NotOk" ELSE "Ok")
    /\ UNCHANGED <<admission, req, slot, spawned, checked, old>>

Expire ==
    /\ \E S \in (SUBSET {k \in Keys : record[k] # Absent}) \ {{}} :
          /\ Store!Expire(S)
          /\ disturbed' = disturbed \cup {t \in Busy : req[t].key \in S}
    /\ UNCHANGED <<admission, pc, req, slot, spawned, checked, old, reply>>

-----------------------------------------------------------------------------
Init ==
    /\ Store!Init
    /\ arrived = [r \in Requests |-> 0]
    /\ in_progress = {} /\ store_lookups = 0
    /\ pc = [t \in Tasks |-> "idle"]
    /\ req = [t \in Tasks |-> NoRequest]
    /\ slot = {} /\ spawned = {} /\ checked = {}
    /\ old = [t \in Tasks |-> Absent]
    /\ reply = [t \in Tasks |-> Absent]
    /\ disturbed = {}

Step(t) ==
    \/ TakeSlot(t) \/ Refuse(t) \/ Receipt(t)
    \/ StoreDispatch(t) \/ network_copy(t) \/ verify_for_key(t) \/ InsertRecord(t)
    \/ UpdateDispatch(t) \/ StatusDispatch(t) \/ VerifyUpdate(t) \/ SetRecord(t)
    \/ Answer(t)

Next ==
    \/ /\ \E t \in Tasks : Step(t) \/ (\E r \in Requests : handle_datagram(t, r))
       /\ disturbed' = disturbed \cap Busy'
    \/ Expire

(* Every handler goes on: tokio polls the tasks that are ready, a verification
   ends, and a lookup ends at its timeout at the latest. *)
Fairness == \A t \in Tasks : WF_node(Step(t))

Spec == Init /\ [][Next]_vars /\ Fairness

-----------------------------------------------------------------------------
(* The type invariant of the handlers of one node. *)
TypeOK ==
    /\ record \in [Keys -> Values \cup {Absent}]
    /\ arrived \in [Requests -> Nat]
    /\ in_progress \subseteq Requests
    /\ store_lookups \in Nat
    /\ pc \in [Tasks -> {"idle", "slot", "refuse", "receipt", "dispatch", "check",
                         "verify", "insert", "rotate", "set", "answer"}]
    /\ req \in [Tasks -> Requests]
    /\ slot \subseteq Busy /\ spawned \subseteq slot /\ checked \subseteq Busy
    /\ old \in [Tasks -> Values \cup {Absent}]

(* Whatever the order of requests, copies and expiry, what a node holds for a
   key is a record that verify_record accepts for that key (verify_for_key
   before an insert, verify_rotation and verify_issuer_signed before a set). *)
OnlyAuthentic ==
    \A k \in Keys : record[k] # Absent => verify_record(k, record[k])

(* A request is handled by at most one task at a time, also when copies of it
   arrive on several workers (InProgress), and the node remembers exactly the
   requests that are being handled: none is forgotten, none stays behind. *)
CopiesSuppressed ==
    /\ in_progress = {req[t] : t \in Busy}
    /\ \A t, u \in Busy : t # u => req[t] # req[u]

(* At most MAX_STORE_LOOKUPS STOREs hold a place, and every place counted is
   one that is held or about to be given back: no path leaks one. *)
SlotsExact ==
    /\ Cardinality(slot) <= MaxStoreLookups
    /\ store_lookups = Cardinality(slot \cup {t \in Tasks : pc[t] = "refuse"})

(* A check runs in a task of its own that holds a place, never on a worker
   (the comment at the spawn in handle_datagram), unless the record of its key
   has expired since the request was taken up. *)
ChecksRunApart ==
    \A t \in Tasks \ disturbed : pc[t] = "check" => t \in slot /\ t \in spawned

(* The places for checks: the handlers are well-typed, the counter of the
   places is exact, and no check runs without one (StoreLookupSlot,
   handle_datagram). *)
PlacesKept == TypeOK /\ SlotsExact /\ ChecksRunApart

(* An empty replica stores a record that it is sent only after it has asked
   the network (rpc_store), unless a record expired since store_needs_lookup
   was asked; the Status List is exempt. *)
StoredAfterCheck ==
    [][\A k \in Keys \ {StatusKey} :
          record[k] = Absent /\ record'[k] # Absent =>
             \E t \in Tasks :
                /\ req[t].key = k /\ req[t].value = record'[k]
                /\ \/ pc[t] = "insert" /\ t \in checked
                   \/ pc[t] \in {"insert", "set"} /\ t \in disturbed]_vars

(* STORE never overwrites a record, and an UPDATE replaces the very record
   whose key authorized it (rpc_update). *)
UpdateReplacesVerified ==
    [][\A k \in Keys \ {StatusKey} :
          record[k] # Absent /\ record'[k] \notin {record[k], Absent} =>
             \/ \E t \in disturbed : pc[t] = "set" /\ req[t].key = k
             \/ \E r \in Requests :
                   /\ r.op = "Update" /\ r.key = k /\ r.value = record'[k]
                   /\ verify_rotation(k, r.value, record[k], r.auth)]_vars

(* Every request that is taken up is answered or refused in the end, and its
   place and its mark are given back. *)
EventuallyHandled == \A t \in Tasks : pc[t] # "idle" ~> pc[t] = "idle"
=============================================================================
