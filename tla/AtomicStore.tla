---------------------------- MODULE AtomicStore ----------------------------
(***************************************************************************)
(* What the store promises to its callers (the IStorage trait of           *)
(* src/src/storage.rs): set and insert_if_absent take effect in one step   *)
(* on one key, and the status they return says what they did.              *)
(***************************************************************************)
CONSTANTS Keys, Values, Clients, Absent

VARIABLES
    record,  \* Keys -> the record a read returns, or Absent
    answer   \* the last call of each client with its status, Absent while it runs

vars == <<record, answer>>

Start(c) ==
    /\ answer' = [answer EXCEPT ![c] = Absent]
    /\ UNCHANGED record

Answer(c, op, k, v, s) ==
    answer' = [answer EXCEPT ![c] = [op |-> op, key |-> k, value |-> v, status |-> s]]

Put(k, v) == record' = [record EXCEPT ![k] = v]

(* An expired entry that still holds v is revived: the answer is then
   AlreadyStored although no read returned it any more. *)
set(c, k, v) ==
    \/ record[k] # v /\ Put(k, v) /\ Answer(c, "set", k, v, "Stored")
    \/ record[k] \in {v, Absent} /\ Put(k, v) /\ Answer(c, "set", k, v, "AlreadyStored")
    \/ record[k] # v /\ UNCHANGED record /\ Answer(c, "set", k, v, "CapacityExceeded")

insert_if_absent(c, k, v) ==
    \/ /\ record[k] = Absent /\ Put(k, v)
       /\ Answer(c, "insert_if_absent", k, v, "Stored")
    \/ /\ record[k] \in {v, Absent} /\ Put(k, v)
       /\ Answer(c, "insert_if_absent", k, v, "AlreadyStored")
    \/ /\ record[k] \notin {v, Absent} /\ UNCHANGED record
       /\ Answer(c, "insert_if_absent", k, v, "Conflict")
    \/ /\ record[k] = Absent /\ UNCHANGED record
       /\ Answer(c, "insert_if_absent", k, v, "CapacityExceeded")

Expire(S) ==
    /\ record' = [k \in Keys |-> IF k \in S THEN Absent ELSE record[k]]
    /\ UNCHANGED answer

Init ==
    /\ record = [k \in Keys |-> Absent]
    /\ answer = [c \in Clients |-> Absent]

Next ==
    \/ \E c \in Clients :
          \/ Start(c)
          \/ \E k \in Keys, v \in Values : set(c, k, v) \/ insert_if_absent(c, k, v)
    \/ \E S \in SUBSET Keys : Expire(S)

Spec == Init /\ [][Next]_vars
=============================================================================
