--------------------------- MODULE ReplicaProofs ---------------------------
(***************************************************************************)
(* Proofs about the handlers of Replica, for any number of workers, tasks, *)
(* places, requests and copies.                                            *)
(***************************************************************************)
EXTENDS Replica, FiniteSetTheorems, TLAPS

(* The positions of a handler that has passed admission. *)
Admitted == {"receipt", "dispatch", "check", "verify", "insert", "rotate", "set", "answer"}

(* The steps of a handler between its admission and its end. *)
Handle(t) ==
    \/ Receipt(t) \/ StoreDispatch(t) \/ network_copy(t) \/ verify_for_key(t)
    \/ InsertRecord(t) \/ UpdateDispatch(t) \/ StatusDispatch(t) \/ VerifyUpdate(t)
    \/ SetRecord(t)

(* A place is held by handlers that have passed admission only. *)
Placed == \A t \in slot : pc[t] \in Admitted

(* What a handler that is about to write has verified. *)
Verified ==
    \A t \in Tasks :
       /\ pc[t] \in {"insert", "set"} => verify_record(req[t].key, req[t].value)
       /\ pc[t] = "rotate" => \/ req[t].op = "Update" /\ req[t].key # StatusKey
                              \/ req[t].op = "UpdateStatusList" /\ req[t].key = StatusKey

(* The inductive invariant. *)
IInv == TypeOK /\ CopiesSuppressed /\ SlotsExact /\ Placed /\ OnlyAuthentic /\ Verified

-----------------------------------------------------------------------------
(* A request carries a key and a record, and `op` is one of three. *)
LEMMA RequestFields ==
    ASSUME NEW r \in Requests
    PROVE  /\ r.key \in Keys /\ r.value \in Values
           /\ r.op \in {"Store", "Update", "UpdateStatusList"}
BY ReplicaAssumption DEF Request

(* The initial states satisfy the invariant. *)
LEMMA InitIInv == Init => IInv
<1> SUFFICES ASSUME Init PROVE IInv
  OBVIOUS
<1>1. NoRequest \in Requests
  BY ReplicaAssumption DEF NoRequest
<1>2. Busy = {} /\ {t \in Tasks : pc[t] = "refuse"} = {}
  BY DEF Init, Busy
<1>3. TypeOK
  BY <1>1, <1>2, ReplicaAssumption DEF Init, TypeOK, Store!Init
<1>4. CopiesSuppressed
  BY <1>2 DEF Init, CopiesSuppressed
<1>5. SlotsExact
  BY <1>2, FS_EmptySet, ReplicaAssumption DEF Init, SlotsExact
<1>6. Placed /\ Verified
  BY DEF Init, Placed, Verified
<1>7. OnlyAuthentic
  BY DEF Init, OnlyAuthentic, Store!Init
<1> QED
  BY <1>3, <1>4, <1>5, <1>6, <1>7 DEF IInv

(* A handler that has passed admission stays where it is admitted, and leaves
   the bookkeeping of admission alone. *)
LEMMA HandleFrame ==
    ASSUME TypeOK, NEW t \in Tasks, Handle(t)
    PROVE  /\ pc[t] \in Admitted
           /\ \E l \in Admitted : pc' = [pc EXCEPT ![t] = l]
           /\ UNCHANGED <<arrived, in_progress, store_lookups, req, slot>>
<1>1. CASE Receipt(t)
  BY <1>1 DEF Receipt, Goto, Admitted, admission
<1>2. CASE StoreDispatch(t)
  BY <1>2 DEF StoreDispatch, Goto, Reply, Admitted, admission
<1>3. CASE network_copy(t)
  BY <1>3 DEF network_copy, Goto, Reply, Admitted, admission
<1>4. CASE verify_for_key(t)
  BY <1>4 DEF verify_for_key, Goto, Reply, Admitted, admission
<1>5. CASE InsertRecord(t)
  BY <1>5 DEF InsertRecord, Goto, Reply, Admitted, admission
<1>6. CASE UpdateDispatch(t)
  BY <1>6 DEF UpdateDispatch, Goto, Reply, Admitted, admission
<1>7. CASE StatusDispatch(t)
  BY <1>7 DEF StatusDispatch, Goto, Reply, Admitted, admission
<1>8. CASE VerifyUpdate(t)
  BY <1>8 DEF VerifyUpdate, Goto, Reply, Admitted, admission
<1>9. CASE SetRecord(t)
  BY <1>9 DEF SetRecord, Goto, Reply, Admitted, admission
<1> QED
  BY <1>1, <1>2, <1>3, <1>4, <1>5, <1>6, <1>7, <1>8, <1>9 DEF Handle

(* Only InsertRecord and SetRecord write, and they write the record of their
   request under its key or nothing. *)
LEMMA HandleWrites ==
    ASSUME TypeOK, NEW t \in Tasks, Handle(t)
    PROVE  \/ record' = record
           \/ /\ pc[t] \in {"insert", "set"}
              /\ record' = [record EXCEPT ![req[t].key] = req[t].value]
<1>1. CASE Receipt(t)
  BY <1>1 DEF Receipt, storeVars
<1>2. CASE StoreDispatch(t)
  BY <1>2 DEF StoreDispatch, storeVars
<1>3. CASE network_copy(t)
  BY <1>3 DEF network_copy, storeVars
<1>4. CASE verify_for_key(t)
  BY <1>4 DEF verify_for_key, storeVars
<1>5. CASE InsertRecord(t)
  BY <1>5 DEF InsertRecord, Store!insert_if_absent, Store!Put
<1>6. CASE UpdateDispatch(t)
  BY <1>6 DEF UpdateDispatch, storeVars
<1>7. CASE StatusDispatch(t)
  BY <1>7 DEF StatusDispatch, storeVars
<1>8. CASE VerifyUpdate(t)
  BY <1>8 DEF VerifyUpdate, storeVars
<1>9. CASE SetRecord(t)
  BY <1>9 DEF SetRecord, Store!set, Store!Put
<1> QED
  BY <1>1, <1>2, <1>3, <1>4, <1>5, <1>6, <1>7, <1>8, <1>9 DEF Handle

(* A handler step keeps the types. *)
LEMMA HandleType ==
    ASSUME TypeOK, NEW t \in Tasks, Handle(t)
    PROVE  TypeOK'
<1>1. PICK l \in Admitted : pc' = [pc EXCEPT ![t] = l]
  BY HandleFrame
<1>2. UNCHANGED <<arrived, in_progress, store_lookups, req, slot>> /\ pc[t] \in Admitted
  BY HandleFrame
<1>3. record' \in [Keys -> Values \cup {Absent}]
  <2>1. req[t] \in Requests
    BY DEF TypeOK
  <2> QED
    BY <2>1, HandleWrites, RequestFields DEF TypeOK
<1>4. Busy' = Busy /\ t \in Busy
  BY <1>1, <1>2 DEF Busy, Admitted, TypeOK
<1>5. pc' \in [Tasks -> {"idle", "slot", "refuse", "receipt", "dispatch", "check",
                        "verify", "insert", "rotate", "set", "answer"}]
  BY <1>1 DEF TypeOK, Admitted
<1>6. spawned' \subseteq slot /\ checked' \subseteq Busy
  <2>1. CASE Receipt(t)
    BY <2>1 DEF Receipt, TypeOK
  <2>2. CASE network_copy(t)
    BY <2>2, <1>4 DEF network_copy, TypeOK
  <2>3. CASE StoreDispatch(t) \/ verify_for_key(t) \/ InsertRecord(t)
    BY <2>3 DEF StoreDispatch, verify_for_key, InsertRecord, TypeOK
  <2>4. CASE UpdateDispatch(t) \/ StatusDispatch(t) \/ VerifyUpdate(t) \/ SetRecord(t)
    BY <2>4 DEF UpdateDispatch, StatusDispatch, VerifyUpdate, SetRecord, TypeOK
  <2> QED
    BY <2>1, <2>2, <2>3, <2>4 DEF Handle
<1>7. old' \in [Tasks -> Values \cup {Absent}]
  <2>1. CASE UpdateDispatch(t)
    <3>1. req[t].key \in Keys
      BY RequestFields DEF TypeOK
    <3> QED
      BY <2>1, <3>1 DEF UpdateDispatch, TypeOK
  <2>2. CASE ~UpdateDispatch(t)
    BY <2>2 DEF Handle, TypeOK, Receipt, network_copy, StoreDispatch, verify_for_key,
                InsertRecord, StatusDispatch, VerifyUpdate, SetRecord
  <2> QED
    BY <2>1, <2>2
<1> QED
  BY <1>2, <1>3, <1>4, <1>5, <1>6, <1>7 DEF TypeOK

(* A handler step neither admits nor ends a request, and holds its place. *)
LEMMA HandleAdmission ==
    ASSUME IInv, NEW t \in Tasks, Handle(t)
    PROVE  CopiesSuppressed' /\ SlotsExact' /\ Placed'
<1>1. PICK l \in Admitted : pc' = [pc EXCEPT ![t] = l]
  BY HandleFrame DEF IInv
<1>2. UNCHANGED <<in_progress, store_lookups, req, slot>> /\ pc[t] \in Admitted
  BY HandleFrame DEF IInv
<1>3. Busy' = Busy
  BY <1>1, <1>2 DEF Busy, Admitted, IInv, TypeOK
<1>4. {u \in Tasks : pc[u] = "refuse"}' = {u \in Tasks : pc[u] = "refuse"}
  BY <1>1, <1>2 DEF Admitted, IInv, TypeOK
<1>5. CopiesSuppressed'
  BY <1>2, <1>3 DEF IInv, CopiesSuppressed
<1>6. SlotsExact'
  BY <1>2, <1>4 DEF IInv, SlotsExact
<1>7. Placed'
  BY <1>1, <1>2 DEF IInv, Placed, TypeOK, Busy
<1> QED
  BY <1>5, <1>6, <1>7

(* A handler reaches its write only with a record that it has verified. *)
LEMMA HandleVerified ==
    ASSUME IInv, NEW t \in Tasks, Handle(t)
    PROVE  Verified' /\ OnlyAuthentic'
<1> USE DEF IInv
<1>1. PICK l \in Admitted : pc' = [pc EXCEPT ![t] = l]
  BY HandleFrame
<1>2. req' = req
  BY HandleFrame
<1>3. req[t] \in Requests
  BY DEF TypeOK
<1>4. l \in {"insert", "set"} => verify_record(req[t].key, req[t].value)
  <2>1. CASE verify_for_key(t)
    BY <1>1, <2>1 DEF verify_for_key, Goto, Reply, TypeOK
  <2>2. CASE VerifyUpdate(t)
    <3>1. CASE Authorized(t)
      BY <3>1, <2>2 DEF VerifyUpdate, Authorized, Verified, verify_record, is_bound_to_key,
                        verify_rotation, verify_issuer_signed
    <3>2. CASE ~Authorized(t)
      BY <1>1, <3>2, <2>2 DEF VerifyUpdate, Goto, Reply, TypeOK
    <3> QED
      BY <3>1, <3>2
  <2>3. CASE Receipt(t) \/ StoreDispatch(t) \/ network_copy(t) \/ InsertRecord(t)
    BY <1>1, <2>3 DEF Receipt, StoreDispatch, network_copy, InsertRecord, Goto, Reply, TypeOK
  <2>4. CASE UpdateDispatch(t) \/ StatusDispatch(t) \/ SetRecord(t)
    BY <1>1, <2>4 DEF UpdateDispatch, StatusDispatch, SetRecord, Goto, Reply, TypeOK
  <2> QED
    BY <2>1, <2>2, <2>3, <2>4 DEF Handle
<1>5. l = "rotate" => \/ req[t].op = "Update" /\ req[t].key # StatusKey
                      \/ req[t].op = "UpdateStatusList" /\ req[t].key = StatusKey
  <2>1. CASE UpdateDispatch(t) \/ StatusDispatch(t)
    BY <1>1, <2>1 DEF UpdateDispatch, StatusDispatch, Goto, Reply, TypeOK
  <2>2. CASE Receipt(t) \/ StoreDispatch(t) \/ network_copy(t) \/ InsertRecord(t)
    BY <1>1, <2>2 DEF Receipt, StoreDispatch, network_copy, InsertRecord, Goto, Reply, TypeOK
  <2>3. CASE verify_for_key(t) \/ VerifyUpdate(t) \/ SetRecord(t)
    BY <1>1, <2>3 DEF verify_for_key, VerifyUpdate, SetRecord, Goto, Reply, TypeOK
  <2> QED
    BY <2>1, <2>2, <2>3 DEF Handle
<1>6. Verified'
  BY <1>1, <1>2, <1>4, <1>5 DEF Verified, TypeOK
<1>7. OnlyAuthentic'
  <2>1. CASE record' = record
    BY <2>1 DEF OnlyAuthentic
  <2>2. CASE /\ pc[t] \in {"insert", "set"}
             /\ record' = [record EXCEPT ![req[t].key] = req[t].value]
    BY <1>3, <2>2, RequestFields DEF OnlyAuthentic, Verified, TypeOK
  <2> QED
    BY <2>1, <2>2, HandleWrites
<1> QED
  BY <1>6, <1>7

-----------------------------------------------------------------------------
(* A request that arrives is marked and taken up, or is a copy and changes
   nothing but the count of arrivals. *)
LEMMA ArriveIInv ==
    ASSUME IInv, NEW t \in Tasks, NEW r \in Requests, handle_datagram(t, r)
    PROVE  IInv'
<1> USE DEF IInv
<1>1. CASE r \in in_progress
  <2>1. UNCHANGED <<in_progress, pc, req, store_lookups, record, slot, spawned, checked, old>>
    BY <1>1 DEF handle_datagram, storeVars
  <2>2. arrived' \in [Requests -> Nat]
    BY ReplicaAssumption DEF handle_datagram, TypeOK
  <2> QED
    BY <2>1, <2>2 DEF TypeOK, Busy, CopiesSuppressed, SlotsExact, Placed, OnlyAuthentic, Verified
<1>2. CASE r \notin in_progress
  <2>1. /\ pc[t] = "idle" /\ pc' = [pc EXCEPT ![t] = "slot"]
        /\ req' = [req EXCEPT ![t] = r]
        /\ in_progress' = in_progress \cup {r}
        /\ UNCHANGED <<store_lookups, record, slot, spawned, checked, old>>
    BY <1>2 DEF handle_datagram, storeVars, Goto
  <2>2. Busy' = Busy \cup {t} /\ t \notin Busy
    BY <2>1 DEF Busy, TypeOK
  <2>3. arrived' \in [Requests -> Nat]
    BY ReplicaAssumption DEF handle_datagram, TypeOK
  <2>4. TypeOK'
    BY <2>1, <2>2, <2>3 DEF TypeOK
  <2>5. CopiesSuppressed'
    <3>1. \A u \in Busy : u \in Tasks /\ req'[u] = req[u] /\ req[u] # r
      BY <1>2, <2>1, <2>2 DEF CopiesSuppressed, Busy, TypeOK
    <3>2. req'[t] = r
      BY <2>1 DEF TypeOK
    <3>3. {req'[u] : u \in Busy'} = {req[u] : u \in Busy} \cup {r}
      BY <2>2, <3>1, <3>2
    <3> QED
      BY <2>1, <2>2, <3>1, <3>2, <3>3 DEF CopiesSuppressed
  <2>6. {u \in Tasks : pc[u] = "refuse"}' = {u \in Tasks : pc[u] = "refuse"}
    BY <2>1 DEF TypeOK
  <2>7. SlotsExact'
    BY <2>1, <2>6 DEF SlotsExact
  <2>8. Placed'
    BY <2>1 DEF Placed, TypeOK, Busy, Admitted
  <2>9. OnlyAuthentic' /\ Verified'
    BY <2>1 DEF OnlyAuthentic, Verified, TypeOK
  <2> QED
    BY <2>4, <2>5, <2>7, <2>8, <2>9
<1> QED
  BY <1>1, <1>2

(* A place is counted exactly once, whether it is given or refused. *)
LEMMA TakeSlotIInv ==
    ASSUME IInv, NEW t \in Tasks, TakeSlot(t)
    PROVE  IInv'
<1> USE DEF IInv
<1>1. PICK l \in {"receipt", "refuse"} : pc' = [pc EXCEPT ![t] = l]
  BY DEF TakeSlot, Goto
<1>2. /\ pc[t] = "slot"
      /\ UNCHANGED <<record, arrived, in_progress, req, spawned, checked, old>>
      /\ slot' \in {slot, slot \cup {t}}
      /\ store_lookups' \in {store_lookups, store_lookups + 1}
  BY DEF TakeSlot, storeVars
<1>3. Busy' = Busy /\ t \in Busy
  BY <1>1, <1>2 DEF Busy, TypeOK
<1>4. TypeOK'
  BY <1>1, <1>2, <1>3 DEF TypeOK
<1>5. CopiesSuppressed'
  BY <1>2, <1>3 DEF CopiesSuppressed
<1>6. t \notin slot /\ t \notin {u \in Tasks : pc[u] = "refuse"}
  BY <1>2 DEF Placed, Admitted
<1>7. SlotsExact'
  <2> DEFINE R == {u \in Tasks : pc[u] = "refuse"}
  <2>1. IsFiniteSet(slot) /\ IsFiniteSet(slot \cup R) /\ slot \subseteq slot \cup R
    BY FS_Subset, ReplicaAssumption DEF TypeOK, Busy
  <2>2. /\ Cardinality(slot) \in Nat /\ Cardinality(slot \cup R) \in Nat
        /\ Cardinality(slot) <= Cardinality(slot \cup R)
    BY <2>1, FS_CardinalityType, FS_Subset
  <2>3. Cardinality((slot \cup R) \cup {t}) = Cardinality(slot \cup R) + 1
    BY <1>6, <2>1, FS_AddElement
  <2>4. Cardinality(slot \cup {t}) = Cardinality(slot) + 1
    BY <1>6, <2>1, FS_AddElement
  <2>5. CASE /\ Goto(t, "receipt")
             /\ UNCHANGED <<store_lookups, slot>>
    <3>1. R' = R
      BY <1>2, <2>5 DEF Goto, TypeOK
    <3> QED
      BY <2>5, <3>1 DEF SlotsExact
  <2>6. CASE /\ store_lookups' = store_lookups + 1
             /\ store_lookups >= MaxStoreLookups /\ Goto(t, "refuse") /\ UNCHANGED slot
    <3>1. R' = R \cup {t}
      BY <1>2, <2>6 DEF Goto, TypeOK
    <3>2. (slot \cup R)' = (slot \cup R) \cup {t}
      BY <2>6, <3>1
    <3> QED
      BY <2>3, <2>6, <3>2 DEF SlotsExact
  <2>7. CASE /\ store_lookups' = store_lookups + 1
             /\ store_lookups < MaxStoreLookups /\ Goto(t, "receipt") /\ slot' = slot \cup {t}
    <3>1. R' = R
      BY <1>2, <2>7 DEF Goto, TypeOK
    <3>2. (slot \cup R)' = (slot \cup R) \cup {t}
      BY <2>7, <3>1
    <3>3. store_lookups' = Cardinality((slot \cup R)')
      BY <2>3, <2>7, <3>2 DEF SlotsExact
    <3>4. Cardinality(slot') <= MaxStoreLookups
      BY <2>2, <2>4, <2>7, ReplicaAssumption DEF SlotsExact
    <3> QED
      BY <3>3, <3>4 DEF SlotsExact
  <2> QED
    BY <2>5, <2>6, <2>7 DEF TakeSlot
<1>8. Placed'
  <2>1. slot' = slot \/ (l = "receipt" /\ slot' = slot \cup {t})
    BY <1>1, <1>2 DEF TakeSlot, Goto, TypeOK
  <2> QED
    BY <1>1, <1>6, <2>1 DEF Placed, TypeOK, Busy, Admitted
<1>9. OnlyAuthentic' /\ Verified'
  BY <1>1, <1>2 DEF OnlyAuthentic, Verified, TypeOK
<1> QED
  BY <1>4, <1>5, <1>7, <1>8, <1>9

(* The end of a request, answered or refused, drops its mark and its place and
   no others. *)
LEMMA FinishIInv ==
    ASSUME IInv, NEW t \in Tasks, Refuse(t) \/ Answer(t)
    PROVE  IInv'
<1> USE DEF IInv
<1>1. /\ pc' = [pc EXCEPT ![t] = "idle"]
      /\ in_progress' = in_progress \ {req[t]}
      /\ slot' = slot \ {t} /\ spawned' = spawned \ {t} /\ checked' = checked \ {t}
      /\ old' = [old EXCEPT ![t] = Absent]
      /\ req' = [req EXCEPT ![t] = NoRequest]
      /\ UNCHANGED <<arrived, record>>
  BY DEF Refuse, Answer, Finish, Goto, Store!Start
<1>2. pc[t] \in {"refuse", "answer"}
  BY DEF Refuse, Answer
<1>3. NoRequest \in Requests
  BY ReplicaAssumption DEF NoRequest
<1>4. Busy' = Busy \ {t} /\ t \in Busy
  BY <1>1, <1>2 DEF Busy, TypeOK
<1>5. CopiesSuppressed'
  <2>1. \A u \in Busy' : u \in Busy /\ req'[u] = req[u] /\ req[u] # req[t]
    BY <1>1, <1>4 DEF CopiesSuppressed, TypeOK, Busy
  <2>2. {req'[u] : u \in Busy'} = {req[u] : u \in Busy} \ {req[t]}
    BY <1>4, <2>1
  <2> QED
    BY <1>1, <1>4, <2>1, <2>2 DEF CopiesSuppressed
<1>6. store_lookups' \in Nat /\ SlotsExact'
  <2> DEFINE R == {u \in Tasks : pc[u] = "refuse"}
  <2>1. IsFiniteSet(slot) /\ IsFiniteSet(slot \cup R)
    BY FS_Subset, ReplicaAssumption DEF TypeOK, Busy
  <2>2. R' = R \ {t}
    BY <1>1 DEF TypeOK
  <2>3. (slot \cup R)' = (slot \cup R) \ {t}
    BY <1>1, <2>2
  <2>4. /\ Cardinality(slot) \in Nat /\ Cardinality(slot \ {t}) \in Nat
        /\ Cardinality(slot \ {t}) <= Cardinality(slot)
        /\ Cardinality(slot \cup R) \in Nat
    BY <2>1, FS_CardinalityType, FS_Subset
  <2>5. Cardinality(slot') <= MaxStoreLookups
    BY <1>1, <2>4, ReplicaAssumption DEF SlotsExact
  <2>6. CASE t \in slot \/ pc[t] = "refuse"
    <3>1. t \in slot \cup R
      BY <2>6
    <3>2. Cardinality((slot \cup R) \ {t}) = Cardinality(slot \cup R) - 1
      BY <2>1, <3>1, FS_RemoveElement
    <3>3. Cardinality((slot \cup R) \ {t}) \in Nat
      BY <2>1, FS_CardinalityType, FS_Subset
    <3>4. store_lookups' = store_lookups - 1
      BY <2>6 DEF Refuse, Answer, Finish
    <3> QED
      BY <2>3, <2>5, <3>2, <3>3, <3>4 DEF SlotsExact
  <2>7. CASE ~(t \in slot \/ pc[t] = "refuse")
    <3>1. (slot \cup R) \ {t} = slot \cup R
      BY <2>7
    <3>2. store_lookups' = store_lookups
      BY <2>7 DEF Refuse, Answer, Finish, TypeOK
    <3> QED
      BY <2>3, <2>4, <2>5, <3>1, <3>2 DEF SlotsExact
  <2> QED
    BY <2>6, <2>7
<1>7. TypeOK'
  BY <1>1, <1>3, <1>4, <1>6 DEF TypeOK
<1>8. Placed'
  BY <1>1 DEF Placed, TypeOK, Busy
<1>9. OnlyAuthentic' /\ Verified'
  BY <1>1 DEF OnlyAuthentic, Verified, TypeOK
<1> QED
  BY <1>5, <1>6, <1>7, <1>8, <1>9

(* Expiry only removes records. *)
LEMMA ExpireIInv ==
    ASSUME IInv, Expire
    PROVE  IInv'
<1> USE DEF IInv
<1>1. UNCHANGED <<arrived, in_progress, store_lookups, pc, req, slot, spawned, checked, old>>
  BY DEF Expire, admission
<1>2. PICK S : record' = [k \in Keys |-> IF k \in S THEN Absent ELSE record[k]]
  BY DEF Expire, Store!Expire
<1>3. TypeOK'
  BY <1>1, <1>2 DEF TypeOK, Busy
<1>4. OnlyAuthentic'
  BY <1>2 DEF OnlyAuthentic
<1> QED
  BY <1>1, <1>3, <1>4 DEF CopiesSuppressed, Busy, SlotsExact, Placed, Verified

(* Every step keeps the invariant. *)
LEMMA NextIInv == IInv /\ [Next]_vars => IInv'
<1> SUFFICES ASSUME IInv, [Next]_vars PROVE IInv'
  OBVIOUS
<1>1. ASSUME NEW t \in Tasks, Handle(t) PROVE IInv'
  BY <1>1, HandleType, HandleAdmission, HandleVerified DEF IInv
<1>2. ASSUME NEW t \in Tasks, Step(t) PROVE IInv'
  BY <1>1, <1>2, TakeSlotIInv, FinishIInv DEF Step, Handle
<1>3. CASE UNCHANGED vars
  BY <1>3 DEF vars, IInv, TypeOK, Busy, CopiesSuppressed, SlotsExact, Placed,
              OnlyAuthentic, Verified
<1> QED
  BY <1>2, <1>3, ArriveIInv, ExpireIInv DEF Next

(* The invariant holds in every reachable state. *)
THEOREM Invariance == Spec => []IInv
BY InitIInv, NextIInv, PTL DEF Spec

(* The handlers of a node are well-typed; the count of places never drops
   below zero. *)
THEOREM TypeCorrect == Spec => []TypeOK
<1>1. IInv => TypeOK
  BY DEF IInv
<1> QED
  BY <1>1, Invariance, PTL

(* No record that fails verify_record is ever held, whatever requests, copies
   and expiries interleave. *)
THEOREM Authenticity == Spec => []OnlyAuthentic
<1>1. IInv => OnlyAuthentic
  BY DEF IInv
<1> QED
  BY <1>1, Invariance, PTL

(* InProgress: no request is handled by two tasks at once, and the requests
   marked are those being handled. *)
THEOREM CopiesAreSuppressed == Spec => []CopiesSuppressed
<1>1. IInv => CopiesSuppressed
  BY DEF IInv
<1> QED
  BY <1>1, Invariance, PTL

(* StoreLookupSlot: never more places than MAX_STORE_LOOKUPS, none leaked. *)
THEOREM SlotsAreExact == Spec => []SlotsExact
<1>1. IInv => SlotsExact
  BY DEF IInv
<1> QED
  BY <1>1, Invariance, PTL

-----------------------------------------------------------------------------
(* Unless it expires, a record once held stays held, and what a handler has
   seen of the store remains true until it acts on it. *)
Recalls(t) ==
    /\ pc[t] \in {"receipt", "dispatch"} =>
          (req[t].op = "Store" /\ store_needs_lookup(req[t].key) => t \in slot)
    /\ pc[t] = "dispatch" => (t \in slot => t \in spawned)
    /\ pc[t] = "check" => t \in slot /\ t \in spawned
    /\ pc[t] \in {"verify", "insert"} => (store_needs_lookup(req[t].key) => t \in checked)
    /\ pc[t] \in {"rotate", "set"} => record[req[t].key] # Absent

Remembered == \A t \in Tasks \ disturbed : Recalls(t)

(* No step but an expiry makes a record disappear. *)
LEMMA RecordsStay ==
    ASSUME IInv, Next \/ UNCHANGED vars, NEW k \in Keys, record[k] # Absent
    PROVE  \/ record'[k] # Absent
           \/ Expire /\ \A t \in Busy : req[t].key = k => t \in disturbed'
<1>1. ASSUME NEW t \in Tasks, Handle(t) PROVE record'[k] # Absent
  <2>1. req[t] \in Requests
    BY DEF IInv, TypeOK
  <2>2. req[t].value # Absent
    BY <2>1, RequestFields, ReplicaAssumption
  <2> QED
    BY <1>1, <2>2, HandleWrites DEF IInv, TypeOK
<1>2. ASSUME NEW t \in Tasks, Step(t) PROVE record'[k] # Absent
  BY <1>1, <1>2 DEF Step, Handle, TakeSlot, Refuse, Answer, Finish, Store!Start, storeVars
<1>3. CASE Expire
  <2>1. PICK S : /\ record' = [j \in Keys |-> IF j \in S THEN Absent ELSE record[j]]
                 /\ disturbed' = disturbed \cup {t \in Busy : req[t].key \in S}
    BY <1>3 DEF Expire, Store!Expire
  <2> QED
    BY <1>3, <2>1
<1>4. CASE \E t \in Tasks, r \in Requests : handle_datagram(t, r)
  BY <1>4 DEF handle_datagram, storeVars
<1>5. CASE UNCHANGED vars
  BY <1>5 DEF vars
<1> QED
  BY <1>2, <1>3, <1>4, <1>5 DEF Next

(* What a handler has seen remains true while others move. *)
LEMMA OthersRecall ==
    ASSUME IInv, Next \/ UNCHANGED vars,
           NEW u \in Tasks \ disturbed', Recalls(u), pc'[u] = pc[u], req'[u] = req[u],
           u \in slot' <=> u \in slot, u \in spawned' <=> u \in spawned,
           u \in checked' <=> u \in checked
    PROVE  Recalls(u)'
<1>1. req[u].key \in Keys
  BY RequestFields DEF IInv, TypeOK
<1>2. CASE pc[u] = "idle"
  BY <1>2 DEF Recalls
<1>3. CASE pc[u] # "idle"
  <2>1. record[req[u].key] # Absent => record'[req[u].key] # Absent
    BY <1>1, <1>3, RecordsStay DEF Busy
  <2> QED
    BY <2>1 DEF Recalls, store_needs_lookup
<1> QED
  BY <1>2, <1>3

(* A step of a handler leaves the other handlers where they are. *)
LEMMA OthersStay ==
    ASSUME IInv, NEW t \in Tasks, NEW u \in Tasks \ {t},
           Step(t) \/ (\E r \in Requests : handle_datagram(t, r))
    PROVE  /\ pc'[u] = pc[u] /\ req'[u] = req[u]
           /\ u \in slot' <=> u \in slot
           /\ u \in spawned' <=> u \in spawned
           /\ u \in checked' <=> u \in checked
<1> USE DEF IInv, TypeOK, Goto, Reply
<1>1. CASE Receipt(t) \/ StoreDispatch(t) \/ network_copy(t)
  BY <1>1 DEF Receipt, StoreDispatch, network_copy
<1>2. CASE verify_for_key(t) \/ InsertRecord(t) \/ UpdateDispatch(t)
  BY <1>2 DEF verify_for_key, InsertRecord, UpdateDispatch
<1>3. CASE StatusDispatch(t) \/ VerifyUpdate(t) \/ SetRecord(t)
  BY <1>3 DEF StatusDispatch, VerifyUpdate, SetRecord
<1>4. CASE Refuse(t) \/ Answer(t)
  BY <1>4 DEF Refuse, Answer, Finish
<1>5. CASE TakeSlot(t)
  BY <1>5 DEF TakeSlot
<1>6. CASE \E r \in Requests : handle_datagram(t, r)
  BY <1>6 DEF handle_datagram
<1> QED
  BY <1>1, <1>2, <1>3, <1>4, <1>5, <1>6 DEF Step

(* Each step of a handler passes on what it has seen. *)
LEMMA StepRecalls ==
    ASSUME IInv, NEW t \in Tasks, Recalls(t), Step(t)
    PROVE  Recalls(t)'
<1> USE DEF IInv, TypeOK, Goto, Reply, Recalls, store_needs_lookup
<1>1. CASE TakeSlot(t)
  BY <1>1 DEF TakeSlot, storeVars
<1>2. CASE Refuse(t) \/ Answer(t)
  BY <1>2 DEF Refuse, Answer, Finish
<1>3. CASE Receipt(t)
  BY <1>3 DEF Receipt, storeVars
<1>4. CASE StoreDispatch(t)
  BY <1>4 DEF StoreDispatch, storeVars
<1>5. CASE network_copy(t)
  BY <1>5 DEF network_copy, storeVars
<1>6. CASE verify_for_key(t)
  BY <1>6 DEF verify_for_key, storeVars
<1>7. CASE InsertRecord(t) \/ SetRecord(t)
  BY <1>7 DEF InsertRecord, SetRecord
<1>8. CASE UpdateDispatch(t) \/ StatusDispatch(t)
  BY <1>8 DEF UpdateDispatch, StatusDispatch, storeVars
<1>9. CASE VerifyUpdate(t)
  BY <1>9 DEF VerifyUpdate, storeVars
<1> QED
  BY <1>1, <1>2, <1>3, <1>4, <1>5, <1>6, <1>7, <1>8, <1>9 DEF Step

(* What the handlers have seen of the store stays true, except for those whose
   record expired meanwhile. *)
THEOREM RememberedHolds == Spec => []Remembered
<1>1. Init => Remembered
  BY DEF Init, Remembered, Recalls
<1>2. IInv /\ Remembered /\ [Next]_vars => Remembered'
  <2> SUFFICES ASSUME IInv, Remembered, Next \/ UNCHANGED vars, NEW u \in Tasks \ disturbed'
               PROVE  Recalls(u)'
    BY DEF Remembered
  <2>1. ASSUME Next, ~Expire, u \in disturbed PROVE Recalls(u)'
    <3>1. u \notin Busy'
      BY <2>1 DEF Next
    <3>2. pc'[u] = "idle"
      BY <3>1 DEF Busy
    <3> QED
      BY <3>2 DEF Recalls
  <2>2. ASSUME NEW t \in Tasks, Step(t), Next, u \notin disturbed PROVE Recalls(u)'
    <3>1. Recalls(u)
      BY <2>2 DEF Remembered
    <3>2. CASE u = t
      BY <2>2, <3>1, <3>2, StepRecalls
    <3>3. CASE u # t
      BY <2>2, <3>1, <3>3, OthersStay, OthersRecall
    <3> QED
      BY <3>2, <3>3
  <2>3. ASSUME NEW t \in Tasks, NEW r \in Requests, handle_datagram(t, r), Next, u \notin disturbed
        PROVE  Recalls(u)'
    <3>1. Recalls(u)
      BY <2>3 DEF Remembered
    <3>2. CASE u = t /\ r \notin in_progress
      BY <2>3, <3>2 DEF handle_datagram, Goto, Recalls, IInv, TypeOK
    <3>3. CASE u # t
      BY <2>3, <3>1, <3>3, OthersStay, OthersRecall
    <3>4. CASE r \in in_progress
      BY <2>3, <3>1, <3>4, OthersRecall DEF handle_datagram
    <3> QED
      BY <3>2, <3>3, <3>4
  <2>4. CASE Expire
    <3>1. u \notin disturbed /\ UNCHANGED <<pc, req, slot, spawned, checked>>
      BY <2>4 DEF Expire
    <3>2. Next
      BY <2>4 DEF Next
    <3> QED
      BY <3>1, <3>2, OthersRecall DEF Remembered
  <2>5. CASE UNCHANGED vars
    <3>1. u \notin disturbed /\ UNCHANGED <<pc, req, slot, spawned, checked>>
      BY <2>5 DEF vars
    <3> QED
      BY <2>5, <3>1, OthersRecall DEF Remembered
  <2> QED
    BY <2>1, <2>2, <2>3, <2>4, <2>5 DEF Next
<1> QED
  BY <1>1, <1>2, Invariance, PTL DEF Spec

(* Unless its record expired meanwhile, no check runs on a worker or without a
   place: the answers to a lookup never queue behind it. *)
THEOREM ChecksAreApart == Spec => []ChecksRunApart
<1>1. Remembered => ChecksRunApart
  BY DEF Remembered, Recalls, ChecksRunApart
<1> QED
  BY <1>1, RememberedHolds, PTL

(* The places for checks are counted exactly, held by whoever checks, and never
   more than the limit. *)
THEOREM PlacesAreKept == Spec => []PlacesKept
<1>1. TypeOK /\ SlotsExact /\ ChecksRunApart => PlacesKept
  BY DEF PlacesKept
<1> QED
  BY <1>1, TypeCorrect, SlotsAreExact, ChecksAreApart, PTL

(* An empty replica stores a record only after the network check of that very
   STORE, unless a record expired while it was handled. *)
THEOREM CheckedBeforeStored == Spec => StoredAfterCheck
<1> DEFINE Asked(k) == \E t \in Tasks :
                /\ req[t].key = k /\ req[t].value = record'[k]
                /\ \/ pc[t] = "insert" /\ t \in checked
                   \/ pc[t] \in {"insert", "set"} /\ t \in disturbed
<1>1. IInv /\ Remembered /\ [Next]_vars =>
        [\A k \in Keys \ {StatusKey} : record[k] = Absent /\ record'[k] # Absent => Asked(k)]_vars
  <2> SUFFICES ASSUME IInv, Remembered, Next, NEW k \in Keys \ {StatusKey},
                      record[k] = Absent, record'[k] # Absent
               PROVE  Asked(k)
    BY DEF vars
  <2>0. ~Expire
    BY DEF Expire, Store!Expire
  <2>1. PICK t \in Tasks : Handle(t)
    BY <2>0 DEF Next, Step, Handle, TakeSlot, Refuse, Answer, Finish, handle_datagram, storeVars,
           Store!Start
  <2>2. /\ pc[t] \in {"insert", "set"}
        /\ record' = [record EXCEPT ![req[t].key] = req[t].value]
    BY <2>1, HandleWrites DEF IInv
  <2>3. req[t].key = k /\ record'[k] = req[t].value
    BY <2>2 DEF IInv, TypeOK
  <2>4. t \notin disturbed => pc[t] = "insert" /\ t \in checked
    BY <2>2, <2>3 DEF Remembered, Recalls, store_needs_lookup
  <2> QED
    BY <2>2, <2>3, <2>4
<1> QED
  BY <1>1, Invariance, RememberedHolds, PTL DEF Spec, StoredAfterCheck

-----------------------------------------------------------------------------
(* With one worker, an UPDATE runs alone among those that may replace a
   record, so the record it was verified against is still the one it replaces. *)
Current(t) ==
    /\ t \in slot => req[t].op = "Store"
    /\ pc[t] \in {"rotate", "set"} =>
          \/ req[t].op = "UpdateStatusList" /\ req[t].key = StatusKey
          \/ req[t].op = "Update" /\ (t \in disturbed \/ old[t] = record[req[t].key])
    /\ pc[t] = "set" /\ req[t].op = "Update" =>
          verify_rotation(req[t].key, req[t].value, old[t], req[t].auth)

OneAtATime == \A t, u \in OnWorker : t = u

(* With one worker no two handlers share it. *)
LEMMA OneAtATimeHolds == ASSUME Workers = 1 PROVE Spec => []OneAtATime
<1>1. Init => OneAtATime
  BY DEF Init, OneAtATime, OnWorker, Busy
<1>2. IInv /\ OneAtATime /\ [Next]_vars => OneAtATime'
  <2> SUFFICES ASSUME IInv, OneAtATime, [Next]_vars PROVE OneAtATime'
    OBVIOUS
  <2>1. ASSUME NEW t \in Tasks, Step(t) PROVE OnWorker' \subseteq OnWorker
    <3>1. \A u \in Tasks \ {t} : u \in OnWorker' => u \in OnWorker
      BY <2>1, OthersStay DEF OnWorker, Busy
    <3>2. t \in OnWorker' => t \in OnWorker
      <4>1. CASE Refuse(t) \/ Answer(t)
        BY <4>1 DEF Refuse, Answer, Finish, Goto, OnWorker, Busy, IInv, TypeOK
      <4>2. CASE TakeSlot(t)
        BY <4>2 DEF TakeSlot, OnWorker, Busy
      <4>3. CASE Receipt(t)
        BY <4>3 DEF Receipt, OnWorker, Busy
      <4>4. CASE StoreDispatch(t) \/ network_copy(t) \/ verify_for_key(t) \/ InsertRecord(t)
        BY <4>4 DEF StoreDispatch, network_copy, verify_for_key, InsertRecord, OnWorker, Busy
      <4>5. CASE UpdateDispatch(t) \/ StatusDispatch(t) \/ VerifyUpdate(t) \/ SetRecord(t)
        BY <4>5 DEF UpdateDispatch, StatusDispatch, VerifyUpdate, SetRecord, OnWorker, Busy
      <4> QED
        BY <2>1, <4>1, <4>2, <4>3, <4>4, <4>5 DEF Step
    <3>3. OnWorker' \subseteq Tasks
      BY DEF OnWorker, Busy
    <3> QED
      BY <3>1, <3>2, <3>3
  <2>2. ASSUME NEW t \in Tasks, NEW r \in Requests, handle_datagram(t, r) PROVE OneAtATime'
    <3>1. IsFiniteSet(OnWorker)
      BY FS_Subset, ReplicaAssumption DEF OnWorker, Busy
    <3>2. Cardinality(OnWorker) \in Nat /\ Cardinality(OnWorker) < 1
      BY <2>2, <3>1, FS_CardinalityType DEF handle_datagram
    <3>3. OnWorker = {}
      BY <3>1, <3>2, FS_EmptySet
    <3>4. OnWorker' \subseteq {t}
      BY <2>2, <3>3, OthersStay DEF OnWorker, Busy
    <3> QED
      BY <3>4 DEF OneAtATime
  <2>3. CASE Expire \/ UNCHANGED vars
    BY <2>3 DEF Expire, vars, OneAtATime, OnWorker, Busy
  <2> QED
    BY <2>1, <2>2, <2>3 DEF Next, OneAtATime
<1> QED
  BY <1>1, <1>2, Invariance, PTL DEF Spec

(* The handler that moves keeps its own record current. *)
LEMMA StepCurrent ==
    ASSUME IInv, NEW t \in Tasks, Current(t), Step(t),
           t \in disturbed /\ pc'[t] # "idle" => t \in disturbed'
    PROVE  Current(t)'
<1> USE DEF IInv, TypeOK, Goto, Reply, Current
<1>1. CASE TakeSlot(t)
  BY <1>1 DEF TakeSlot, storeVars
<1>2. CASE Refuse(t) \/ Answer(t)
  BY <1>2 DEF Refuse, Answer, Finish
<1>3. CASE Receipt(t) \/ StoreDispatch(t)
  BY <1>3 DEF Receipt, StoreDispatch
<1>4. CASE network_copy(t) \/ verify_for_key(t)
  BY <1>4 DEF network_copy, verify_for_key
<1>5. CASE InsertRecord(t) \/ SetRecord(t)
  <2>1. /\ pc' = [pc EXCEPT ![t] = "answer"]
        /\ UNCHANGED <<req, slot>>
    BY <1>5 DEF InsertRecord, SetRecord
  <2> QED
    BY <2>1
<1>6. CASE UpdateDispatch(t)
  BY <1>6 DEF UpdateDispatch, storeVars
<1>7. CASE StatusDispatch(t)
  BY <1>7 DEF StatusDispatch, storeVars
<1>8. CASE VerifyUpdate(t)
  BY <1>8 DEF VerifyUpdate, Authorized, storeVars
<1> QED
  BY <1>1, <1>2, <1>3, <1>4, <1>5, <1>6, <1>7, <1>8 DEF Step

(* A STORE that is inserted leaves a record that is held alone. *)
LEMMA InsertKeeps ==
    ASSUME IInv, NEW t \in Tasks, InsertRecord(t), NEW k \in Keys, record[k] # Absent
    PROVE  record'[k] = record[k]
BY RequestFields DEF InsertRecord, Store!insert_if_absent, Store!Put, IInv, TypeOK

(* Only SetRecord replaces a record, and with one worker never under another
   update. *)
LEMMA OthersCurrent ==
    ASSUME IInv, Remembered, OneAtATime, NEW t \in Tasks, NEW u \in Tasks \ {t},
           Current(t), Current(u), Step(t),
           u \in disturbed /\ pc'[u] # "idle" => u \in disturbed'
    PROVE  Current(u)'
<1>1. /\ pc'[u] = pc[u] /\ req'[u] = req[u]
      /\ u \in slot' <=> u \in slot
  BY OthersStay
<1>2. old'[u] = old[u]
  BY DEF IInv, TypeOK, Step, TakeSlot, Refuse, Answer, Finish, Receipt, StoreDispatch,
         network_copy, verify_for_key, InsertRecord, UpdateDispatch, StatusDispatch,
         VerifyUpdate, SetRecord
<1>3. ASSUME pc[u] \in {"rotate", "set"}, req[u].op = "Update", u \notin disturbed
      PROVE  record'[req[u].key] = record[req[u].key]
  <2>1. req[u].key \in Keys /\ record[req[u].key] # Absent
    BY <1>3, RequestFields DEF Remembered, Recalls, IInv, TypeOK
  <2>2. CASE InsertRecord(t)
    BY <2>1, <2>2, InsertKeeps
  <2>3. CASE SetRecord(t)
    <3>1. t \notin slot /\ u \notin slot
      BY <1>3, <2>3 DEF SetRecord, Current
    <3>2. t \in OnWorker /\ u \in OnWorker
      BY <1>3, <2>3, <3>1 DEF SetRecord, OnWorker, Busy, IInv, TypeOK
    <3> QED
      BY <3>2 DEF OneAtATime
  <2>4. CASE ~InsertRecord(t) /\ ~SetRecord(t)
    BY <2>4 DEF Step, TakeSlot, Refuse, Answer, Finish, Receipt, StoreDispatch, network_copy,
                verify_for_key, UpdateDispatch, StatusDispatch, VerifyUpdate, storeVars, Store!Start
  <2> QED
    BY <2>2, <2>3, <2>4
<1> QED
  BY <1>1, <1>2, <1>3 DEF Current

(* Every update in progress stays current. *)
LEMMA CurrentHolds ==
    ASSUME Workers = 1 PROVE Spec => [](\A t \in Tasks : Current(t))
<1> DEFINE C == \A t \in Tasks : Current(t)
<1>1. Init => C
  BY DEF Init, Current
<1>2. IInv /\ Remembered /\ OneAtATime /\ C /\ [Next]_vars => C'
  <2> SUFFICES ASSUME IInv, Remembered, OneAtATime, C, Next \/ UNCHANGED vars, NEW u \in Tasks
               PROVE  Current(u)'
    OBVIOUS
  <2>1. ASSUME NEW t \in Tasks, Step(t), disturbed' = disturbed \cap Busy' PROVE Current(u)'
    <3>1. u \in disturbed /\ pc'[u] # "idle" => u \in disturbed'
      BY <2>1 DEF Busy
    <3> QED
      BY <2>1, <3>1, StepCurrent, OthersCurrent
  <2>2. ASSUME NEW t \in Tasks, NEW r \in Requests, handle_datagram(t, r),
               disturbed' = disturbed \cap Busy'
        PROVE  Current(u)'
    <3>1. u \in disturbed /\ pc'[u] # "idle" => u \in disturbed'
      BY <2>2 DEF Busy
    <3> QED
      BY <2>2, <3>1 DEF handle_datagram, Goto, Current, IInv, TypeOK, Placed, Admitted, storeVars
  <2>3. CASE Expire
    <3>1. PICK S : /\ record' = [k \in Keys |-> IF k \in S THEN Absent ELSE record[k]]
                   /\ disturbed' = disturbed \cup {t \in Busy : req[t].key \in S}
      BY <2>3 DEF Expire, Store!Expire
    <3>2. UNCHANGED <<pc, req, slot, old>>
      BY <2>3 DEF Expire
    <3>3. Current(u) /\ req[u].key \in Keys
      BY RequestFields DEF IInv, TypeOK
    <3>4. CASE u \in disturbed'
      BY <3>2, <3>3, <3>4 DEF Current
    <3>5. CASE u \notin disturbed'
      <4>1. u \in Busy => record'[req[u].key] = record[req[u].key]
        BY <3>1, <3>3, <3>5
      <4> QED
        BY <3>1, <3>2, <3>3, <3>5, <4>1 DEF Current, Busy
    <3> QED
      BY <3>4, <3>5
  <2>4. CASE UNCHANGED vars
    BY <2>4 DEF vars, Current
  <2> QED
    BY <2>1, <2>2, <2>3, <2>4 DEF Next
<1> QED
  BY <1>1, <1>2, Invariance, RememberedHolds, OneAtATimeHolds, PTL DEF Spec

(* With one worker, a record is replaced only by an update that the key of
   that very record authorized, or by one during which a record expired. *)
THEOREM RotationsFollow ==
    ASSUME Workers = 1 PROVE Spec => UpdateReplacesVerified
<1> DEFINE C == \A t \in Tasks : Current(t)
           Follows(k) ==
               \/ \E t \in disturbed : pc[t] = "set" /\ req[t].key = k
               \/ \E r \in Requests :
                     /\ r.op = "Update" /\ r.key = k /\ r.value = record'[k]
                     /\ verify_rotation(k, r.value, record[k], r.auth)
           A == \A k \in Keys \ {StatusKey} :
                   record[k] # Absent /\ record'[k] \notin {record[k], Absent} => Follows(k)
<1>1. IInv /\ C /\ [Next]_vars => [A]_vars
  <2> SUFFICES ASSUME IInv, C, Next, NEW k \in Keys \ {StatusKey},
                      record[k] # Absent, record'[k] \notin {record[k], Absent}
               PROVE  Follows(k)
    BY DEF vars
  <2>0. ~Expire
    BY DEF Expire, Store!Expire
  <2>1. PICK t \in Tasks : Handle(t)
    BY <2>0 DEF Next, Step, Handle, TakeSlot, Refuse, Answer, Finish, handle_datagram, storeVars,
           Store!Start
  <2>2. ~InsertRecord(t)
    BY InsertKeeps
  <2>3. /\ pc[t] \in {"insert", "set"}
        /\ record' = [record EXCEPT ![req[t].key] = req[t].value]
    BY <2>1, HandleWrites DEF IInv
  <2>4. pc[t] = "set"
    BY <2>1, <2>2, <2>3 DEF Handle, Receipt, StoreDispatch, network_copy, verify_for_key,
                            UpdateDispatch, StatusDispatch, VerifyUpdate, SetRecord
  <2>5. req[t].key = k /\ record'[k] = req[t].value /\ req[t] \in Requests
    BY <2>3 DEF IInv, TypeOK
  <2>6. t \in disturbed \/ (/\ req[t].op = "Update"
                            /\ verify_rotation(k, req[t].value, record[k], req[t].auth))
    BY <2>4, <2>5 DEF Current
  <2> QED
    BY <2>4, <2>5, <2>6
<1> QED
  BY <1>1, Invariance, CurrentHolds, PTL DEF Spec, UpdateReplacesVerified
=============================================================================
