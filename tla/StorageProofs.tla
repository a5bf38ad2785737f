--------------------------- MODULE StorageProofs ---------------------------
(***************************************************************************)
(* For every number of threads and keys, every record length and every     *)
(* budget: the byte counter of the store is exact up to the bytes that are *)
(* in flight, the budget holds, and concurrent writes are atomic.          *)
(***************************************************************************)
EXTENDS Storage, FiniteSetTheorems, TLAPS

-----------------------------------------------------------------------------
(* Sums, counted as units. *)

(* A summand of n counts n units. *)
LEMMA UnitsOfOne ==
    ASSUME NEW x, NEW n \in Nat
    PROVE  IsFiniteSet({x} \X (1..n)) /\ Cardinality({x} \X (1..n)) = n
<1>1. IsFiniteSet({x}) /\ Cardinality({x}) = 1
  BY FS_Singleton
<1>2. IsFiniteSet(1..n) /\ Cardinality(1..n) = n
  BY FS_Interval
<1>3. Cardinality({x} \X (1..n)) = Cardinality({x}) * Cardinality(1..n)
  BY <1>1, <1>2, FS_Product
<1>4. IsFiniteSet({x} \X (1..n))
  BY <1>1, <1>2, FS_Product
<1> QED
  BY <1>1, <1>2, <1>3, <1>4

(* A function on a finite set counts finitely many units. *)
LEMMA UnitsFinite ==
    ASSUME NEW D, IsFiniteSet(D), NEW f \in [D -> Nat]
    PROVE  IsFiniteSet(Units(f))
<1> DEFINE T == {{x} \X (1..f[x]) : x \in D}
           g == [x \in D |-> {x} \X (1..f[x])]
<1>1. g \in Surjection(D, T)
  BY DEF Surjection
<1>2. IsFiniteSet(T)
  BY <1>1, FS_Surjection
<1>3. \A x \in D : IsFiniteSet({x} \X (1..f[x]))
  BY UnitsOfOne
<1>4. \A S \in T : IsFiniteSet(S)
  BY <1>3
<1> QED
  BY <1>2, <1>4, FS_UNION DEF Units

(* The sum is a natural number. *)
LEMMA TotalType ==
    ASSUME NEW D, IsFiniteSet(D), NEW f \in [D -> Nat]
    PROVE  Total(f) \in Nat
BY UnitsFinite, FS_CardinalityType DEF Total

(* No summand exceeds the sum. *)
LEMMA TotalMember ==
    ASSUME NEW D, IsFiniteSet(D), NEW f \in [D -> Nat], NEW x \in D
    PROVE  f[x] <= Total(f)
<1>1. {x} \X (1..f[x]) \subseteq Units(f)
  BY DEF Units
<1>2. Cardinality({x} \X (1..f[x])) <= Cardinality(Units(f))
  BY <1>1, UnitsFinite, FS_Subset
<1> QED
  BY <1>2, UnitsOfOne DEF Total

(* Changing one summand changes the sum by the difference. *)
LEMMA TotalUpdate ==
    ASSUME NEW D, IsFiniteSet(D), NEW f \in [D -> Nat], NEW g \in [D -> Nat],
           NEW x \in D, \A y \in D \ {x} : g[y] = f[y]
    PROVE  Total(g) = Total(f) - f[x] + g[x]
<1> DEFINE R == {p \in Units(f) : p[1] # x}
           F == {x} \X (1..f[x])
           G == {x} \X (1..g[x])
<1>1. Units(f) = R \cup F /\ R \cap F = {}
  BY DEF Units
<1>2. Units(g) = R \cup G /\ R \cap G = {}
  BY DEF Units
<1>3. IsFiniteSet(R)
  BY UnitsFinite, FS_Subset
<1>4. /\ IsFiniteSet(F) /\ Cardinality(F) = f[x]
      /\ IsFiniteSet(G) /\ Cardinality(G) = g[x]
  BY UnitsOfOne
<1>5. Cardinality({}) = 0 /\ Cardinality(R) \in Nat
  BY <1>3, FS_EmptySet, FS_CardinalityType
<1> HIDE DEF R, F, G
<1>6. Cardinality(Units(f)) = Cardinality(R) + f[x]
  <2>1. Cardinality(R \cup F) = Cardinality(R) + Cardinality(F) - Cardinality(R \cap F)
    BY <1>3, <1>4, FS_Union
  <2>2. Cardinality(R \cap F) = 0 /\ Cardinality(Units(f)) = Cardinality(R \cup F)
    BY <1>1, <1>5, Zenon
  <2> QED
    BY <2>1, <2>2, <1>4, <1>5
<1>7. Cardinality(Units(g)) = Cardinality(R) + g[x]
  <2>1. Cardinality(R \cup G) = Cardinality(R) + Cardinality(G) - Cardinality(R \cap G)
    BY <1>3, <1>4, FS_Union
  <2>2. Cardinality(R \cap G) = 0 /\ Cardinality(Units(g)) = Cardinality(R \cup G)
    BY <1>2, <1>5, Zenon
  <2> QED
    BY <2>1, <2>2, <1>4, <1>5
<1> QED
  BY <1>5, <1>6, <1>7 DEF Total

(* Dropping summands does not increase the sum. *)
LEMMA TotalRestrict ==
    ASSUME NEW D, IsFiniteSet(D), NEW f \in [D -> Nat], NEW E \in SUBSET D,
           NEW e \in [E -> Nat], \A x \in E : e[x] = f[x]
    PROVE  Total(e) <= Total(f)
<1>1. Units(e) \subseteq Units(f)
  BY DEF Units
<1> QED
  BY <1>1, UnitsFinite, FS_Subset DEF Total

(* A sum of zeros is zero. *)
LEMMA TotalZero ==
    ASSUME NEW D, NEW f \in [D -> Nat], \A x \in D : f[x] = 0
    PROVE  Total(f) = 0
<1>1. Units(f) = {}
  BY DEF Units
<1> QED
  BY <1>1, FS_EmptySet DEF Total

(* Moving units from one summand to another leaves the sum as it is. *)
LEMMA TotalMove ==
    ASSUME NEW D, IsFiniteSet(D), NEW f \in [D -> Nat], NEW g \in [D -> Nat],
           NEW x \in D, NEW y \in D, x # y, f[x] + f[y] = g[x] + g[y],
           \A z \in D \ {x, y} : g[z] = f[z]
    PROVE  Total(g) = Total(f)
<1> DEFINE h == [f EXCEPT ![x] = g[x]]
<1>1. h \in [D -> Nat] /\ h[x] = g[x] /\ h[y] = f[y] /\ f[x] \in Nat /\ f[y] \in Nat
      /\ g[x] \in Nat /\ g[y] \in Nat
  OBVIOUS
<1>2. \A z \in D \ {x} : h[z] = f[z]
  OBVIOUS
<1>3. \A z \in D \ {y} : g[z] = h[z]
  OBVIOUS
<1> HIDE DEF h
<1>4. Total(h) = Total(f) - f[x] + g[x]
  BY <1>1, <1>2, TotalUpdate
<1>5. Total(g) = Total(h) - f[y] + g[y]
  BY <1>1, <1>3, TotalUpdate
<1>6. Total(f) \in Nat /\ Total(h) \in Nat /\ Total(g) \in Nat
  BY <1>1, TotalType
<1> QED
  BY <1>1, <1>4, <1>5, <1>6

-----------------------------------------------------------------------------
(* The inductive invariant. *)

Holds(t) == pc[t] \in {"write", "release"}

(* The entry of a key belongs to one writer at a time. *)
LockInv ==
    \A t, u \in Threads : t # u /\ Holds(t) /\ Holds(u) => call[t].key # call[u].key

(* A writer holds exactly the bytes by which its record exceeds the entry. *)
ReservedInv ==
    \A t \in Threads : pc[t] = "write" =>
        inflight[t] = Excess(RecordBytes(call[t].value), EntryBytes(call[t].key))

(* An insert that is about to write still finds no live record. *)
AbsentInv ==
    \A t \in Threads : pc[t] = "write" /\ call[t].op = "insert_if_absent" =>
        ~Live(call[t].key)

(* A replacement that is about to be written differs from what it replaces. *)
ReplaceInv ==
    \A t \in Threads : pc[t] = "write" /\ data[call[t].key] # Vacant =>
        data[call[t].key].value # call[t].value

(* A thread that is not in a call has no bytes in flight. *)
IdleInv == \A t \in Threads : pc[t] = "idle" => inflight[t] = 0

IInv ==
    /\ TypeOK /\ LockInv /\ ReservedInv /\ AbsentInv /\ ReplaceInv /\ IdleInv
    /\ BytesAccounted /\ current_storage_bytes <= MaxStorageBytes

(* Every charge is a natural number, and there are finitely many of them. *)
LEMMA ChargesType ==
    ASSUME TypeOK
    PROVE  /\ IsFiniteSet(Keys \cup Threads)
           /\ Charges \in [Keys \cup Threads -> Nat]
           /\ \A k \in Keys : EntryBytes(k) \in Nat
           /\ \A v \in Values : RecordBytes(v) \in Nat
<1>1. IsFiniteSet(Keys \cup Threads)
  BY StorageAssumption, FS_Union
<1>2. \A v \in Values : RecordBytes(v) \in Nat
  BY StorageAssumption DEF RecordBytes
<1>3. \A k \in Keys : EntryBytes(k) \in Nat
  BY <1>2, StorageAssumption DEF EntryBytes, TypeOK, Entry
<1>4. Charges \in [Keys \cup Threads -> Nat]
  BY <1>3 DEF Charges, TypeOK
<1> QED
  BY <1>1, <1>2, <1>3, <1>4

(* The empty store satisfies the invariant. *)
LEMMA InitIInv == Init => IInv
<1> SUFFICES ASSUME Init PROVE IInv
  OBVIOUS
<1>1. (CHOOSE c \in Call : TRUE) \in Call
  <2>1. PICK k \in Keys, v \in Values : TRUE
    BY StorageAssumption
  <2>2. [op |-> "set", key |-> k, value |-> v] \in Call
    BY DEF Call
  <2> QED
    BY <2>2, Zenon
<1>2. TypeOK
  BY <1>1, StorageAssumption DEF Init, TypeOK, Status
<1>3. \A x \in Keys \cup Threads : Charges[x] = 0
  BY DEF Init, Charges, EntryBytes
<1>4. BytesAccounted
  BY <1>2, <1>3, ChargesType, TotalZero DEF Init, BytesAccounted
<1> QED
  BY <1>2, <1>4, StorageAssumption
  DEF Init, IInv, LockInv, Holds, ReservedInv, AbsentInv, ReplaceInv, IdleInv

-----------------------------------------------------------------------------
(* The two outcomes of the first step of a write. *)

BeginCall(t, op, k, v) ==
    /\ pc[t] = "idle" /\ ~Locked(k)
    /\ call' = [call EXCEPT ![t] = [op |-> op, key |-> k, value |-> v]]
    /\ UNCHANGED <<todo, now>>

Reserved(t, op, k, v) ==
    /\ BeginCall(t, op, k, v)
    /\ Fits(Excess(RecordBytes(v), EntryBytes(k)))
    /\ current_storage_bytes' = current_storage_bytes + Excess(RecordBytes(v), EntryBytes(k))
    /\ inflight' = [inflight EXCEPT ![t] = Excess(RecordBytes(v), EntryBytes(k))]
    /\ pc' = [pc EXCEPT ![t] = "write"]
    /\ op = "insert_if_absent" => ~Live(k)
    /\ data[k] # Vacant => data[k].value # v
    /\ UNCHANGED <<data, status>>

Answered(t, op, k, v) ==
    /\ BeginCall(t, op, k, v)
    /\ \/ /\ data[k] # Vacant /\ data[k].value = v
          /\ data' = [data EXCEPT ![k].inserted_at = now]
          /\ status' = [status EXCEPT ![t] = "AlreadyStored"]
       \/ /\ op = "insert_if_absent" => ~Live(k)
          /\ data[k] # Vacant => data[k].value # v
          /\ UNCHANGED data
          /\ status' = [status EXCEPT ![t] = "CapacityExceeded"]
       \/ /\ op = "insert_if_absent" /\ Live(k) /\ data[k].value # v
          /\ UNCHANGED data
          /\ status' = [status EXCEPT ![t] = "Conflict"]
    /\ pc' = [pc EXCEPT ![t] = "idle"]
    /\ UNCHANGED <<current_storage_bytes, inflight>>

(* set and insert_if_absent either reserve bytes and go on to the write, or
   answer at once: AlreadyStored, CapacityExceeded or Conflict. *)
LEMMA BeginOutcome ==
    ASSUME TypeOK, NEW t \in Threads, NEW k \in Keys, NEW v \in Values,
           set(t, k, v) \/ insert_if_absent(t, k, v)
    PROVE  \E op \in {"set", "insert_if_absent"} : Reserved(t, op, k, v) \/ Answered(t, op, k, v)
<1>1. ASSUME NEW op \in {"set", "insert_if_absent"}, Begin(t, op, k, v), InsertVacant(t, k, v)
      PROVE  Reserved(t, op, k, v) \/ Answered(t, op, k, v)
  <2>1. Excess(RecordBytes(v), EntryBytes(k)) = RecordBytes(v)
    BY <1>1, ChargesType DEF InsertVacant, EntryBytes, Excess
  <2> QED
    BY <1>1, <2>1
    DEF Begin, BeginCall, InsertVacant, reserve_bytes, Reserved, Answered, Return, Live,
        TypeOK, Status
<1>2. ASSUME NEW op \in {"set", "insert_if_absent"}, Begin(t, op, k, v), data[k] # Vacant,
             replace_value(t, k, v), op = "insert_if_absent" => ~Live(k)
      PROVE  Reserved(t, op, k, v) \/ Answered(t, op, k, v)
  <2>1. Excess(ValueLen[v], ValueLen[data[k].value]) = Excess(RecordBytes(v), EntryBytes(k))
    BY <1>2, StorageAssumption DEF EntryBytes, RecordBytes, Excess, TypeOK, Entry
  <2> QED
    BY <1>2, <2>1
    DEF Begin, BeginCall, replace_value, reserve_bytes, Refresh, Reserved, Answered, Return,
        TypeOK, Status
<1>3. ASSUME Begin(t, "insert_if_absent", k, v), Live(k), data[k].value = v, Refresh(t, k)
      PROVE  Answered(t, "insert_if_absent", k, v)
  BY <1>3 DEF Begin, BeginCall, Live, Refresh, Answered, Return, TypeOK, Status
<1>4. ASSUME Begin(t, "insert_if_absent", k, v), Return(t, "Conflict"),
             Live(k), data[k].value # v,
             UNCHANGED <<data, current_storage_bytes, inflight>>
      PROVE  Answered(t, "insert_if_absent", k, v)
  BY <1>4 DEF Begin, BeginCall, Answered, Return, TypeOK, Status
<1>5. CASE set(t, k, v)
  BY <1>1, <1>2, <1>5 DEF set
<1>6. CASE insert_if_absent(t, k, v)
  BY <1>1, <1>2, <1>3, <1>4, <1>6 DEF insert_if_absent, Live
<1> QED
  BY <1>5, <1>6

-----------------------------------------------------------------------------
(* Every step preserves the inductive invariant. *)

(* The same types after a step. *)
LEMMA ChargesTypeNext ==
    ASSUME TypeOK'
    PROVE  /\ Charges' \in [Keys \cup Threads -> Nat]
           /\ \A k \in Keys : EntryBytes(k)' \in Nat
<1>1. \A k \in Keys : EntryBytes(k)' \in Nat
  BY StorageAssumption DEF EntryBytes, RecordBytes, TypeOK, Entry
<1> QED
  BY <1>1 DEF Charges, TypeOK

(* Reserving adds to the counter what the thread now has in flight. *)
LEMMA ReservedIInv ==
    ASSUME IInv, NEW t \in Threads, NEW op \in {"set", "insert_if_absent"},
           NEW k \in Keys, NEW v \in Values, Reserved(t, op, k, v)
    PROVE  IInv'
<1> USE DEF Reserved, BeginCall
<1> DEFINE n == Excess(RecordBytes(v), EntryBytes(k))
<1>1. n \in Nat
  BY ChargesType DEF Excess, IInv
<1>2. TypeOK'
  BY <1>1 DEF TypeOK, IInv, Call
<1>3. LockInv'
  BY DEF IInv, TypeOK, LockInv, Holds, Locked
<1>4. ReservedInv'
  BY DEF IInv, TypeOK, ReservedInv, EntryBytes
<1>5. AbsentInv' /\ ReplaceInv'
  BY DEF IInv, TypeOK, AbsentInv, ReplaceInv, Live, is_expired
<1>6. IdleInv'
  BY DEF IInv, TypeOK, IdleInv
<1>7. BytesAccounted'
  <2>1. /\ Charges[t] = 0 /\ Charges'[t] = n
        /\ \A x \in (Keys \cup Threads) \ {t} : Charges'[x] = Charges[x]
    BY StorageAssumption DEF Charges, EntryBytes, IInv, IdleInv, TypeOK
  <2>2. Total(Charges') = Total(Charges) - Charges[t] + Charges'[t]
    BY <1>2, <2>1, ChargesType, ChargesTypeNext, TotalUpdate DEF IInv
  <2>3. Total(Charges) \in Nat
    BY ChargesType, TotalType DEF IInv
  <2> QED
    BY <1>1, <2>1, <2>2, <2>3 DEF IInv, BytesAccounted
<1>8. current_storage_bytes' <= MaxStorageBytes'
  BY StorageAssumption DEF Fits, IInv, TypeOK
<1> QED
  BY <1>2, <1>3, <1>4, <1>5, <1>6, <1>7, <1>8 DEF IInv

(* A call that answers at once moves no bytes. *)
LEMMA AnsweredIInv ==
    ASSUME IInv, NEW t \in Threads, NEW op \in {"set", "insert_if_absent"},
           NEW k \in Keys, NEW v \in Values, Answered(t, op, k, v)
    PROVE  IInv'
<1> USE DEF Answered, BeginCall
<1>1. TypeOK'
  <2>1. data' \in [Keys -> Entry \cup {Vacant}]
    BY DEF TypeOK, IInv, Entry
  <2>2. status' \in [Threads -> Status]
    BY DEF TypeOK, IInv, Status
  <2> QED
    BY <2>1, <2>2 DEF TypeOK, IInv, Call
<1>2. pc' = pc
  BY DEF IInv, TypeOK
<1>3. LockInv'
  BY <1>2 DEF IInv, TypeOK, LockInv, Holds
<1>4. \A x \in Keys : EntryBytes(x)' = EntryBytes(x)
  BY StorageAssumption DEF EntryBytes, IInv, TypeOK, Entry
<1>5. ReservedInv'
  BY <1>2, <1>4 DEF IInv, TypeOK, ReservedInv, Call
<1>6. AbsentInv' /\ ReplaceInv'
  BY <1>2 DEF IInv, TypeOK, AbsentInv, ReplaceInv, Live, is_expired, Locked, Call
<1>7. IdleInv'
  BY <1>2 DEF IInv, TypeOK, IdleInv
<1>8. Charges' = Charges
  BY <1>4 DEF Charges
<1>9. BytesAccounted'
  BY <1>8 DEF IInv, BytesAccounted
<1> QED
  BY <1>1, <1>3, <1>5, <1>6, <1>7, <1>9 DEF IInv

(* A write moves bytes between the thread and the entry. *)
LEMMA WriteIInv ==
    ASSUME IInv, NEW t \in Threads, Write(t)
    PROVE  IInv'
<1>1. PICK k \in Keys, v \in Values : k = call[t].key /\ v = call[t].value
  BY DEF IInv, TypeOK, Call
<1>2. EntryBytes(k) \in Nat /\ RecordBytes(v) \in Nat
  BY <1>1, ChargesType DEF IInv
<1>3. inflight[t] = Excess(RecordBytes(v), EntryBytes(k)) /\ pc[t] = "write"
  BY <1>1 DEF Write, IInv, ReservedInv
<1>4. inflight' = [inflight EXCEPT ![t] = Excess(EntryBytes(k), RecordBytes(v))]
  BY <1>1 DEF Write
<1>5. data' = [data EXCEPT ![k] = [value |-> v, inserted_at |-> now]]
  BY <1>1 DEF Write
<1>6. /\ pc' \in [Threads -> {"idle", "write", "release", "prune"}]
      /\ \A u \in Threads \ {t} : pc'[u] = pc[u]
      /\ \/ pc'[t] = "release"
         \/ pc'[t] = "idle" /\ Excess(EntryBytes(k), RecordBytes(v)) = 0
  <2>1. \/ pc' = [pc EXCEPT ![t] = "release"]
        \/ pc' = [pc EXCEPT ![t] = "idle"] /\ Excess(EntryBytes(k), RecordBytes(v)) = 0
    BY <1>1 DEF Write, Return
  <2> QED
    BY <2>1 DEF IInv, TypeOK
<1>7. status' \in [Threads -> Status]
  BY DEF Write, Return, IInv, TypeOK, Status
<1>8. UNCHANGED <<current_storage_bytes, call, todo, now>>
  BY DEF Write
<1>9. TypeOK'
  <2>1. Excess(EntryBytes(k), RecordBytes(v)) \in Nat
    BY <1>2 DEF Excess
  <2> QED
    BY <1>4, <1>5, <1>6, <1>7, <1>8, <2>1 DEF IInv, TypeOK, Entry
<1>10. \A u \in Threads \ {t} : Holds(u) => call[u].key # k
  BY <1>1, <1>3 DEF IInv, LockInv, Holds
<1>11. LockInv'
  BY <1>3, <1>6, <1>8 DEF IInv, LockInv, Holds
<1>12. /\ \A x \in Keys \ {k} : EntryBytes(x)' = EntryBytes(x)
       /\ EntryBytes(k)' = RecordBytes(v)
  BY <1>1, <1>5, <1>9, StorageAssumption DEF EntryBytes, IInv, TypeOK, Entry
<1>13. ReservedInv'
  BY <1>4, <1>6, <1>8, <1>10, <1>12 DEF IInv, ReservedInv, Holds, TypeOK, Call
<1>14. AbsentInv' /\ ReplaceInv'
  BY <1>1, <1>5, <1>6, <1>8, <1>10
  DEF IInv, AbsentInv, ReplaceInv, Holds, TypeOK, Call, Live, is_expired
<1>15. IdleInv'
  BY <1>4, <1>6 DEF IInv, IdleInv, TypeOK
<1>16. BytesAccounted'
  <2>1. /\ Charges[k] = EntryBytes(k) /\ Charges[t] = Excess(RecordBytes(v), EntryBytes(k))
        /\ Charges'[k] = RecordBytes(v) /\ Charges'[t] = Excess(EntryBytes(k), RecordBytes(v))
    BY <1>1, <1>3, <1>4, <1>12, StorageAssumption DEF Charges, IInv, TypeOK
  <2>2. \A x \in (Keys \cup Threads) \ {k, t} : Charges'[x] = Charges[x]
    BY <1>4, <1>12 DEF Charges, IInv, TypeOK
  <2>3. Charges[k] + Charges[t] = Charges'[k] + Charges'[t]
    BY <1>2, <2>1 DEF Excess
  <2>4. k # t
    BY <1>1, StorageAssumption
  <2>5. Total(Charges') = Total(Charges)
    BY <1>1, <1>9, <2>2, <2>3, <2>4, ChargesType, ChargesTypeNext, TotalMove DEF IInv
  <2> QED
    BY <1>8, <2>5 DEF IInv, BytesAccounted
<1> QED
  BY <1>8, <1>9, <1>11, <1>13, <1>14, <1>15, <1>16 DEF IInv

(* Releasing takes from the counter what the thread had in flight. *)
LEMMA ReleaseIInv ==
    ASSUME IInv, NEW t \in Threads, release_bytes(t), pc' = [pc EXCEPT ![t] = "idle"],
           status' \in [Threads -> Status], UNCHANGED <<data, call, todo, now>>
    PROVE  IInv'
<1> USE DEF release_bytes
<1>1. Charges[t] = inflight[t] /\ inflight[t] \in Nat
  BY StorageAssumption DEF Charges, IInv, TypeOK
<1>2. inflight[t] <= current_storage_bytes
  BY <1>1, ChargesType, TotalMember DEF IInv, BytesAccounted
<1>3. TypeOK'
  <2>1. current_storage_bytes - inflight[t] \in Nat
    BY <1>1, <1>2 DEF IInv, TypeOK
  <2> QED
    BY <2>1 DEF IInv, TypeOK
<1>4. LockInv' /\ IdleInv' /\ AbsentInv' /\ ReplaceInv'
  BY DEF IInv, TypeOK, LockInv, Holds, IdleInv, AbsentInv, ReplaceInv, Live, is_expired
<1>5. ReservedInv'
  BY DEF IInv, TypeOK, ReservedInv, EntryBytes
<1>6. BytesAccounted'
  <2>1. /\ Charges'[t] = 0
        /\ \A x \in (Keys \cup Threads) \ {t} : Charges'[x] = Charges[x]
    BY StorageAssumption DEF Charges, EntryBytes, IInv, TypeOK
  <2>2. Total(Charges') = Total(Charges) - Charges[t] + Charges'[t]
    BY <1>3, <2>1, ChargesType, ChargesTypeNext, TotalUpdate DEF IInv
  <2>3. Total(Charges) \in Nat
    BY ChargesType, TotalType DEF IInv
  <2> QED
    BY <1>1, <2>1, <2>2, <2>3 DEF IInv, BytesAccounted
<1>7. current_storage_bytes' <= MaxStorageBytes'
  BY <1>1, StorageAssumption DEF IInv, TypeOK
<1> QED
  BY <1>3, <1>4, <1>5, <1>6, <1>7 DEF IInv

(* Pruning an entry moves its bytes to the pruning thread. *)
LEMMA PruneVisitIInv ==
    ASSUME IInv, NEW t \in Threads, NEW k \in Keys, PruneVisit(t, k)
    PROVE  IInv'
<1>1. EntryBytes(k) \in Nat /\ pc[t] = "prune" /\ ~Locked(k)
  BY ChargesType DEF IInv, PruneVisit
<1>2. /\ todo' = [todo EXCEPT ![t] = @ \ {k}]
      /\ UNCHANGED <<current_storage_bytes, pc, call, status, now>>
  BY DEF PruneVisit
<1>3. CASE UNCHANGED <<data, inflight>>
  <2>1. TypeOK' /\ LockInv' /\ IdleInv' /\ AbsentInv' /\ ReplaceInv'
    BY <1>2, <1>3
    DEF IInv, TypeOK, LockInv, Holds, IdleInv, AbsentInv, ReplaceInv, Live, is_expired
  <2>2. ReservedInv' /\ Charges' = Charges
    BY <1>2, <1>3 DEF IInv, ReservedInv, EntryBytes, Charges
  <2> QED
    BY <1>2, <2>1, <2>2 DEF IInv, BytesAccounted
<1>4. CASE /\ data' = [data EXCEPT ![k] = Vacant]
           /\ inflight' = [inflight EXCEPT ![t] = @ + EntryBytes(k)]
  <2>1. TypeOK'
    BY <1>1, <1>2, <1>4 DEF IInv, TypeOK
  <2>2. LockInv' /\ IdleInv'
    BY <1>1, <1>2, <1>4 DEF IInv, TypeOK, LockInv, Holds, IdleInv
  <2>3. AbsentInv' /\ ReplaceInv'
    BY <1>2, <1>4 DEF IInv, TypeOK, AbsentInv, ReplaceInv, Live, is_expired, Call
  <2>4. /\ EntryBytes(k)' = 0
        /\ \A x \in Keys \ {k} : EntryBytes(x)' = EntryBytes(x)
    BY <1>4 DEF IInv, TypeOK, EntryBytes
  <2>5. ReservedInv'
    BY <1>1, <1>2, <1>4, <2>4 DEF IInv, TypeOK, ReservedInv, Locked, Call
  <2>6. /\ Charges[k] = EntryBytes(k) /\ Charges[t] = inflight[t]
        /\ Charges'[k] = 0 /\ Charges'[t] = inflight[t] + EntryBytes(k)
        /\ k # t /\ inflight[t] \in Nat
    BY <1>4, <2>4, StorageAssumption DEF Charges, IInv, TypeOK
  <2>7. \A x \in (Keys \cup Threads) \ {k, t} : Charges'[x] = Charges[x]
    BY <1>4, <2>4 DEF Charges, IInv, TypeOK
  <2>8. Charges[k] + Charges[t] = Charges'[k] + Charges'[t]
    BY <1>1, <2>6
  <2>9. Total(Charges') = Total(Charges)
    BY <2>1, <2>6, <2>7, <2>8, ChargesType, ChargesTypeNext, TotalMove DEF IInv
  <2> QED
    BY <1>2, <2>1, <2>2, <2>3, <2>5, <2>9 DEF IInv, BytesAccounted
<1> QED
  BY <1>3, <1>4 DEF PruneVisit

PruneStep == \E t \in Threads : PruneStart(t)

(* The steps that touch neither the entries nor the bytes. *)
LEMMA QuietIInv ==
    ASSUME IInv, PruneStep \/ Tick \/ UNCHANGED vars
    PROVE  IInv'
<1>1. UNCHANGED <<data, current_storage_bytes, call, inflight, status>>
  BY DEF PruneStep, PruneStart, Tick, vars
<1>2. TypeOK'
  BY StorageAssumption DEF PruneStep, PruneStart, Tick, vars, IInv, TypeOK
<1>3. \A u \in Threads :
         pc'[u] = pc[u] \/ (pc[u] = "idle" /\ pc'[u] = "prune")
  BY DEF PruneStep, PruneStart, Tick, vars, IInv, TypeOK
<1>4. LockInv' /\ IdleInv'
  BY <1>1, <1>3 DEF IInv, LockInv, Holds, IdleInv
<1>5. ReservedInv' /\ Charges' = Charges
  BY <1>1, <1>3 DEF IInv, ReservedInv, EntryBytes, Charges
<1>6. \A k \in Keys : ~Live(k) => ~Live(k)'
  BY <1>1, StorageAssumption
  DEF PruneStep, PruneStart, Tick, vars, Live, is_expired, IInv, TypeOK, Entry
<1>7. AbsentInv' /\ ReplaceInv'
  BY <1>1, <1>3, <1>6 DEF IInv, TypeOK, AbsentInv, ReplaceInv, Call
<1> QED
  BY <1>1, <1>2, <1>4, <1>5, <1>7 DEF IInv, BytesAccounted

(* One case per action of Next. *)
LEMMA NextIInv == IInv /\ [Next]_vars => IInv'
<1> SUFFICES ASSUME IInv, [Next]_vars PROVE IInv'
  OBVIOUS
<1>1. ASSUME NEW t \in Threads, NEW k \in Keys, NEW v \in Values,
             set(t, k, v) \/ insert_if_absent(t, k, v)
      PROVE  IInv'
  BY <1>1, BeginOutcome, ReservedIInv, AnsweredIInv DEF IInv
<1>2. ASSUME NEW t \in Threads, Write(t) PROVE IInv'
  BY <1>2, WriteIInv
<1>3. ASSUME NEW t \in Threads, ReleaseShrunk(t) PROVE IInv'
  <2>1. status' \in [Threads -> Status] /\ pc' = [pc EXCEPT ![t] = "idle"]
    BY <1>3 DEF ReleaseShrunk, Return, IInv, TypeOK, Status
  <2> QED
    BY <1>3, <2>1, ReleaseIInv DEF ReleaseShrunk
<1>4. ASSUME NEW t \in Threads, PruneEnd(t) PROVE IInv'
  <2>1. status' \in [Threads -> Status]
    BY <1>4 DEF PruneEnd, IInv, TypeOK
  <2> QED
    BY <1>4, <2>1, ReleaseIInv DEF PruneEnd
<1>5. ASSUME NEW t \in Threads, NEW k \in Keys, PruneVisit(t, k) PROVE IInv'
  BY <1>5, PruneVisitIInv
<1>6. ASSUME PruneStep \/ Tick \/ UNCHANGED vars PROVE IInv'
  BY <1>6, QuietIInv
<1> QED
  BY <1>1, <1>2, <1>3, <1>4, <1>5, <1>6 DEF Next, PruneStep

(* The invariant holds in every reachable state of the store. *)
THEOREM Invariance == Spec => []IInv
BY InitIInv, NextIInv, PTL DEF Spec

-----------------------------------------------------------------------------
(* The store is always well-typed; in particular the subtraction in
   release_bytes never takes the counter below zero. *)
THEOREM TypeCorrect == Spec => []TypeOK
<1>1. IInv => TypeOK
  BY DEF IInv
<1> QED
  BY <1>1, Invariance, PTL

(* current_storage_bytes is the sum of the entries and the bytes in flight,
   for every number of threads inside set, insert_if_absent and prune_expired. *)
THEOREM BytesAreAccounted == Spec => []BytesAccounted
<1>1. IInv => BytesAccounted
  BY DEF IInv
<1> QED
  BY <1>1, Invariance, PTL

(* What the store holds never exceeds max_storage_bytes, and no thread has
   more to give back than the counter shows. *)
THEOREM BudgetHolds == Spec => []WithinBudget
<1>1. IInv => WithinBudget
  <2> SUFFICES ASSUME IInv PROVE WithinBudget
    OBVIOUS
  <2>1. Total([k \in Keys |-> EntryBytes(k)]) <= Total(Charges)
    BY ChargesType, TotalRestrict DEF IInv, Charges
  <2>2. ASSUME NEW t \in Threads PROVE inflight[t] <= Total(Charges)
    <3>1. Charges[t] = inflight[t]
      BY StorageAssumption DEF Charges
    <3> QED
      BY <3>1, ChargesType, TotalMember DEF IInv
  <2> QED
    BY <2>1, <2>2 DEF WithinBudget, IInv, BytesAccounted
<1> QED
  BY <1>1, Invariance, PTL

(* A record that can be read is replaced by a `set` only: insert_if_absent,
   the write behind every STORE, never does, at any distance between its
   check and its write. *)
THEOREM FirstWriter == Spec => [][ReplacedBySet]_vars
<1> DEFINE A(k) == Live(k) /\ data'[k] # Vacant /\ data'[k].value # data[k].value
           B(k) == \E t \in Threads : pc[t] = "write" /\ call[t].key = k /\ call[t].op = "set"
<1>1. ASSUME IInv, Next, NEW k \in Keys, A(k) PROVE B(k)
  <2>1. ASSUME NEW t \in Threads, NEW j \in Keys, NEW v \in Values,
               set(t, j, v) \/ insert_if_absent(t, j, v)
        PROVE  FALSE
    <3>1. data' = data \/ data' = [data EXCEPT ![j].inserted_at = now]
      BY <2>1, <1>1, BeginOutcome DEF IInv, Reserved, Answered
    <3> QED
      BY <3>1, <1>1 DEF IInv, TypeOK, Entry, Live
  <2>2. ASSUME NEW t \in Threads, Write(t) PROVE B(k)
    BY <2>2, <1>1 DEF Write, IInv, TypeOK, AbsentInv, Call
  <2>3. ASSUME NEW t \in Threads, NEW j \in Keys, PruneVisit(t, j) PROVE FALSE
    BY <2>3, <1>1 DEF PruneVisit, IInv, TypeOK
  <2> QED
    BY <2>1, <2>2, <2>3, <1>1 DEF Next, ReleaseShrunk, PruneStart, PruneEnd, Tick
<1>2. IInv /\ [Next]_vars => [ReplacedBySet]_vars
  BY <1>1 DEF ReplacedBySet
<1> QED
  BY <1>2, Invariance, PTL DEF Spec

(* An entry goes only when it is older than the time to live. *)
THEOREM NoEarlyEviction == Spec => [][RemovedByAge]_vars
<1> DEFINE A(k) == data[k] # Vacant /\ data'[k] = Vacant
           B(k) == Ttl # -1 /\ now > data[k].inserted_at + Ttl
<1>1. ASSUME IInv, Next, NEW k \in Keys, A(k) PROVE B(k)
  <2>1. ASSUME NEW t \in Threads, NEW j \in Keys, NEW v \in Values,
               set(t, j, v) \/ insert_if_absent(t, j, v)
        PROVE  FALSE
    <3>1. data' = data \/ (data[j] # Vacant /\ data' = [data EXCEPT ![j].inserted_at = now])
      BY <2>1, <1>1, BeginOutcome DEF IInv, Reserved, Answered
    <3> QED
      BY <3>1, <1>1, StorageAssumption DEF IInv, TypeOK, Entry
  <2>2. ASSUME NEW t \in Threads, Write(t) PROVE FALSE
    BY <2>2, <1>1, StorageAssumption DEF Write, IInv, TypeOK, Call
  <2>3. ASSUME NEW t \in Threads, NEW j \in Keys, PruneVisit(t, j) PROVE B(k)
    BY <2>3, <1>1, StorageAssumption DEF PruneVisit, IInv, TypeOK, Entry, is_expired
  <2> QED
    BY <2>1, <2>2, <2>3, <1>1 DEF Next, ReleaseShrunk, PruneStart, PruneEnd, Tick
<1>2. IInv /\ [Next]_vars => [RemovedByAge]_vars
  BY <1>1 DEF RemovedByAge
<1> QED
  BY <1>2, Invariance, PTL DEF Spec

(* The books are right in every reachable state, for any tasks and keys. *)
THEOREM BooksBalance == Spec => []Accounting
<1>1. TypeOK /\ BytesAccounted /\ WithinBudget => Accounting
  BY DEF Accounting
<1> QED
  BY <1>1, TypeCorrect, BytesAreAccounted, BudgetHolds, PTL

(* No step of the store replaces or evicts a record that is active. *)
THEOREM ActiveRecordsKept == Spec => RecordsKept
<1> QED
  BY FirstWriter, NoEarlyEviction, PTL DEF RecordsKept

-----------------------------------------------------------------------------
(* The refinement of AtomicStore: the expressions that stand for its two
   variables. *)

record == [k \in Keys |-> IF Live(k) THEN data[k].value ELSE Vacant]
answer == [t \in Threads |-> Outcome(t)]

(* A record that was just written can be read, whatever the time to live. *)
LEMMA FreshRecord ==
    ASSUME TypeOK, NEW k \in Keys, NEW v \in Values, now' = now,
           data' = [data EXCEPT ![k] = [value |-> v, inserted_at |-> now]]
    PROVE  record' = [record EXCEPT ![k] = v]
<1>1. /\ data'[k] = [value |-> v, inserted_at |-> now]
      /\ \A j \in Keys \ {k} : data'[j] = data[j]
  BY DEF TypeOK
<1>2. [value |-> v, inserted_at |-> now] \in Entry
  BY DEF TypeOK, Entry
<1>3. data'[k] # Vacant /\ ~is_expired(data[k])'
  BY <1>1, <1>2, StorageAssumption DEF TypeOK, Entry, is_expired
<1>4. \A j \in Keys \ {k} : Live(j)' <=> Live(j)
  BY <1>1 DEF Live, is_expired
<1>5. record'[k] = v
  BY <1>1, <1>3 DEF record, Live
<1>6. \A j \in Keys \ {k} : record'[j] = record[j]
  BY <1>1, <1>4 DEF record
<1>7. DOMAIN record = Keys /\ record' = [j \in Keys |-> record'[j]]
  BY DEF record
<1> QED
  BY <1>5, <1>6, <1>7 DEF record

(* The reservation starts the call; a call that answers at once is the
   abstract operation. *)
LEMMA BeginAtomic ==
    ASSUME IInv, NEW t \in Threads, NEW op \in {"set", "insert_if_absent"},
           NEW k \in Keys, NEW v \in Values, Reserved(t, op, k, v) \/ Answered(t, op, k, v)
    PROVE  Atomic!Next
<1> USE DEF BeginCall
<1>1. CASE Reserved(t, op, k, v)
  <2>1. UNCHANGED record
    BY <1>1 DEF Reserved, record, Live, is_expired
  <2>2. answer' = [answer EXCEPT ![t] = Vacant]
    BY <1>1 DEF Reserved, IInv, TypeOK, answer, Outcome
  <2>3. Atomic!Start(t)
    BY <2>1, <2>2 DEF Atomic!Start, record, answer
  <2> QED
    BY <2>3 DEF Atomic!Next
<1>2. CASE Answered(t, op, k, v)
  <2>1. ASSUME NEW s \in {"AlreadyStored", "CapacityExceeded", "Conflict"},
               status' = [status EXCEPT ![t] = s]
        PROVE  answer' = [answer EXCEPT ![t] = [op |-> op, key |-> k, value |-> v, status |-> s]]
    BY <1>2, <2>1 DEF Answered, IInv, TypeOK, answer, Outcome
  <2>2. UNCHANGED data => UNCHANGED record
    BY <1>2 DEF Answered, record, Live, is_expired
  <2>3. CASE /\ data[k] # Vacant /\ data[k].value = v
             /\ data' = [data EXCEPT ![k].inserted_at = now]
             /\ status' = [status EXCEPT ![t] = "AlreadyStored"]
    <3>1. record' = [record EXCEPT ![k] = v]
      <4>1. data' = [data EXCEPT ![k] = [value |-> v, inserted_at |-> now]]
        <5>1. data[k] \in Entry
          BY <2>3 DEF IInv, TypeOK
        <5>2. [data[k] EXCEPT !.inserted_at = now] = [value |-> v, inserted_at |-> now]
          BY <2>3, <5>1 DEF Entry
        <5> QED
          BY <2>3, <5>2
      <4> QED
        BY <1>2, <4>1, FreshRecord DEF Answered, IInv
    <3>2. record[k] \in {v, Vacant}
      BY <2>3 DEF record
    <3>3. Atomic!set(t, k, v) \/ Atomic!insert_if_absent(t, k, v)
      BY <2>1, <2>3, <3>1, <3>2
      DEF Atomic!set, Atomic!insert_if_absent, Atomic!Put, Atomic!Answer, record, answer
    <3> QED
      BY <3>3 DEF Atomic!Next
  <2>4. CASE /\ op = "insert_if_absent" => ~Live(k)
             /\ data[k] # Vacant => data[k].value # v
             /\ UNCHANGED data
             /\ status' = [status EXCEPT ![t] = "CapacityExceeded"]
    <3>1. record[k] # v /\ (op = "insert_if_absent" => record[k] = Vacant)
      BY <2>4, StorageAssumption DEF record, Live
    <3>2. Atomic!set(t, k, v) \/ Atomic!insert_if_absent(t, k, v)
      BY <2>1, <2>2, <2>4, <3>1
      DEF Atomic!set, Atomic!insert_if_absent, Atomic!Answer, record, answer
    <3> QED
      BY <3>2 DEF Atomic!Next
  <2>5. CASE /\ op = "insert_if_absent" /\ Live(k) /\ data[k].value # v
             /\ UNCHANGED data
             /\ status' = [status EXCEPT ![t] = "Conflict"]
    <3>1. record[k] \notin {v, Vacant}
      BY <2>5, StorageAssumption DEF record, Live, IInv, TypeOK, Entry
    <3>2. Atomic!insert_if_absent(t, k, v)
      BY <2>1, <2>2, <2>5, <3>1 DEF Atomic!insert_if_absent, Atomic!Answer, record, answer
    <3> QED
      BY <3>2 DEF Atomic!Next
  <2> QED
    BY <1>2, <2>3, <2>4, <2>5 DEF Answered
<1> QED
  BY <1>1, <1>2

(* A write takes effect when the entry gets its value. *)
LEMMA WriteAtomic ==
    ASSUME IInv, NEW t \in Threads, Write(t)
    PROVE  Atomic!Next
<1>1. PICK k \in Keys, v \in Values : k = call[t].key /\ v = call[t].value
  BY DEF IInv, TypeOK, Call
<1>2. data' = [data EXCEPT ![k] = [value |-> v, inserted_at |-> now]] /\ now' = now
  BY <1>1 DEF Write
<1>3. record' = [record EXCEPT ![k] = v]
  BY <1>2, FreshRecord DEF IInv
<1>4. PICK op \in {"set", "insert_if_absent"} : op = call[t].op
  BY DEF IInv, TypeOK, Call
<1>5. answer' = [answer EXCEPT ![t] = [op |-> op, key |-> k, value |-> v, status |-> "Stored"]]
  <2>1. \/ pc' = [pc EXCEPT ![t] = "release"] /\ UNCHANGED status
        \/ /\ pc' = [pc EXCEPT ![t] = "idle"]
           /\ status' = [status EXCEPT ![t] = "Stored"]
    BY DEF Write, Return
  <2>2. call' = call
    BY DEF Write
  <2> QED
    BY <1>1, <1>4, <2>1, <2>2 DEF IInv, TypeOK, answer, Outcome
<1>6. record[k] # v
  BY <1>1, StorageAssumption DEF Write, IInv, ReplaceInv, record, Live
<1>7. op = "insert_if_absent" => record[k] = Vacant
  BY <1>1, <1>4 DEF Write, IInv, AbsentInv, record
<1>8. Atomic!set(t, k, v) \/ Atomic!insert_if_absent(t, k, v)
  BY <1>3, <1>5, <1>6, <1>7
  DEF Atomic!set, Atomic!insert_if_absent, Atomic!Put, Atomic!Answer, record, answer
<1> QED
  BY <1>8 DEF Atomic!Next

(* Every step of the store is a step of AtomicStore or invisible to it: the
   entry protocol of DashMap and the separate byte counter together give
   atomic writes. *)
THEOREM StoreIsAtomic == Spec => IsAtomic
<1>1. Init => Atomic!Init
  BY DEF Init, Atomic!Init, Live, Outcome
<1>2. ASSUME IInv, [Next]_vars
      PROVE  Atomic!Next \/ UNCHANGED <<record, answer>>
  <2>1. ASSUME NEW t \in Threads, NEW k \in Keys, NEW v \in Values,
               set(t, k, v) \/ insert_if_absent(t, k, v)
        PROVE  Atomic!Next \/ UNCHANGED <<record, answer>>
    BY <1>2, <2>1, BeginOutcome, BeginAtomic DEF IInv
  <2>2. ASSUME NEW t \in Threads, Write(t) PROVE Atomic!Next
    BY <1>2, <2>2, WriteAtomic
  <2>3. ASSUME NEW t \in Threads, ReleaseShrunk(t) PROVE UNCHANGED <<record, answer>>
    BY <1>2, <2>3
    DEF ReleaseShrunk, Return, record, answer, Outcome, Live, is_expired, IInv, TypeOK
  <2>4. ASSUME NEW t \in Threads, PruneStart(t) \/ PruneEnd(t)
        PROVE  UNCHANGED <<record, answer>>
    BY <1>2, <2>4
    DEF PruneStart, PruneEnd, record, answer, Outcome, Live, is_expired, IInv, TypeOK
  <2>5. ASSUME NEW t \in Threads, NEW k \in Keys, PruneVisit(t, k)
        PROVE  UNCHANGED <<record, answer>>
    BY <1>2, <2>5 DEF PruneVisit, record, answer, Outcome, Live, is_expired, IInv, TypeOK
  <2>6. ASSUME Tick PROVE Atomic!Next
    <3> PICK S \in SUBSET Keys :
             S = {k \in Keys : Live(k) /\ now + 1 - data[k].inserted_at > Ttl /\ Ttl # -1}
      OBVIOUS
    <3>1. record' = [k \in Keys |-> IF k \in S THEN Vacant ELSE record[k]]
      BY <1>2, <2>6, StorageAssumption
      DEF Tick, record, Live, is_expired, IInv, TypeOK, Entry
    <3>2. answer' = answer
      BY <2>6 DEF Tick, answer, Outcome
    <3>3. Atomic!Expire(S)
      BY <3>1, <3>2 DEF Atomic!Expire, record, answer
    <3> QED
      BY <3>3 DEF Atomic!Next
  <2>7. ASSUME UNCHANGED vars PROVE UNCHANGED <<record, answer>>
    BY <2>7 DEF vars, record, answer, Outcome, Live, is_expired
  <2> QED
    BY <1>2, <2>1, <2>2, <2>3, <2>4, <2>5, <2>6, <2>7 DEF Next
<1>3. IInv /\ [Next]_vars => [Atomic!Next]_(Atomic!vars)
  BY <1>2 DEF Atomic!vars, record, answer
<1> QED
  BY <1>1, <1>3, Invariance, PTL DEF Spec, IsAtomic, Atomic!Spec
=============================================================================
