--------------------------- MODULE PublishProofs ---------------------------
(***************************************************************************)
(* For every number of nodes, of replicas and of concurrent publications:  *)
(* what a publication reports, its replicas hold.                          *)
(***************************************************************************)
EXTENDS Publish, FiniteSetTheorems, TLAPS

Acks == {"Stored", "AlreadyStored"}
Answers == Acks \cup {"Conflict", "CapacityExceeded", "pending", "unavailable"}
Phases == {"idle", "lookup", "requests", "done"}
Outcomes == {"none", "ExistingRecord", "ReplicaConflict", "NoResponsibleNodes", "Complete",
             "Degraded", "CapacityExceeded", "Unavailable"}

(* What an outcome promises of the answers. *)
Truthful(o, result) ==
    /\ result = "Complete" => (\A n \in Replicas(o) : answer[o][n] \in Acks) /\ (N > 1 => remote[o] # {})
    /\ result = "Degraded" => \E n \in Replicas(o) : answer[o][n] \in Acks

Reported(o) == outcome[o] \in {"Complete", "Degraded"}

(* What makes it inductive: an acknowledgement stays true, since no STORE
   replaces a record, and a report says no more than what was acknowledged. *)
HInv ==
    /\ record \in [Nodes -> Values \cup {Absent}]
    /\ phase \in [Ops -> Phases] /\ outcome \in [Ops -> Outcomes]
    /\ local \in [Ops -> BOOLEAN] /\ remote \in [Ops -> SUBSET Nodes]
    /\ request \in [Ops -> [Nodes -> SUBSET {"Store"}]]
    /\ answer \in [Ops -> [Nodes -> Answers]]
    /\ \A o \in Ops, n \in Nodes : answer[o][n] \in Acks => record[n] = value(o)
    /\ \A o \in Ops : Truthful(o, outcome[o]) /\ (Reported(o) => phase[o] = "done")

(* The operations that publish are the only ones. *)
OnlySets == \A o \in Ops : Op[o].kind = "set"

(* classify_set_report says Complete only of a report in which every replica
   acknowledged, and never of a server that reached nobody; and Degraded only
   of one in which some replica did. *)
LEMMA TruthfulReport ==
    ASSUME NEW o \in Ops, HInv
    PROVE  Truthful(o, classify_set_report(o))
<1> DEFINE R == Replicas(o)
           A == {n \in R : answer[o][n] \in Acks}
           C == {n \in R : answer[o][n] \in {"Conflict"}}
<1>1. R \subseteq Nodes
  BY PublishAssumption DEF HInv, Replicas, self
<1>2. IsFiniteSet(Nodes)
  BY PublishAssumption, FS_Interval DEF Nodes
<1>3. IsFiniteSet(R)
  BY <1>1, <1>2, FS_Subset
<1>4. Cardinality(R) \in Nat /\ A \subseteq R /\ C \subseteq R
  BY <1>3, FS_CardinalityType
<1>5. Cardinality(A) \in Nat /\ Cardinality(A) <= Cardinality(R)
      /\ (Cardinality(A) = Cardinality(R) => A = R)
  BY <1>3, <1>4, FS_Subset, FS_CardinalityType
<1>6. Cardinality(C) \in Nat
  BY <1>3, <1>4, FS_Subset, FS_CardinalityType
<1>7. acknowledged(o) = Cardinality(A) /\ Counted(o, {"Conflict"}) = Cardinality(C)
  BY DEF acknowledged, Counted, Acks
<1>8. expected_replicas(o) \in Nat
  BY <1>4 DEF expected_replicas, cut_off
<1>9. CASE classify_set_report(o) = "Complete"
  <2>1. acknowledged(o) = expected_replicas(o)
    BY <1>6, <1>7, <1>8, <1>9 DEF classify_set_report
  <2>2. ~cut_off(o) /\ A = R
    BY <1>4, <1>5, <1>7, <2>1 DEF expected_replicas
  <2> QED
    BY <1>9, <2>2 DEF cut_off, Truthful
<1>10. CASE classify_set_report(o) = "Degraded"
  <2>1. acknowledged(o) > 0
    BY <1>6, <1>7, <1>8, <1>10 DEF classify_set_report
  <2>2. A # {}
    BY <1>7, <2>1, FS_EmptySet
  <2> QED
    BY <1>10, <2>2 DEF Truthful
<1> QED
  BY <1>9, <1>10 DEF Truthful

(* insert_if_absent keeps the record a node has, and its acknowledgement is
   true. *)
LEMMA InsertResult ==
    ASSUME HInv, NEW n \in Nodes, NEW v \in Values
    PROVE  LET w == insert_if_absent(n, v)
           IN  /\ w.record \in Values \cup {Absent} /\ w.answer \in Answers
               /\ record[n] # Absent => w.record = record[n]
               /\ w.answer \in Acks => w.record = v
<1>1. record[n] \in Values \cup {Absent}
  BY DEF HInv
<1>2. CASE record[n] = v
  BY <1>1, <1>2, PublishAssumption DEF insert_if_absent, Acks, Answers
<1>3. CASE record[n] # v
  BY <1>1, <1>3, PublishAssumption DEF insert_if_absent, Acks, Answers
<1> QED
  BY <1>2, <1>3

(* The same of everything a STORE may do at a replica. *)
LEMMA StoreResult ==
    ASSUME HInv, NEW n \in Nodes, NEW v \in Values, NEW r \in Handling(n, "Store", v)
    PROVE  /\ r.record \in Values \cup {Absent} /\ r.answer \in Answers
           /\ record[n] # Absent => r.record = record[n]
           /\ r.answer \in Acks => r.record = v
<1>1. r = insert_if_absent(n, v) \/ (record[n] = Absent /\ r = [answer |-> "Conflict", record |-> Absent])
  BY DEF Handling
<1> QED
  BY <1>1, InsertResult DEF Acks, Answers

(* Writing a node's record so that one it has stays, and setting its answer to
   an operation that has not ended, keeps the invariant's record part. *)
LEMMA WriteKeeps ==
    ASSUME HInv, NEW o \in Ops, NEW n \in Nodes, NEW rec \in Values \cup {Absent}, NEW ans \in Answers,
           record[n] # Absent => rec = record[n], ans \in Acks => rec = value(o),
           record' = [record EXCEPT ![n] = rec],
           answer' = [answer EXCEPT ![o][n] = ans] \/ answer' = answer
    PROVE  /\ record' \in [Nodes -> Values \cup {Absent}]
           /\ answer' \in [Ops -> [Nodes -> Answers]]
           /\ \A p \in Ops, m \in Nodes : answer'[p][m] \in Acks => record'[m] = value(p)
           /\ \A p \in Ops \ {o} : answer'[p] = answer[p]
<1>1. record' \in [Nodes -> Values \cup {Absent}] /\ answer' \in [Ops -> [Nodes -> Answers]]
  <2>1. record' \in [Nodes -> Values \cup {Absent}]
    BY DEF HInv
  <2>2. CASE answer' = answer
    BY <2>1, <2>2 DEF HInv
  <2>3. CASE answer' = [answer EXCEPT ![o][n] = ans]
    <3>1. [answer[o] EXCEPT ![n] = ans] \in [Nodes -> Answers]
      BY DEF HInv
    <3> QED
      BY <2>1, <2>3, <3>1 DEF HInv
  <2> QED
    BY <2>2, <2>3
<1>2. ASSUME NEW p \in Ops, NEW m \in Nodes, answer'[p][m] \in Acks PROVE record'[m] = value(p)
  <2>1. value(p) \in Values
    BY PublishAssumption DEF value
  <2>2. CASE answer'[p][m] = answer[p][m]
    BY <1>2, <2>1, <2>2, PublishAssumption DEF HInv
  <2>3. CASE answer'[p][m] # answer[p][m]
    <3>1. p = o /\ m = n /\ answer'[p][m] = ans
      BY <2>3 DEF HInv
    <3> QED
      BY <1>2, <3>1 DEF HInv
  <2> QED
    BY <2>2, <2>3
<1>3. \A p \in Ops \ {o} : answer'[p] = answer[p]
  BY DEF HInv
<1> QED
  BY <1>1, <1>2, <1>3

(* Initially. *)
LEMMA HeldInit == Init => HInv
  BY PublishAssumption DEF Init, HInv, Acks, Answers, Phases, Outcomes, Truthful, Reported

(* An operation of which the replicas are chosen and the local copy stored. *)
LEMMA SendKeeps ==
    ASSUME HInv, OnlySets, NEW o \in Ops, SendRequests(o)
    PROVE  HInv'
<1>1. PICK found \in SUBSET (Nodes \ {self(o)}) :
        LET chosen == select_responsible_nodes(o, found)
            others == chosen \ {self(o)}
        IN  /\ local' = [local EXCEPT ![o] = self(o) \in chosen]
            /\ remote' = [remote EXCEPT ![o] = others]
            /\ request' = [request EXCEPT ![o] = [n \in Nodes |-> IF n \in others THEN {"Store"} ELSE {}]]
            /\ IF self(o) \in chosen
               THEN LET w == insert_if_absent(self(o), value(o))
                    IN  /\ record' = [record EXCEPT ![self(o)] = w.record]
                        /\ answer' = [answer EXCEPT ![o][self(o)] = w.answer]
               ELSE UNCHANGED <<record, answer>>
  BY DEF SendRequests, OnlySets
<1> DEFINE chosen == select_responsible_nodes(o, found)
           w == insert_if_absent(self(o), value(o))
<1>2. self(o) \in Nodes /\ value(o) \in Values
  BY PublishAssumption DEF self, value
<1>3. chosen \subseteq Nodes
  BY <1>2 DEF select_responsible_nodes, Closest
<1>4. phase[o] = "lookup" /\ phase' = [phase EXCEPT ![o] = "requests"] /\ outcome' = outcome
  BY DEF SendRequests
<1>5. /\ record' \in [Nodes -> Values \cup {Absent}]
      /\ answer' \in [Ops -> [Nodes -> Answers]]
      /\ \A p \in Ops, m \in Nodes : answer'[p][m] \in Acks => record'[m] = value(p)
      /\ \A p \in Ops \ {o} : answer'[p] = answer[p]
  <2>1. CASE self(o) \in chosen
    <3>1. record' = [record EXCEPT ![self(o)] = w.record] /\ answer' = [answer EXCEPT ![o][self(o)] = w.answer]
      BY <1>1, <2>1
    <3>2. /\ w.record \in Values \cup {Absent} /\ w.answer \in Answers
          /\ record[self(o)] # Absent => w.record = record[self(o)]
          /\ w.answer \in Acks => w.record = value(o)
      BY <1>2, InsertResult
    <3> HIDE DEF w
    <3> QED
      BY <1>2, <3>1, <3>2, WriteKeeps
  <2>2. CASE self(o) \notin chosen
    BY <1>1, <2>2 DEF HInv
  <2> QED
    BY <2>1, <2>2
<1> HIDE DEF chosen, w
<1>6. /\ local' \in [Ops -> BOOLEAN] /\ remote' \in [Ops -> SUBSET Nodes]
      /\ \A p \in Ops \ {o} : local'[p] = local[p] /\ remote'[p] = remote[p]
  BY <1>1, <1>3 DEF HInv, chosen
<1>7. request' \in [Ops -> [Nodes -> SUBSET {"Store"}]]
  BY <1>1 DEF HInv
<1>8. phase' \in [Ops -> Phases] /\ \A p \in Ops \ {o} : phase'[p] = phase[p]
  BY <1>4 DEF HInv, Phases
<1>9. ASSUME NEW p \in Ops, Reported(p)'
      PROVE  phase'[p] = "done" /\ Truthful(p, outcome[p])'
  <2>1. p # o
    BY <1>4, <1>9 DEF HInv, Reported
  <2>2. Replicas(p)' = Replicas(p)
    BY <1>6, <2>1 DEF Replicas
  <2>3. UNCHANGED <<outcome[p], phase[p], answer[p], remote[p]>>
    BY <1>4, <1>5, <1>6, <1>8, <2>1
  <2>4. Truthful(p, outcome[p]) /\ phase[p] = "done"
    BY <1>9, <2>3 DEF HInv, Reported
  <2> QED
    BY <2>2, <2>3, <2>4 DEF Truthful
<1> QED
  BY <1>4, <1>5, <1>6, <1>7, <1>8, <1>9 DEF HInv, Reported, Truthful

(* A replica that handles a copy of the STORE. *)
LEMMA ReplicaKeeps ==
    ASSUME HInv, NEW o \in Ops, NEW n \in Nodes, Replica(o, n)
    PROVE  HInv'
<1>1. request[o][n] \subseteq {"Store"} /\ value(o) \in Values
  BY PublishAssumption DEF HInv, value
<1>2. PICK r \in Handling(n, "Store", value(o)) :
        /\ record' = [record EXCEPT ![n] = r.record]
        /\ request' = request
        /\ (answer' = answer \/ (phase[o] = "requests" /\ answer' = [answer EXCEPT ![o][n] = r.answer]))
  <2>1. \A kind \in request[o][n] : kind = "Store"
    BY <1>1
  <2>2. PICK heard \in BOOLEAN : \E r \in Handling(n, "Store", value(o)) :
          LET awaited == phase[o] = "requests" /\ answer[o][n] = "pending"
          IN  /\ record' = [record EXCEPT ![n] = r.record]
              /\ IF ~heard \/ ~awaited THEN UNCHANGED <<request, answer>>
                 ELSE answer' = [answer EXCEPT ![o][n] = r.answer] /\ UNCHANGED request
    BY <2>1 DEF Replica
  <2> QED
    BY <2>2
<1>3. UNCHANGED <<phase, local, remote, outcome>>
  BY DEF Replica
<1>4. /\ r.record \in Values \cup {Absent} /\ r.answer \in Answers
      /\ record[n] # Absent => r.record = record[n]
      /\ r.answer \in Acks => r.record = value(o)
  BY <1>1, StoreResult
<1>5. /\ record' \in [Nodes -> Values \cup {Absent}]
      /\ answer' \in [Ops -> [Nodes -> Answers]]
      /\ \A p \in Ops, m \in Nodes : answer'[p][m] \in Acks => record'[m] = value(p)
      /\ \A p \in Ops \ {o} : answer'[p] = answer[p]
  BY <1>2, <1>4, WriteKeeps
<1>6. ASSUME NEW p \in Ops, Reported(p) PROVE answer'[p] = answer[p]
  BY <1>2, <1>5, <1>6 DEF HInv
<1>7. \A p \in Ops : Replicas(p)' = Replicas(p)
  BY <1>3 DEF Replicas
<1>8. \A p \in Ops : Truthful(p, outcome[p])' /\ (Reported(p)' => phase'[p] = "done")
  BY <1>3, <1>6, <1>7 DEF HInv, Reported, Truthful
<1> QED
  BY <1>2, <1>3, <1>5, <1>8 DEF HInv

(* A replica that does not answer. *)
LEMMA TimeoutKeeps ==
    ASSUME HInv, NEW o \in Ops, NEW n \in Nodes, Timeout(o, n)
    PROVE  HInv'
<1>1. /\ phase[o] = "requests" /\ answer' = [answer EXCEPT ![o][n] = "unavailable"]
      /\ UNCHANGED <<record, phase, local, remote, request, outcome>>
  BY DEF Timeout
<1>2. answer' \in [Ops -> [Nodes -> Answers]] /\ \A p \in Ops \ {o} : answer'[p] = answer[p]
  BY <1>1 DEF HInv, Answers
<1>3. \A p \in Ops, m \in Nodes : answer'[p][m] \in Acks => answer[p][m] \in Acks
  BY <1>1 DEF HInv, Acks
<1>4. \A p \in Ops : Replicas(p)' = Replicas(p) /\ (Reported(p) => answer'[p] = answer[p])
  BY <1>1, <1>2 DEF Replicas, HInv, Reported
<1>5. \A p \in Ops : Truthful(p, outcome[p])' /\ (Reported(p)' => phase'[p] = "done")
  BY <1>1, <1>4 DEF HInv, Reported, Truthful
<1> QED
  BY <1>1, <1>2, <1>3, <1>5 DEF HInv

(* An operation that ends early, or with its report. *)
LEMMA ConcludeKeeps ==
    ASSUME HInv, NEW o \in Ops, NEW result \in Outcomes, Conclude(o, result),
           Truthful(o, result),
           UNCHANGED <<record, local, remote, request, answer>>
    PROVE  HInv'
<1>1. /\ phase' = [phase EXCEPT ![o] = "done"] /\ outcome' = [outcome EXCEPT ![o] = result]
  BY DEF Conclude
<1>2. phase' \in [Ops -> Phases] /\ outcome' \in [Ops -> Outcomes]
  BY <1>1 DEF HInv, Phases
<1>3. \A p \in Ops : Replicas(p)' = Replicas(p)
  BY DEF Replicas
<1>4. ASSUME NEW p \in Ops
      PROVE  Truthful(p, outcome[p])' /\ (Reported(p)' => phase'[p] = "done")
  <2>1. CASE p = o
    BY <1>1, <1>3, <2>1 DEF HInv, Truthful
  <2>2. CASE p # o
    BY <1>1, <1>3, <2>2 DEF HInv, Truthful, Reported
  <2> QED
    BY <2>1, <2>2
<1> QED
  BY <1>2, <1>4 DEF HInv

(* The invariant of concurrent publications. *)
LEMMA HeldInvariance == ASSUME OnlySets PROVE Spec => []HInv
<1>1. Init => HInv
  BY HeldInit
<1>2. ASSUME HInv, [Next]_vars PROVE HInv'
  <2>1. ASSUME NEW o \in Ops, CheckPublish(o) PROVE HInv'
    <3>1. UNCHANGED <<record, local, remote, request, answer>>
      BY <2>1 DEF CheckPublish
    <3>2. (phase[o] = "idle" /\ phase' = [phase EXCEPT ![o] = "lookup"] /\ UNCHANGED outcome)
          \/ Conclude(o, "ExistingRecord")
      BY <2>1 DEF CheckPublish
    <3>3. CASE phase[o] = "idle" /\ phase' = [phase EXCEPT ![o] = "lookup"] /\ UNCHANGED outcome
      <4>1. phase' \in [Ops -> Phases] /\ \A p \in Ops : Reported(p) => phase'[p] = phase[p]
        BY <1>2, <3>3 DEF HInv, Phases
      <4>2. \A p \in Ops : Replicas(p)' = Replicas(p)
        BY <3>1 DEF Replicas
      <4>3. \A p \in Ops : Truthful(p, outcome[p])' /\ (Reported(p)' => phase'[p] = "done")
        BY <1>2, <3>1, <3>3, <4>1, <4>2 DEF HInv, Reported, Truthful
      <4> QED
        BY <1>2, <3>1, <3>3, <4>1, <4>3 DEF HInv
    <3>4. CASE Conclude(o, "ExistingRecord")
      BY <1>2, <3>1, <3>4, ConcludeKeeps DEF Outcomes, Truthful
    <3> QED
      BY <3>2, <3>3, <3>4
  <2>2. ASSUME NEW o \in Ops, FinishSet(o) PROVE HInv'
    <3>1. Conclude(o, classify_set_report(o)) /\ UNCHANGED <<record, local, remote, request, answer>>
      BY <2>2 DEF FinishSet
    <3>2. HInv /\ Counted(o, {"Conflict"}) \in Nat /\ expected_replicas(o) \in Nat
      <4>1. Replicas(o) \subseteq Nodes
        BY <1>2, PublishAssumption DEF HInv, Replicas, self
      <4>2. IsFiniteSet(Replicas(o))
        BY <4>1, PublishAssumption, FS_Interval, FS_Subset DEF Nodes
      <4>3. Cardinality(Replicas(o)) \in Nat
        BY <4>2, FS_CardinalityType
      <4>4. IsFiniteSet({n \in Replicas(o) : answer[o][n] \in {"Conflict"}})
        BY <4>2, FS_Subset
      <4>5. Counted(o, {"Conflict"}) \in Nat
        BY <4>4, FS_CardinalityType DEF Counted
      <4>6. expected_replicas(o) \in Nat
        BY <4>3 DEF expected_replicas
      <4> QED
        BY <1>2, <4>5, <4>6
    <3>3. classify_set_report(o) \in Outcomes
      BY <3>2 DEF classify_set_report, Outcomes
    <3> QED
      BY <3>1, <3>2, <3>3, ConcludeKeeps, TruthfulReport
  <2>3. ASSUME NEW o \in Ops, CheckUpdate(o) \/ NoNeighbours(o) \/ FinishUpdate(o), OnlySets PROVE FALSE
    BY <2>3 DEF CheckUpdate, NoNeighbours, FinishUpdate, OnlySets
  <2>4. CASE UNCHANGED vars
    BY <1>2, <2>4 DEF vars, HInv, Replicas, Truthful, Reported
  <2> QED
    BY <1>2, <2>1, <2>2, <2>3, <2>4, SendKeeps, ReplicaKeeps, TimeoutKeeps DEF Next, Server
<1> QED
  BY <1>1, <1>2, PTL DEF Spec

(* However many servers publish at once, whatever is lost, late or sent twice
   and whichever nodes answer: set_detailed reports Complete only of a record
   that all the replicas it chose hold and keep, and Degraded only of one that
   some replica does. *)
THEOREM ReportsHold == ASSUME OnlySets PROVE Spec => []ReportIsTrue
<1>1. ASSUME HInv PROVE ReportIsTrue
  <2>1. ASSUME NEW o \in Ops, NEW n \in Replicas(o), answer[o][n] \in Acks
        PROVE  Descends(record[n], value(o))
    <3>1. n \in Nodes
      BY <1>1, PublishAssumption DEF HInv, Replicas, self
    <3>2. record[n] = value(o)
      BY <1>1, <2>1, <3>1 DEF HInv
    <3> QED
      BY <3>2 DEF Descends
  <2>2. ASSUME NEW o \in Ops PROVE Truthful(o, outcome[o])
    BY <1>1 DEF HInv
  <2> QED
    BY <2>1, <2>2 DEF ReportIsTrue, Truthful
<1> QED
  BY <1>1, HeldInvariance, PTL
=============================================================================
