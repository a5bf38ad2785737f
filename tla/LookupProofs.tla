---------------------------- MODULE LookupProofs ----------------------------
(***************************************************************************)
(* What a lookup may conclude from silence, for any network, k and alpha.  *)
(***************************************************************************)
EXTENDS Lookup, FiniteSetTheorems, TLAPS

(* A peer asked has answered, is awaited, or its silence is on record. *)
Accounted(p) ==
    \/ p \in answered \/ p \in waiting \/ p \in to_remove \/ p \in failed
    \/ \E r \in replies : r[1] = p /\ ~r[2].happened

(* The state of a lookup that has not ended. *)
Ongoing ==
    pc # "done" =>
       /\ result = Running /\ cached = {}
       /\ \A p \in contacted : Accounted(p)
       /\ (failed \cup to_remove # {} => incomplete)

(* Between two rounds nothing is pending. *)
Between == pc = "loop" => waiting = {} /\ replies = {} /\ to_remove \subseteq failed

(* A reply that happened comes from a peer counted as answering. *)
Credited == \A r \in replies : r[2].happened => r[1] \in answered

(* A check that asks everyone has asked all it started from after a round. *)
AsksAll ==
    ask_everyone =>
       /\ kind = "check"
       /\ \/ initial \subseteq contacted
          \/ pc # "round" /\ contacted = {} /\ nearest = initial

IInv ==
    /\ TypeOK /\ Ongoing /\ Between /\ Credited /\ AsksAll
    /\ initial # {} /\ nearest \cap failed = {}
    /\ NodesResponded /\ NotFoundIsComplete /\ NeighborsHeard

(* A part of the closest peers is its own closest part. *)
LEMMA ClosestOfPart ==
    ASSUME NEW S, IsFiniteSet(S), NEW n \in Nat, NEW T, T \subseteq Closest(S, n)
    PROVE  Closest(T, n) = T
<1> SUFFICES ASSUME NEW p \in T
             PROVE  Cardinality({q \in T : q < p}) < n
    BY DEF Closest
<1>1. Cardinality({q \in S : q < p}) < n
    BY DEF Closest
<1>2. {q \in T : q < p} \subseteq {q \in S : q < p}
    BY DEF Closest
<1>3. IsFiniteSet({q \in S : q < p})
    BY FS_Subset
<1>4. Cardinality({q \in T : q < p}) <= Cardinality({q \in S : q < p})
    BY <1>2, <1>3, FS_Subset
<1>5. Cardinality({q \in T : q < p}) \in Nat /\ Cardinality({q \in S : q < p}) \in Nat
    BY <1>2, <1>3, FS_Subset, FS_CardinalityType
<1> QED BY <1>1, <1>4, <1>5

(* Asking as many as there are asks all. *)
LEMMA ClosestOfAll ==
    ASSUME NEW S \in SUBSET Int, IsFiniteSet(S)
    PROVE  Closest(S, Cardinality(S)) = S
<1> SUFFICES ASSUME NEW p \in S
             PROVE  Cardinality({q \in S : q < p}) < Cardinality(S)
    BY DEF Closest
<1> DEFINE L == {q \in S : q < p}
<1>1. L \subseteq S /\ p \notin L
    OBVIOUS
<1>2. IsFiniteSet(L) /\ Cardinality(L) <= Cardinality(S) /\ (Cardinality(L) = Cardinality(S) => L = S)
    BY <1>1, FS_Subset
<1>3. Cardinality(L) \in Nat /\ Cardinality(S) \in Nat
    BY <1>2, FS_CardinalityType
<1> QED BY <1>1, <1>2, <1>3

(* The peers are a finite set of numbers. *)
LEMMA PeersFinite == IsFiniteSet(Peers) /\ Peers \subseteq Int
BY LookupAssumption, FS_Interval DEF Peers

(* The neighbours a lookup starts from are contacts, and its shortlist. *)
LEMMA StartsAtNeighbors ==
    ASSUME NEW known \in SUBSET Peers, NEW bad, NEW X, X \subseteq find_neighbors(known, bad)
    PROVE  X \subseteq known /\ push({}, X, ksize) = X
<1>1. IsFiniteSet(known) /\ IsFiniteSet(known \ bad)
    BY PeersFinite, FS_Subset
<1>2. \/ find_neighbors(known, bad) = Closest(known, ksize)
      \/ find_neighbors(known, bad) = Closest(known \ bad, ksize)
    BY DEF find_neighbors
<1>3. Closest(X, ksize) = X
    BY <1>1, <1>2, ClosestOfPart, LookupAssumption
<1>4. X \subseteq known
    BY <1>2 DEF Closest
<1> QED BY <1>3, <1>4 DEF push

(* The invariant holds initially. *)
LEMMA Initially == Init => IInv
<1> SUFFICES ASSUME Init PROVE IInv
    OBVIOUS
<1> USE DEF Init
<1>1. initial \subseteq contacts /\ nearest = initial
    BY StartsAtNeighbors
<1>2. found_values \subseteq {0} \X Values
    OBVIOUS
<1>3. TypeOK
    BY <1>1, <1>2 DEF TypeOK, Running
<1> QED BY <1>1, <1>3 DEF IInv, Ongoing, Between, Credited, AsksAll, Accounted,
                          NodesResponded, NotFoundIsComplete, NeighborsHeard, Running

(* A round asks peers of the shortlist only; all of them, if it asks everyone. *)
LEMMA PeersAsked ==
    ASSUME IInv
    PROVE  /\ next_peers \subseteq nearest
           /\ (ask_everyone /\ contacted = {} => next_peers = nearest)
<1>1. next_peers \subseteq nearest
    BY DEF next_peers, Closest, uncontacted
<1>2. ASSUME ask_everyone, contacted = {}
      PROVE  next_peers = nearest
  <2>1. IsFiniteSet(nearest) /\ nearest \in SUBSET Int
      BY PeersFinite, FS_Subset DEF IInv, TypeOK
  <2>2. kind = "check" /\ uncontacted = nearest
      BY <1>2 DEF IInv, AsksAll, uncontacted
  <2>3. next_peers = Closest(nearest, Cardinality(nearest))
      BY <1>2, <2>2 DEF next_peers, limit, Minimum
  <2> QED BY <2>1, <2>3, ClosestOfAll
<1> QED BY <1>1, <1>2

(* A round begins. *)
LEMMA AskKeeps == IInv /\ Ask => IInv'
<1> SUFFICES ASSUME IInv, Ask PROVE IInv'
    OBVIOUS
<1> USE DEF Ask, IInv, start
<1>1. next_peers \subseteq nearest /\ (ask_everyone /\ contacted = {} => next_peers = nearest)
    BY PeersAsked
<1>2. TypeOK'
    BY <1>1 DEF TypeOK, RepliesOf
<1>3. Ongoing' /\ Between' /\ Credited'
    BY DEF Ongoing, Between, Credited, Accounted
<1>4. AsksAll'
    BY <1>1 DEF AsksAll
<1>5. result = Running /\ result' = Running
    BY DEF Ongoing
<1>6. NodesResponded' /\ NotFoundIsComplete' /\ NeighborsHeard'
    BY <1>5 DEF Running, NodesResponded, NotFoundIsComplete, NeighborsHeard
<1> QED BY <1>2, <1>3, <1>4, <1>6

(* A call ends. *)
LEMMA CompleteKeeps ==
    ASSUME IInv, NEW p, NEW reply, Complete(p, reply)
    PROVE  IInv'
<1> USE DEF Complete, IInv, start, base, round
<1>1. \A r : RepliesOf(r)' = RepliesOf(r)
    BY DEF RepliesOf
<1>2. p \in contacted
    BY DEF TypeOK
<1>3. \A r \in replies' : r[1] \in contacted' /\ r[2] \in RepliesOf(r[1])'
  <2>1. \A r \in replies : r[1] \in contacted' /\ r[2] \in RepliesOf(r[1])'
      BY <1>1 DEF TypeOK
  <2>2. <<p, reply>>[1] = p /\ <<p, reply>>[2] = reply
      OBVIOUS
  <2>3. <<p, reply>>[1] \in contacted' /\ <<p, reply>>[2] \in RepliesOf(<<p, reply>>[1])'
      BY <1>1, <1>2, <2>2
  <2> QED BY <2>1, <2>3
<1>4. failing' \subseteq contacts' /\ answered \subseteq answered' /\ answered' \subseteq contacted'
    BY <1>2 DEF TypeOK
<1>5. TypeOK'
    BY <1>3, <1>4 DEF TypeOK
<1>6. \A q \in contacted : Accounted(q) => Accounted(q)'
  <2>1. <<p, reply>>[1] = p /\ <<p, reply>>[2] = reply /\ <<p, reply>> \in replies'
      OBVIOUS
  <2>2. ~reply.happened => Accounted(p)'
      BY <2>1 DEF Accounted
  <2>3. reply.happened => Accounted(p)'
      BY DEF Accounted
  <2>4. \A q \in contacted \ {p} : Accounted(q) => Accounted(q)'
      BY DEF Accounted
  <2> QED BY <2>2, <2>3, <2>4
<1>7. Ongoing'
    BY <1>6 DEF Ongoing
<1>8. Between' /\ Credited' /\ AsksAll'
    BY DEF Between, Credited, AsksAll
<1>9. NodesResponded' /\ NotFoundIsComplete' /\ NeighborsHeard'
    BY <1>4 DEF NodesResponded, NotFoundIsComplete, NeighborsHeard
<1> QED BY <1>5, <1>7, <1>8, <1>9

(* A silence is noted. *)
LEMMA NoAnswerKeeps ==
    ASSUME IInv, NEW p, NEW reply, NoAnswer(p, reply)
    PROVE  IInv'
<1> USE DEF NoAnswer, Next_reply, IInv, start, base
<1>1. TypeOK'
    BY DEF TypeOK, RepliesOf
<1>2. \A q : Accounted(q) => Accounted(q)'
    BY DEF Accounted
<1>3. Ongoing' /\ Between' /\ Credited' /\ AsksAll'
    BY <1>2 DEF Ongoing, Between, Credited, AsksAll
<1>4. NodesResponded' /\ NotFoundIsComplete' /\ NeighborsHeard'
    BY DEF Ongoing, Running, NodesResponded, NotFoundIsComplete, NeighborsHeard
<1> QED BY <1>1, <1>2, <1>3, <1>4

(* A value is handled. *)
LEMMA ValueKeeps ==
    ASSUME IInv, NEW p, NEW reply, Value(p, reply)
    PROVE  IInv'
<1> USE DEF Value, Next_reply, IInv, start, base
<1>1. reply \in RepliesOf(p) /\ p \in contacted
    BY DEF TypeOK
<1>2. reply.happened /\ reply.value \subseteq Values
    BY <1>1 DEF RepliesOf, Silent, Hit, Miss
<1>3. \A r : RepliesOf(r)' = RepliesOf(r)
    BY DEF RepliesOf
<1>4. /\ replies' \subseteq replies /\ waiting' \subseteq waiting
      /\ found_values' \subseteq (contacted \cup {0}) \X Values
  <2>1. replies' \subseteq replies /\ waiting' \subseteq waiting
      OBVIOUS
  <2>2. \A v \in reply.value : <<p, v>> \in (contacted \cup {0}) \X Values
      BY <1>1, <1>2
  <2>3. {<<p, v>> : v \in reply.value} \subseteq (contacted \cup {0}) \X Values
      BY <2>2
  <2>4. found_values \subseteq (contacted \cup {0}) \X Values
      BY DEF TypeOK
  <2> QED BY <2>1, <2>3, <2>4
<1>5. CASE pc' = "done"
  <2>1. result' = Outcome("found", reply.value, {})
      BY <1>5
  <2>2. result'.status = "found" /\ result'.value = reply.value /\ result'.nodes = {}
      BY <2>1 DEF Outcome
  <2>3. TypeOK'
      BY <1>2, <1>3, <1>4, <1>5, <2>2 DEF TypeOK
  <2>4. Ongoing' /\ Between' /\ Credited' /\ AsksAll'
      BY <1>4, <1>5 DEF Ongoing, Between, Credited, AsksAll
  <2> QED BY <2>2, <2>3, <2>4 DEF NodesResponded, NotFoundIsComplete, NeighborsHeard
<1>6. CASE pc' # "done"
  <2>1. replies' = replies \ {<<p, reply>>} /\ UNCHANGED <<pc, result, waiting>>
      BY <1>6
  <2>2. TypeOK'
      BY <1>3, <1>4, <2>1 DEF TypeOK
  <2>3. \A q : Accounted(q) => Accounted(q)'
      BY <1>2, <2>1 DEF Accounted
  <2>4. Ongoing' /\ Between' /\ Credited' /\ AsksAll'
      BY <1>4, <2>1, <2>3 DEF Ongoing, Between, Credited, AsksAll
  <2> QED BY <2>1, <2>2, <2>4 DEF NodesResponded, NotFoundIsComplete, NeighborsHeard
<1> QED BY <1>5, <1>6

(* A list of nodes is handled. *)
LEMMA ReportKeeps ==
    ASSUME IInv, NEW p, NEW reply, add_reported(p, reply)
    PROVE  IInv'
<1> USE DEF add_reported, Next_reply, IInv, start
<1>1. reply \in RepliesOf(p) /\ p \in contacted /\ p \in answered
    BY DEF TypeOK, Credited
<1>2. reply.nodes \subseteq Peers
    BY <1>1 DEF RepliesOf, Silent, Hit, Miss
<1>3. nearest' \subseteq nearest \cup (reply.nodes \ failed)
    BY DEF push, Closest
<1>4. nearest_without_value' \subseteq nearest_without_value \cup {p}
    BY DEF push, Closest
<1>5. TypeOK'
    BY <1>1, <1>2, <1>3, <1>4 DEF TypeOK, RepliesOf
<1>6. Ongoing'
    BY <1>1 DEF Ongoing, Accounted
<1>7. Between' /\ Credited' /\ AsksAll'
    BY DEF Between, Credited, AsksAll
<1>8. NodesResponded' /\ NotFoundIsComplete' /\ NeighborsHeard'
    BY DEF Ongoing, Running, NodesResponded, NotFoundIsComplete, NeighborsHeard
<1> QED BY <1>3, <1>5, <1>6, <1>7, <1>8

(* A round ends. *)
LEMMA RemoveKeeps == IInv /\ remove_failed => IInv'
<1> SUFFICES ASSUME IInv, remove_failed PROVE IInv'
    OBVIOUS
<1> USE DEF remove_failed, IInv, start, round
<1>1. TypeOK'
    BY DEF TypeOK, RepliesOf
<1>2. Ongoing' /\ Between' /\ Credited' /\ AsksAll'
    BY DEF Ongoing, Between, Credited, Accounted, AsksAll
<1>3. NodesResponded' /\ NotFoundIsComplete' /\ NeighborsHeard'
    BY DEF Ongoing, Running, NodesResponded, NotFoundIsComplete, NeighborsHeard
<1> QED BY <1>1, <1>2, <1>3

(* The lookup gives up. *)
LEMMA DeadlineKeeps == IInv /\ Deadline => IInv'
<1> SUFFICES ASSUME IInv, Deadline PROVE IInv'
    OBVIOUS
<1> USE DEF Deadline, IInv, start, base, round
<1>1. TypeOK'
    BY DEF TypeOK, RepliesOf, Outcome
<1>2. Ongoing' /\ Between'
    BY DEF Ongoing, Between
<1>3. Credited' /\ AsksAll'
    BY DEF Credited, AsksAll, TypeOK
<1>4. NodesResponded' /\ NotFoundIsComplete' /\ NeighborsHeard'
    BY DEF Outcome, NodesResponded, NotFoundIsComplete, NeighborsHeard
<1> QED BY <1>1, <1>2, <1>3, <1>4

(* The lookup comes to its end. *)
LEMMA DecideKeeps == IInv /\ Decide => IInv'
<1> SUFFICES ASSUME IInv, Decide PROVE IInv'
    OBVIOUS
<1> USE DEF IInv
<1> DEFINE winner == strict_quorum_value(found_values, IF kind = "find" THEN 1 ELSE read_quorum)
<1> HIDE DEF winner
<1>1. winner \subseteq Values
    BY DEF strict_quorum_value, winner
<1>2. kind \in {"nodes", "find", "first", "check", "quorum"}
    BY LookupAssumption DEF TypeOK, LookupKinds
<1>3. UNCHANGED <<start, base, round, failing, waiting, replies, heard, answered>> /\ pc = "loop" /\ Decided /\ pc' = "done"
    BY DEF Decide
<1>4. cached' \subseteq nearest_without_value
    BY DEF Decide
<1>5. \/ /\ result' = Outcome("nodes", {}, nearest)
         /\ kind = "nodes" \/ (kind = "find" /\ found_values = {})
      \/ result' = Outcome("tie", {}, nearest)
      \/ result' = Outcome("found", winner, {})
      \/ result' = Outcome("no_quorum", {}, {})
      \/ result' = Outcome("incomplete", {}, {})
      \/ result' = Outcome("not_found", {}, {}) /\ searching /\ ~incomplete
  <2>1. result' = CASE kind = "nodes" -> lookup_nodes("nodes")
                    [] kind = "find" /\ found_values = {} -> lookup_nodes("nodes")
                    [] kind = "find" /\ found_values # {} /\ winner = {} -> lookup_nodes("tie")
                    [] kind \in {"find", "quorum"} /\ winner # {} -> Outcome("found", winner, {})
                    [] kind = "quorum" /\ winner = {} -> Outcome("no_quorum", {}, {})
                    [] searching -> Outcome(IF incomplete THEN "incomplete" ELSE "not_found", {}, {})
      BY DEF Decide, winner
  <2>2. CASE kind = "nodes"
      BY <2>1, <2>2 DEF searching, lookup_nodes
  <2>3. CASE kind = "find" /\ found_values = {}
      BY <2>1, <2>3 DEF searching, lookup_nodes
  <2>4. CASE kind = "find" /\ found_values # {}
      BY <2>1, <2>4 DEF searching, lookup_nodes
  <2>5. CASE kind = "quorum"
      BY <2>1, <2>5 DEF searching
  <2>6. CASE searching
      BY <2>1, <2>6 DEF searching, TypeOK
  <2> QED BY <1>2, <2>2, <2>3, <2>4, <2>5, <2>6 DEF searching
<1>6. /\ result'.status \in {"nodes", "tie", "found", "not_found", "incomplete", "no_quorum"}
       /\ result'.value \subseteq Values /\ result'.nodes \subseteq nearest
       /\ (result'.status = "nodes" =>
             result'.nodes = nearest /\ (kind = "nodes" \/ (kind = "find" /\ found_values = {})))
       /\ (result'.status = "not_found" => searching /\ ~incomplete)
    BY <1>1, <1>5 DEF Outcome
<1>7. \A p \in contacted : p \in answered \/ p \in failed
    BY <1>3 DEF Ongoing, Between, Accounted
<1>8. result'.status = "nodes" => result'.nodes \subseteq answered
  <2> SUFFICES ASSUME result'.status = "nodes" PROVE result'.nodes \subseteq answered
      OBVIOUS
  <2>1. result'.nodes = nearest /\ (kind = "nodes" \/ (kind = "find" /\ found_values = {}))
      BY <1>6
  <2>2. have_contacted_all
      BY <1>3, <2>1 DEF Decided
  <2> QED BY <1>7, <2>1, <2>2 DEF have_contacted_all, uncontacted
<1>9. result'.status = "not_found" => searching /\ ~incomplete
    BY <1>6
<1>10. ~incomplete => contacted \subseteq answered
    BY <1>3, <1>7 DEF Ongoing
<1>11. result'.status = "not_found" /\ ask_everyone => initial \subseteq contacted
  <2> SUFFICES ASSUME result'.status = "not_found", ask_everyone PROVE initial \subseteq contacted
      OBVIOUS
  <2>1. have_contacted_all
      BY <1>3, <1>9 DEF Decided, searching
  <2> QED BY <2>1 DEF AsksAll, have_contacted_all, uncontacted
<1>12. NodesResponded' /\ NotFoundIsComplete' /\ NeighborsHeard'
    BY <1>3, <1>8, <1>9, <1>10, <1>11
       DEF NodesResponded, NotFoundIsComplete, NeighborsHeard, start, base
<1>13. TypeOK'
    BY <1>3, <1>4, <1>6 DEF TypeOK, RepliesOf, start, base, round
<1>14. Ongoing' /\ Between' /\ Credited' /\ AsksAll'
    BY <1>3 DEF Ongoing, Between, Credited, AsksAll, start, base, round
<1> QED BY <1>3, <1>12, <1>13, <1>14 DEF start, base

(* Nothing changes while the lookup stands still. *)
LEMMA StutterKeeps == IInv /\ UNCHANGED vars => IInv'
<1> SUFFICES ASSUME IInv, UNCHANGED vars PROVE IInv'
    OBVIOUS
<1> USE DEF IInv, vars, start, base, round
<1>1. TypeOK'
    BY DEF TypeOK, RepliesOf
<1>2. Ongoing' /\ Between' /\ Credited' /\ AsksAll'
    BY DEF Ongoing, Accounted, Between, Credited, AsksAll
<1>3. NodesResponded' /\ NotFoundIsComplete' /\ NeighborsHeard'
    BY DEF NodesResponded, NotFoundIsComplete, NeighborsHeard
<1> QED BY <1>1, <1>2, <1>3

(* The invariant holds throughout every lookup. *)
THEOREM Invariance == Spec => []IInv
<1>1. IInv /\ [Next]_vars => IInv'
    BY AskKeeps, CompleteKeeps, NoAnswerKeeps, ValueKeeps, ReportKeeps, RemoveKeeps, DeadlineKeeps,
       DecideKeeps, StutterKeeps DEF Next
<1> QED BY Initially, <1>1, PTL DEF Spec

(* Every lookup is well-typed, whatever its peers answer. *)
THEOREM TypeCorrect == Spec => []TypeOK
<1>1. IInv => TypeOK
    BY DEF IInv
<1> QED BY Invariance, <1>1, PTL

(* The nodes that a node lookup gives, or a value lookup that found no value,
   have all answered it (find_lookup_nodes, find). *)
THEOREM LookupNodesRespond == Spec => []NodesResponded
<1>1. IInv => NodesResponded
    BY DEF IInv
<1> QED BY Invariance, <1>1, PTL

(* ValueSearch::NotFound: no peer that was asked stayed silent (search). *)
THEOREM NotFoundMeansAllAnswered == Spec => []NotFoundIsComplete
<1>1. IInv => NotFoundIsComplete
    BY DEF IInv
<1> QED BY Invariance, <1>1, PTL

(* The check of a replica hears every neighbour it knows before it concludes
   that the network holds no other record (asking_everyone). *)
THEOREM ReplicaHearsNeighbors == Spec => []NeighborsHeard
<1>1. IInv => NeighborsHeard
    BY DEF IInv
<1> QED BY Invariance, <1>1, PTL

(* No lookup takes silence for an answer, whatever its peers do. *)
THEOREM SilenceIsCounted == Spec => []SilenceCounts
<1>1. TypeOK /\ NodesResponded /\ NeighborsHeard => SilenceCounts
    BY DEF SilenceCounts
<1> QED BY TypeCorrect, LookupNodesRespond, ReplicaHearsNeighbors, <1>1, PTL
=============================================================================
