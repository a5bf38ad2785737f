-------------------------- MODULE RoundTripsProofs --------------------------
(***************************************************************************)
(* Proofs about RoundTrips for any peers, tasks, samples and limits: the   *)
(* table stays near its capacity, and its estimates among the samples.     *)
(***************************************************************************)
EXTENDS RoundTrips, FiniteSetTheorems, TLAPS

InRange(rt) ==
    /\ rt \in RoundTrip
    /\ rt.smoothed >= Shortest - Rounding /\ rt.smoothed <= Longest
    /\ rt.variation <= Longest

(* TripsBounded is inductive; the estimates need only their own range. *)
TripInv == TripsBounded /\ \A p \in Measured : InRange(peers[p])

-----------------------------------------------------------------------------
(* The weighted mean of two bounded numbers is bounded, up to the remainders. *)
LEMMA MeanBounded ==
    ASSUME NEW x \in Nat, NEW s \in Nat,
           x >= Shortest - Rounding, x <= Longest, s >= Shortest, s <= Longest
    PROVE  LET y == (x * 7) \div 8 + s \div 8
           IN  y \in Nat /\ y >= Shortest - Rounding /\ y <= Longest
BY RoundTripsAssumption DEF Rounding

(* The variation is a mean of numbers that are at most the longest sample. *)
LEMMA VariationBounded ==
    ASSUME NEW v \in Nat, NEW d \in Nat, v <= Longest, d <= Longest
    PROVE  LET y == (v * 3) \div 4 + d \div 4 IN y \in Nat /\ y <= Longest
BY RoundTripsAssumption

(* A sample keeps an estimate in its range. *)
LEMMA SmoothedInRange ==
    ASSUME NEW rt, InRange(rt), NEW s \in Samples
    PROVE  InRange(Smoothed(rt, s))
<1>1. s \in Nat /\ s >= Shortest /\ s <= Longest
  BY RoundTripsAssumption
<1>2. rt.smoothed \in Nat /\ rt.variation \in Nat
  BY DEF InRange, RoundTrip
<1>3. abs_diff(rt.smoothed, s) \in Nat /\ abs_diff(rt.smoothed, s) <= Longest
  BY <1>1, <1>2, RoundTripsAssumption DEF InRange, abs_diff
<1> DEFINE a == (rt.smoothed * 7) \div 8 + s \div 8
           b == (rt.variation * 3) \div 4 + abs_diff(rt.smoothed, s) \div 4
<1>4. a \in Nat /\ a >= Shortest - Rounding /\ a <= Longest
  BY <1>1, <1>2, MeanBounded DEF InRange
<1>5. b \in Nat /\ b <= Longest
  BY <1>2, <1>3, VariationBounded DEF InRange
<1>6. Smoothed(rt, s) = [smoothed |-> a, variation |-> b, idle |-> 0]
  BY DEF Smoothed
<1> HIDE DEF a, b
<1> QED BY <1>4, <1>5, <1>6 DEF InRange, RoundTrip

(* So does the first one. *)
LEMMA FirstInRange ==
    ASSUME NEW s \in Samples
    PROVE  InRange(First(s))
<1>1. s \in Nat /\ s >= Shortest /\ s <= Longest
  BY RoundTripsAssumption
<1>2. s \div 2 \in Nat /\ s \div 2 <= Longest
  BY <1>1, RoundTripsAssumption
<1> QED BY <1>1, <1>2, RoundTripsAssumption DEF InRange, RoundTrip, First, Rounding

-----------------------------------------------------------------------------
(* One peer more makes the table at most one larger. *)
LEMMA AddCard ==
    ASSUME NEW S, IsFiniteSet(S), NEW e
    PROVE  /\ IsFiniteSet(S \cup {e})
           /\ Cardinality(S \cup {e}) \in Nat /\ Cardinality(S) \in Nat
           /\ Cardinality(S \cup {e}) <= Cardinality(S) + 1
BY FS_AddElement, FS_CardinalityType

(* A smaller set has no more members. *)
LEMMA SubCard ==
    ASSUME NEW S, IsFiniteSet(S), NEW T \in SUBSET S
    PROVE  /\ IsFiniteSet(T) /\ Cardinality(T) \in Nat /\ Cardinality(S) \in Nat
           /\ Cardinality(T) <= Cardinality(S)
BY FS_Subset, FS_CardinalityType

-----------------------------------------------------------------------------
(* At the start nothing is measured. *)
LEMMA TripInitInv == TripInit => TripInv
<1> SUFFICES ASSUME TripInit PROVE TripInv
  OBVIOUS
<1>1. Measured = {} /\ Inserting = {}
  BY DEF TripInit, Measured, Inserting, At, NotRecording
<1>2. Cardinality({}) = 0
  BY FS_EmptySet
<1>3. Cardinality(Recorders) \in Nat /\ Cardinality(Recorders) # 0
  BY RoundTripsAssumption, FS_CardinalityType, FS_EmptySet
<1>4. TripTypeOK
  BY <1>1 DEF TripInit, TripTypeOK, Measured
<1> QED BY <1>1, <1>2, <1>3, <1>4, RoundTripsAssumption DEF TripInv, TripsBounded

(* A step of one task. *)
LEMMA RecordInv ==
    ASSUME TripInv, NEW r \in Recorders, RecordStep(r)
    PROVE  TripInv'
<1> USE DEF TripInv, TripsBounded
<1>1. IsFiniteSet(Measured) /\ Cardinality(Measured) \in Nat
  BY RoundTripsAssumption, FS_Subset, FS_CardinalityType DEF TripTypeOK
<1>2. /\ IsFiniteSet(Inserting) /\ Cardinality(Inserting) \in Nat
      /\ Cardinality(Recorders) \in Nat /\ Cardinality(Inserting) <= Cardinality(Recorders)
  BY RoundTripsAssumption, SubCard DEF Inserting
<1>3. At(r, "idle") \/ recording[r] \in Call
  BY DEF TripTypeOK, At, NotRecording
<1>4. CASE \E p \in Peers, sample \in Samples : record(r, p, sample)
  <2> PICK p \in Peers, sample \in Samples : record(r, p, sample)
    BY <1>4
  <2>1. CASE p \in Measured
    <3>1. peers' = [peers EXCEPT ![p] = Smoothed(@, sample)] /\ recording' = recording
      BY <2>1 DEF record
    <3>2. Measured' = Measured /\ Inserting' = Inserting
      BY <3>1 DEF Measured, Inserting, At, TripTypeOK
    <3>3. InRange(Smoothed(peers[p], sample))
      BY <2>1, SmoothedInRange
    <3>4. \A q \in Measured : InRange(peers'[q])
      BY <3>1, <3>3 DEF TripTypeOK
    <3>5. TripTypeOK'
      BY <3>1, <3>2, <3>4 DEF TripTypeOK, InRange
    <3> QED BY <3>2, <3>4, <3>5
  <2>2. CASE p \notin Measured
    <3> DEFINE c == [at |-> "len", peer |-> p, sample |-> sample]
    <3>1. recording' = [recording EXCEPT ![r] = c] /\ peers' = peers /\ c \in Call
      BY <2>2 DEF record, Call
    <3>2. Measured' = Measured
      BY <3>1 DEF Measured
    <3>3. Inserting' = Inserting
      BY <3>1 DEF Inserting, At, record, TripTypeOK
    <3>4. TripTypeOK'
      BY <3>1, <3>2 DEF TripTypeOK
    <3> QED BY <3>1, <3>2, <3>3, <3>4
  <2> QED BY <2>1, <2>2
<1>5. CASE len(r) \/ recheck(r)
  <2>1. peers' = peers /\ Measured' = Measured /\ recording[r] \in Call
    BY <1>3, <1>5 DEF len, recheck, At, Measured
  <2>2. \/ recording' = [recording EXCEPT ![r].at = "retain"]
        \/ recording' = [recording EXCEPT ![r] = NotRecording]
        \/ recording' = [recording EXCEPT ![r].at = "insert"] /\ Cardinality(Measured) < capacity
    BY <1>1, <1>5, RoundTripsAssumption DEF len, recheck, GoesTo, Returns
  <2>3. recording'[r] \in Call \cup {NotRecording}
        /\ recording' = [recording EXCEPT ![r] = recording'[r]]
    BY <2>1, <2>2 DEF TripTypeOK, Call
  <2>4. TripTypeOK'
    BY <2>1, <2>3 DEF TripTypeOK
  <2>5. CASE recording'[r].at = "insert"
    <3>1. Cardinality(Measured) < capacity
      BY <2>2, <2>5, <2>1 DEF TripTypeOK, Call, NotRecording
    <3>2. Inserting' \subseteq Recorders
      BY DEF Inserting
    <3>3. Cardinality(Inserting)' \in Nat /\ Cardinality(Inserting)' <= Cardinality(Recorders)
      BY <3>2, RoundTripsAssumption, SubCard
    <3>4. Cardinality(Measured)' = Cardinality(Measured)
      BY <2>1
    <3> QED BY <1>1, <1>2, <2>1, <2>4, <3>1, <3>3, <3>4, RoundTripsAssumption
  <2>6. CASE recording'[r].at # "insert"
    <3>1. Inserting' \subseteq Inserting
      BY <2>3, <2>6 DEF Inserting, At, TripTypeOK
    <3>2. Cardinality(Inserting)' \in Nat /\ Cardinality(Inserting)' <= Cardinality(Inserting)
      BY <3>1, <1>2, SubCard
    <3>3. Cardinality(Measured)' = Cardinality(Measured)
      BY <2>1
    <3> QED BY <1>1, <1>2, <2>1, <2>4, <3>2, <3>3, RoundTripsAssumption
  <2> QED BY <2>5, <2>6
<1>6. CASE retain(r)
  <2> DEFINE Kept == {q \in Measured : peers[q].idle < FORGET_AFTER}
  <2>1. /\ peers' = [p \in Kept |-> peers[p]]
        /\ recording' = [recording EXCEPT ![r].at = "recheck"]
        /\ recording[r] \in Call /\ recording[r].at = "retain"
    BY <1>3, <1>6 DEF retain, At, GoesTo
  <2>2. Measured' = Kept
    BY <2>1 DEF Measured
  <2>3. Inserting' = Inserting
    BY <2>1 DEF Inserting, At, TripTypeOK, Call
  <2>4. TripTypeOK'
    BY <2>1, <2>2 DEF TripTypeOK, Call
  <2>5. Cardinality(Kept) \in Nat /\ Cardinality(Kept) <= Cardinality(Measured)
    BY <1>1, SubCard
  <2>6. \A q \in Kept : InRange(peers'[q])
    BY <2>1
  <2> QED BY <1>1, <1>2, <2>2, <2>3, <2>4, <2>5, <2>6, RoundTripsAssumption
<1>7. CASE insert_trip(r)
  <2> DEFINE e == recording[r].peer
             s == recording[r].sample
  <2>1. /\ peers' = [p \in Measured \cup {e} |-> IF p = e THEN First(s) ELSE peers[p]]
        /\ recording' = [recording EXCEPT ![r] = NotRecording]
        /\ recording[r] \in Call /\ recording[r].at = "insert"
    BY <1>3, <1>7 DEF insert_trip, At, Returns
  <2>2. e \in Peers /\ s \in Samples
    BY <2>1 DEF Call
  <2>3. Measured' = Measured \cup {e}
    BY <2>1 DEF Measured
  <2>4. InRange(First(s))
    BY <2>2, FirstInRange
  <2>5. \A q \in Measured' : InRange(peers'[q])
    BY <2>1, <2>3, <2>4
  <2>6. TripTypeOK'
    <3>1. \A q \in Measured' : peers'[q] \in RoundTrip
      BY <2>5 DEF InRange
    <3> QED BY <2>1, <2>2, <2>3, <3>1 DEF TripTypeOK
  <2>7. r \in Inserting /\ Inserting' = Inserting \ {r}
    BY <2>1 DEF Inserting, At, TripTypeOK, NotRecording
  <2>8. Cardinality(Inserting)' = Cardinality(Inserting) - 1
    BY <1>2, <2>7, FS_RemoveElement
  <2>9. Cardinality(Measured)' \in Nat /\ Cardinality(Measured)' <= Cardinality(Measured) + 1
    BY <1>1, <2>3, AddCard
  <2> QED BY <1>1, <1>2, <2>5, <2>6, <2>8, <2>9, RoundTripsAssumption
<1> QED BY <1>4, <1>5, <1>6, <1>7 DEF RecordStep

(* Every step keeps the invariant; time changes only how long a peer is idle. *)
LEMMA TripNextInv == TripInv /\ [TripNext]_tripVars => TripInv'
<1> SUFFICES ASSUME TripInv, [TripNext]_tripVars PROVE TripInv'
  OBVIOUS
<1>1. ASSUME NEW r \in Recorders, RecordStep(r) PROVE TripInv'
  BY <1>1, RecordInv
<1>2. CASE PeersIdle
  <2> DEFINE next(p) == [peers[p] EXCEPT !.idle = IF @ < FORGET_AFTER THEN @ + 1 ELSE @]
  <2>1. peers' = [p \in Measured |-> next(p)] /\ recording' = recording
    BY <1>2 DEF PeersIdle
  <2>2. Measured' = Measured /\ Inserting' = Inserting
    BY <2>1 DEF Measured, Inserting, At
  <2>3. ASSUME NEW p \in Measured PROVE InRange(next(p))
    <3>1. InRange(peers[p]) /\ peers[p] \in RoundTrip
      BY DEF TripInv, InRange
    <3> QED BY <3>1 DEF InRange, RoundTrip
  <2>4. \A p \in Measured : peers'[p] = next(p)
    BY <2>1
  <2> HIDE DEF next
  <2>5. \A p \in Measured : InRange(peers'[p])
    BY <2>3, <2>4
  <2>6. TripTypeOK'
    BY <2>1, <2>2, <2>4, <2>5 DEF TripTypeOK, TripInv, TripsBounded, InRange
  <2> QED BY <2>2, <2>5, <2>6 DEF TripInv, TripsBounded
<1>3. CASE UNCHANGED tripVars
  BY <1>3 DEF tripVars, TripInv, TripsBounded, TripTypeOK, Inserting, At, Measured
<1> QED BY <1>1, <1>2, <1>3 DEF TripNext

(* TripInv holds in every reachable state. *)
LEMMA TripAlways == TripSpec => []TripInv
BY TripInitInv, TripNextInv, PTL DEF TripSpec

(* The table passes its capacity by fewer peers than there are tasks that
   record at the same time (`record` checks `len` and inserts in two calls). *)
THEOREM TableBounded == TripSpec => []TripsBounded
<1>1. TripInv => TripsBounded
  BY DEF TripInv
<1> QED BY TripAlways, <1>1, PTL

(* The estimates stay among the samples, and the waits with them. *)
THEOREM WaitsCover == TripSpec => []WaitsCoverRoundTrips
<1>1. ASSUME TripInv, NEW p \in Measured
      PROVE  /\ resend_after(p) <= MAX_RESEND_AFTER
             /\ \/ resend_after(p) = MAX_RESEND_AFTER
                \/ resend_after(p) >= 3 * (Shortest - Rounding)
  <2> DEFINE x == peers[p].smoothed
             y == peers[p].smoothed + peers[p].variation * 4
  <2>1. x \in Nat /\ y \in Nat /\ x >= Shortest - Rounding
    BY <1>1 DEF TripInv, InRange, RoundTrip
  <2>2. Larger(x * 3, y) \in Nat /\ Larger(x * 3, y) >= 3 * x
    BY <2>1 DEF Larger
  <2>3. resend_after(p) = Clamp(Larger(x * 3, y), MIN_RESEND_AFTER, MAX_RESEND_AFTER)
    BY DEF resend_after
  <2> HIDE DEF x, y
  <2>4. Larger(x * 3, y) >= 3 * (Shortest - Rounding)
    BY <2>1, <2>2, RoundTripsAssumption DEF Rounding
  <2> QED BY <2>2, <2>3, <2>4, RoundTripsAssumption DEF Clamp, Rounding
<1>2. TripInv => WaitsCoverRoundTrips
  BY <1>1 DEF TripInv, InRange, WaitsCoverRoundTrips
<1> QED BY TripAlways, <1>2, PTL
=============================================================================
