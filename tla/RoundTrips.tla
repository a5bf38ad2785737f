----------------------------- MODULE RoundTrips -----------------------------
(***************************************************************************)
(* The round-trip estimates of the peers (src/src/retransmit.rs).  Several *)
(* tasks record at the same time: `record` takes the locks of its map one  *)
(* call at a time, so another task may act between any two of its calls.   *)
(* One call on the map is one step; its `len` is taken as one step too.    *)
(***************************************************************************)
EXTENDS Integers, FiniteSets

CONSTANTS
    Peers,                 \* addresses that answer requests
    Recorders,             \* tasks that record at the same time (bound)
    Samples,               \* measured round trips, in ns
    capacity,              \* MAX_PEERS
    FORGET_AFTER,
    INITIAL_RESEND_AFTER, MIN_RESEND_AFTER, MAX_RESEND_AFTER,
    Shortest, Longest      \* bounds of Samples

ASSUME RoundTripsAssumption ==
    /\ IsFiniteSet(Peers) /\ IsFiniteSet(Recorders) /\ Recorders # {}
    /\ capacity \in Nat \ {0} /\ FORGET_AFTER \in Nat
    /\ INITIAL_RESEND_AFTER \in Nat /\ MIN_RESEND_AFTER \in Nat /\ MAX_RESEND_AFTER \in Nat
    /\ MIN_RESEND_AFTER <= MAX_RESEND_AFTER
    /\ Shortest \in Nat /\ Longest \in Nat
    /\ Samples \subseteq Shortest .. Longest

VARIABLES
    peers,       \* the measured peers -> [smoothed, variation, idle]
    recording    \* per task, [at, peer, sample]: where its call of `record` is

tripVars == <<peers, recording>>

RoundTrip == [smoothed : Nat, variation : Nat, idle : Nat]
NotRecording == [at |-> "idle"]
Measured == DOMAIN peers
At(r, where) == recording[r].at = where
GoesTo(r, where) == recording' = [recording EXCEPT ![r].at = where]
Returns(r) == recording' = [recording EXCEPT ![r] = NotRecording]

-----------------------------------------------------------------------------
Clamp(x, low, high) == IF x < low THEN low ELSE IF x > high THEN high ELSE x
Larger(x, y) == IF x > y THEN x ELSE y
abs_diff(x, y) == IF x > y THEN x - y ELSE y - x

(* Mutant: the weights of the estimate add up to more than one. *)
Overweight(rt, sample) ==
    [smoothed  |-> (rt.smoothed * 7) \div 8 + sample \div 4,
     variation |-> (rt.variation * 3) \div 4 + abs_diff(rt.smoothed, sample) \div 4,
     idle      |-> 0]

(* RFC 6298, 2.3, with the divisions of Duration. *)
Smoothed(rt, sample) ==
    [smoothed  |-> (rt.smoothed * 7) \div 8 + sample \div 8,
     variation |-> (rt.variation * 3) \div 4 + abs_diff(rt.smoothed, sample) \div 4,
     idle      |-> 0]

First(sample) == [smoothed |-> sample, variation |-> sample \div 2, idle |-> 0]

resend_after(p) ==
    IF p \notin Measured THEN INITIAL_RESEND_AFTER
    ELSE Clamp(Larger(peers[p].smoothed * 3, peers[p].smoothed + peers[p].variation * 4),
               MIN_RESEND_AFTER, MAX_RESEND_AFTER)

-----------------------------------------------------------------------------
(* A peer answered a request that was sent once: `get_mut`. *)
record(r, p, sample) ==
    /\ At(r, "idle")
    /\ IF p \in Measured
         THEN /\ peers' = [peers EXCEPT ![p] = Smoothed(@, sample)]
              /\ UNCHANGED recording
         ELSE /\ recording' = [recording EXCEPT ![r] = [at |-> "len", peer |-> p, sample |-> sample]]
              /\ UNCHANGED peers

len(r) ==
    /\ At(r, "len")
    /\ GoesTo(r, IF Cardinality(Measured) >= capacity THEN "retain" ELSE "insert")
    /\ UNCHANGED peers

retain(r) ==
    /\ At(r, "retain")
    /\ peers' = [p \in {q \in Measured : peers[q].idle < FORGET_AFTER} |-> peers[p]]
    /\ GoesTo(r, "recheck")

(* Mutant: the table is not measured again after `retain`. *)
InsertAnyway(r) ==
    /\ At(r, "recheck")
    /\ GoesTo(r, "insert")
    /\ UNCHANGED peers

recheck(r) ==
    /\ At(r, "recheck")
    /\ IF Cardinality(Measured) >= capacity THEN Returns(r) ELSE GoesTo(r, "insert")
    /\ UNCHANGED peers

insert_trip(r) ==
    /\ At(r, "insert")
    /\ peers' = [p \in Measured \cup {recording[r].peer} |->
                   IF p = recording[r].peer THEN First(recording[r].sample) ELSE peers[p]]
    /\ Returns(r)

(* Time passes.  A call of `record` takes none of it: FORGET_AFTER is 600 s. *)
PeersIdle ==
    /\ \A r \in Recorders : At(r, "idle")
    /\ \E p \in Measured : peers[p].idle < FORGET_AFTER
    /\ peers' = [p \in Measured |->
                   [peers[p] EXCEPT !.idle = IF @ < FORGET_AFTER THEN @ + 1 ELSE @]]
    /\ UNCHANGED recording

TripInit ==
    /\ peers = [p \in {} |-> 0]
    /\ recording = [r \in Recorders |-> NotRecording]

RecordStep(r) ==
    \/ \E p \in Peers, sample \in Samples : record(r, p, sample)
    \/ len(r) \/ retain(r) \/ recheck(r) \/ insert_trip(r)

TripNext == (\E r \in Recorders : RecordStep(r)) \/ PeersIdle

TripSpec == TripInit /\ [][TripNext]_tripVars

-----------------------------------------------------------------------------
Call == [at : {"len", "retain", "recheck", "insert"}, peer : Peers, sample : Samples]
TripTypeOK ==
    /\ Measured \subseteq Peers
    /\ peers \in [Measured -> RoundTrip]
    /\ recording \in [Recorders -> Call \cup {NotRecording}]

Inserting == {r \in Recorders : At(r, "insert")}

(* Dropping the remainders of the two divisions loses less than 2 ns a sample. *)
Rounding == 14

(* The table can pass its capacity: tasks that saw it below the limit insert
   one after the other (`len` and `insert` are two calls in `record`).  Each
   task passes it by one at most, so the table never holds more than one peer
   less than the tasks over it.  The inserts that are under way count already. *)
TripsBounded ==
    /\ TripTypeOK
    /\ Cardinality(Measured) + Cardinality(Inserting) <= capacity + Cardinality(Recorders) - 1

(* However the samples of a peer follow each other, its estimate stays among
   them, up to the rounding of Duration: a request is never sent again before
   three times the shortest round trip, or the upper bound of the wait, and
   never later than that bound (`record`, `resend_after`). *)
WaitsCoverRoundTrips ==
    \A p \in Measured :
       /\ peers[p].smoothed >= Shortest - Rounding /\ peers[p].smoothed <= Longest
       /\ peers[p].variation <= Longest
       /\ resend_after(p) <= MAX_RESEND_AFTER
       /\ \/ resend_after(p) = MAX_RESEND_AFTER
          \/ resend_after(p) >= 3 * (Shortest - Rounding)
=============================================================================
