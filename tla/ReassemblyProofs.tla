-------------------------- MODULE ReassemblyProofs --------------------------
(***************************************************************************)
(* Proofs about Reassembly for any messages, peers and limits: the partial *)
(* messages stay within the limits, and a message put together is made of  *)
(* the fragments of one, unless its sender has restarted.                  *)
(***************************************************************************)
EXTENDS Reassembly, FiniteSetTheorems, TLAPS

AllFragments == UNION {Fragments(m) : m \in Messages}

Entry ==
    [peer : Peers, frag_id : Nat \cup {-1}, total : {total(m) : m \in Messages},
     chunks : SUBSET AllFragments, old : BOOLEAN]

(* The limits, of any map. *)
WithinLimits(S) ==
    /\ IsFiniteSet(S)
    /\ Cardinality(S) <= MaxEntries
    /\ \A p \in Peers : Cardinality({e \in S : e.peer = p}) <= MaxEntriesPerPeer

-----------------------------------------------------------------------------
(* Removing partial messages keeps a map within the limits. *)
LEMMA SubsetWithin ==
    ASSUME NEW S, NEW T \in SUBSET S, WithinLimits(S)
    PROVE  WithinLimits(T)
<1>1. IsFiniteSet(T) /\ Cardinality(T) <= Cardinality(S) /\ Cardinality(T) \in Nat /\ Cardinality(S) \in Nat
  BY FS_Subset, FS_CardinalityType DEF WithinLimits
<1>2. ASSUME NEW p \in Peers
      PROVE  Cardinality({e \in T : e.peer = p}) <= MaxEntriesPerPeer
  <2> DEFINE A == {e \in S : e.peer = p}
             B == {e \in T : e.peer = p}
  <2>1. IsFiniteSet(A) /\ B \subseteq A
    BY FS_Subset DEF WithinLimits
  <2>2. Cardinality(B) <= Cardinality(A) /\ Cardinality(B) \in Nat /\ Cardinality(A) \in Nat
    BY <2>1, FS_Subset, FS_CardinalityType
  <2>3. Cardinality(A) <= MaxEntriesPerPeer
    BY DEF WithinLimits
  <2> QED BY <2>2, <2>3, ReassemblyAssumption
<1> QED BY <1>1, <1>2, ReassemblyAssumption DEF WithinLimits

(* Putting a member in the place of another does not enlarge a set. *)
LEMMA ReplaceCard ==
    ASSUME NEW S, IsFiniteSet(S), NEW d \in S, NEW e
    PROVE  LET R == (S \ {d}) \cup {e}
           IN  IsFiniteSet(R) /\ Cardinality(R) <= Cardinality(S)
<1>1. IsFiniteSet(S \ {d}) /\ Cardinality(S \ {d}) = Cardinality(S) - 1
  BY FS_RemoveElement
<1>2. /\ IsFiniteSet((S \ {d}) \cup {e})
      /\ \/ Cardinality((S \ {d}) \cup {e}) = Cardinality(S \ {d})
         \/ Cardinality((S \ {d}) \cup {e}) = Cardinality(S \ {d}) + 1
  BY <1>1, FS_AddElement
<1>3. Cardinality(S) \in Nat
  BY FS_CardinalityType
<1> QED BY <1>1, <1>2, <1>3

(* A partial message may take the place of one of the same peer. *)
LEMMA ReplaceWithin ==
    ASSUME NEW S, WithinLimits(S), NEW d \in S, NEW e, e.peer = d.peer
    PROVE  WithinLimits((S \ {d}) \cup {e})
<1> DEFINE R == (S \ {d}) \cup {e}
<1>1. IsFiniteSet(R) /\ Cardinality(R) <= Cardinality(S)
  BY ReplaceCard DEF WithinLimits
<1>2. ASSUME NEW p \in Peers
      PROVE  Cardinality({x \in R : x.peer = p}) <= MaxEntriesPerPeer
  <2> DEFINE A == {x \in S : x.peer = p}
             B == {x \in R : x.peer = p}
  <2>1. IsFiniteSet(A)
    BY FS_Subset DEF WithinLimits
  <2>2. Cardinality(A) <= MaxEntriesPerPeer /\ Cardinality(A) \in Nat
    BY <2>1, FS_CardinalityType DEF WithinLimits
  <2>3. CASE d.peer = p
    <3>1. B = (A \ {d}) \cup {e} /\ d \in A
      BY <2>3
    <3>2. IsFiniteSet(B) /\ Cardinality(B) <= Cardinality(A)
      <4> HIDE DEF A, B
      <4> QED BY <3>1, <2>1, ReplaceCard
    <3> QED BY <3>2, <2>2, FS_CardinalityType, ReassemblyAssumption
  <2>4. CASE d.peer # p
    <3>1. B \subseteq A
      BY <2>4
    <3>2. Cardinality(B) <= Cardinality(A) /\ Cardinality(B) \in Nat
      BY <3>1, <2>1, FS_Subset, FS_CardinalityType
    <3> QED BY <3>2, <2>2, ReassemblyAssumption
  <2> QED BY <2>3, <2>4
<1>3. Cardinality(R) \in Nat /\ Cardinality(S) \in Nat
  BY <1>1, FS_CardinalityType DEF WithinLimits
<1> QED BY <1>1, <1>2, <1>3, ReassemblyAssumption DEF WithinLimits

(* A new partial message fits where there is room. *)
LEMMA AddWithin ==
    ASSUME NEW S, WithinLimits(S), NEW m \in Messages, Room(S, m), NEW e, e.peer = From[m]
    PROVE  WithinLimits(S \cup {e})
<1>1. /\ IsFiniteSet(S \cup {e}) /\ Cardinality(S) \in Nat
      /\ \/ Cardinality(S \cup {e}) = Cardinality(S)
         \/ Cardinality(S \cup {e}) = Cardinality(S) + 1
  BY FS_AddElement, FS_CardinalityType DEF WithinLimits
<1>2. ASSUME NEW p \in Peers
      PROVE  Cardinality({x \in S \cup {e} : x.peer = p}) <= MaxEntriesPerPeer
  <2> DEFINE A == {x \in S : x.peer = p}
             B == {x \in S \cup {e} : x.peer = p}
  <2>1. IsFiniteSet(A)
    BY FS_Subset DEF WithinLimits
  <2>2. Cardinality(A) \in Nat /\ Cardinality(A) <= MaxEntriesPerPeer
    BY <2>1, FS_CardinalityType DEF WithinLimits
  <2>3. CASE p = From[m]
    <3>1. B = A \cup {e}
      BY <2>3
    <3>2. Cardinality(A) < MaxEntriesPerPeer
      BY <2>3 DEF Room
    <3>3. Cardinality(B) = Cardinality(A) \/ Cardinality(B) = Cardinality(A) + 1
      BY <3>1, <2>1, FS_AddElement
    <3> QED BY <3>2, <3>3, <2>2, ReassemblyAssumption
  <2>4. CASE p # From[m]
    <3>1. B = A
      BY <2>4
    <3> QED BY <3>1, <2>2
  <2> QED BY <2>3, <2>4
<1> QED BY <1>1, <1>2, ReassemblyAssumption DEF WithinLimits, Room

-----------------------------------------------------------------------------
(* What accept_fragment does to the map: it removes partial messages, or puts
   one in the place of another of the same key, or adds one where there is
   room; the chunks it adds or returns are the fragment's and those kept under
   the same key. *)
LEMMA AcceptResult ==
    ASSUME frag_id \in [Messages -> Nat \cup {-1}],
           NEW map \in SUBSET Entry, NEW f \in net
    PROVE  LET r == accept_fragment(map, f)
               m == f.message
           IN  \E now \in Entry :
                 /\ SameKey(now, m)
                 /\ \A c \in now.chunks : c = f \/ \E e \in map : SameKey(e, m) /\ c \in e.chunks
                 /\ \/ r.map \subseteq map /\ r.message \in {{}, now.chunks}
                    \/ /\ r.message = {}
                       /\ \E d \in map : SameKey(d, m) /\ r.map \subseteq (map \ {d}) \cup {now}
                    \/ r.message = {} /\ Room(map, m) /\ r.map = map \cup {now}
<1> DEFINE m == f.message
           known == {e \in map : SameKey(e, m)}
           entry == IF known # {} THEN CHOOSE e \in known : TRUE ELSE NewEntry(m)
           now == insert(entry, f)
           r == accept_fragment(map, f)
<1>1. m \in Messages /\ f \in AllFragments
  BY DEF net, Fragments, AllFragments
<1>2. NewEntry(m) \in Entry /\ SameKey(NewEntry(m), m) /\ NewEntry(m).chunks = {}
  BY <1>1, ReassemblyAssumption DEF NewEntry, Entry, SameKey
<1>3. entry \in Entry /\ SameKey(entry, m) /\ (known # {} => entry \in known)
  BY <1>2
<1>4. \A c \in entry.chunks : \E e \in map : SameKey(e, m) /\ c \in e.chunks
  <2>1. CASE known = {}
    BY <2>1, <1>2
  <2>2. CASE known # {}
    BY <2>2, <1>3
  <2> QED BY <2>1, <2>2
<1>5. /\ now \in Entry /\ SameKey(now, m)
      /\ now.chunks \subseteq entry.chunks \cup {f}
  <2> HIDE DEF entry
  <2>1. CASE \E c \in entry.chunks : c.index = f.index
    BY <2>1, <1>3 DEF insert
  <2>2. CASE ~ \E c \in entry.chunks : c.index = f.index
    <3>1. now = [entry EXCEPT !.chunks = @ \cup {f}]
      BY <2>2 DEF insert
    <3> QED BY <3>1, <1>1, <1>3 DEF Entry, SameKey
  <2> QED BY <2>1, <2>2
<1>6. \/ r.map \subseteq map /\ r.message \in {{}, now.chunks}
      \/ /\ r.message = {}
         /\ \E d \in map : SameKey(d, m) /\ r.map \subseteq (map \ {d}) \cup {now}
      \/ r.message = {} /\ Room(map, m) /\ r.map = map \cup {now}
  <2>1. r = IF known = {} /\ ~Room(map, m) THEN [map |-> map, message |-> {}]
            ELSE IF entry.total # total(m) THEN [map |-> map \ known, message |-> {}]
            ELSE IF complete(now) THEN [map |-> map \ known, message |-> now.chunks]
            ELSE [map |-> (map \ known) \cup {now}, message |-> {}]
    BY DEF accept_fragment
  <2>2. known # {} => entry \in map /\ SameKey(entry, m) /\ entry \in known
    BY <1>3
  <2> HIDE DEF entry, now, r
  <2>3. known = {} => map \ known = map
    OBVIOUS
  <2>4. known # {} => (map \ known) \cup {now} \subseteq (map \ {entry}) \cup {now}
    BY <2>2
  <2>5. CASE r = [map |-> (map \ known) \cup {now}, message |-> {}] /\ (known # {} \/ Room(map, m))
    <3>1. r.message = {} /\ r.map = (map \ known) \cup {now}
      BY <2>5
    <3> QED BY <3>1, <2>2, <2>3, <2>4, <2>5
  <2>6. CASE r.map \subseteq map /\ r.message \in {{}, now.chunks}
    BY <2>6
  <2> QED BY <2>1, <2>5, <2>6
<1> HIDE DEF now, entry, known
<1> QED BY <1>4, <1>5, <1>6

(* Ageing a partial message leaves its key and its chunks. *)
LEMMA AgeResult ==
    ASSUME NEW e \in Entry
    PROVE  LET aged == [e EXCEPT !.old = TRUE]
           IN  aged \in Entry /\ aged.peer = e.peer /\ aged.frag_id = e.frag_id /\ aged.chunks = e.chunks
BY DEF Entry

-----------------------------------------------------------------------------
(* The partial messages have their form, and the map is within the limits. *)
BInv ==
    /\ frag_id \in [Messages -> Nat \cup {-1}] /\ next_frag_id \in [Peers -> Nat]
    /\ reassembly \in SUBSET Entry
    /\ WithinLimits(reassembly)

(* BInv holds at first and every step keeps it. *)
THEOREM LimitsInvariance == Spec => []BInv
<1>1. Init => BInv
  <2> SUFFICES ASSUME Init PROVE BInv
    OBVIOUS
  <2>1. \A p \in Peers : {e \in {} : e.peer = p} = {}
    OBVIOUS
  <2> QED BY <2>1, FS_EmptySet, ReassemblyAssumption DEF Init, BInv, WithinLimits
<1>2. BInv /\ [Next]_vars => BInv'
  <2> SUFFICES ASSUME BInv, [Next]_vars PROVE BInv'
    OBVIOUS
  <2> USE DEF BInv
  <2>1. ASSUME NEW m \in Messages, Send(m) PROVE BInv'
    <3>1. From[m] \in Peers /\ next_frag_id[From[m]] \in Nat /\ next_frag_id[From[m]] + 1 \in Nat
      BY ReassemblyAssumption
    <3>2. frag_id' \in [Messages -> Nat \cup {-1}] /\ next_frag_id' \in [Peers -> Nat]
      BY <3>1, <2>1 DEF Send
    <3> QED BY <3>2, <2>1 DEF Send, WithinLimits
  <2>2. ASSUME NEW p \in Peers, Restart(p) PROVE BInv'
    BY <2>2 DEF Restart, WithinLimits
  <2>3. ASSUME NEW f \in net, Receive(f) PROVE BInv'
    <3>1. CASE UNCHANGED reassembly
      BY <3>1, <2>3 DEF Receive, senders, WithinLimits
    <3>2. ASSUME NEW map \in gc_reassembly(reassembly), reassembly' = accept_fragment(map, f).map
          PROVE  BInv'
      <4> DEFINE m == f.message
                 r == accept_fragment(map, f)
      <4>1. map \subseteq reassembly /\ map \in SUBSET Entry /\ m \in Messages
        BY DEF gc_reassembly, net, Fragments
      <4>2. WithinLimits(map)
        BY <4>1, SubsetWithin
      <4>3. PICK now \in Entry :
              /\ SameKey(now, m)
              /\ \/ r.map \subseteq map
                 \/ \E d \in map : SameKey(d, m) /\ r.map \subseteq (map \ {d}) \cup {now}
                 \/ Room(map, m) /\ r.map = map \cup {now}
        BY <4>1, AcceptResult
      <4>4. WithinLimits(r.map) /\ r.map \subseteq map \cup {now}
        <5> HIDE DEF r, m
        <5>1. CASE r.map \subseteq map
          BY <5>1, <4>2, SubsetWithin
        <5>2. ASSUME NEW d \in map, SameKey(d, m), r.map \subseteq (map \ {d}) \cup {now}
              PROVE  WithinLimits(r.map) /\ r.map \subseteq map \cup {now}
          <6>1. WithinLimits((map \ {d}) \cup {now})
            BY <5>2, <4>2, <4>3, ReplaceWithin DEF SameKey
          <6> QED BY <6>1, <5>2, SubsetWithin
        <5>3. CASE Room(map, m) /\ r.map = map \cup {now}
          BY <5>3, <4>1, <4>2, <4>3, AddWithin DEF SameKey
        <5> QED BY <4>3, <5>1, <5>2, <5>3
      <4>5. WithinLimits(reassembly)' /\ reassembly' \in SUBSET Entry
        BY <3>2, <4>1, <4>3, <4>4 DEF WithinLimits
      <4> QED BY <4>5, <2>3 DEF Receive, senders
    <3> QED BY <2>3, <3>1, <3>2 DEF Receive
  <2>4. ASSUME NEW e \in reassembly, Age(e) PROVE BInv'
    <3> DEFINE aged == [e EXCEPT !.old = TRUE]
    <3>1. aged \in Entry /\ aged.peer = e.peer
      BY AgeResult
    <3>2. WithinLimits((reassembly \ {e}) \cup {aged})
      BY <3>1, ReplaceWithin
    <3>3. reassembly' = (reassembly \ {e}) \cup {aged}
      BY <2>4 DEF Age
    <3> HIDE DEF aged
    <3>4. WithinLimits(reassembly)' /\ reassembly' \in SUBSET Entry
      BY <3>1, <3>2, <3>3 DEF WithinLimits
    <3> QED BY <3>4, <2>4 DEF Age
  <2>5. CASE UNCHANGED vars
    BY <2>5 DEF vars, WithinLimits
  <2> QED BY <2>1, <2>2, <2>3, <2>4, <2>5 DEF Next
<1> QED BY <1>1, <1>2, PTL DEF Spec

(* Whatever is sent, lost or duplicated, and whichever senders restart, the
   node keeps at most MAX_REASSEMBLY_ENTRIES partial messages, and at most
   MAX_REASSEMBLY_ENTRIES_PER_PEER of one peer. *)
THEOREM MemoryBounded == Spec => []Bounded
<1>1. BInv => Bounded
  BY DEF BInv, WithinLimits, Bounded
<1> QED BY <1>1, LimitsInvariance, PTL

-----------------------------------------------------------------------------
(* Until a sender restarts its counter is ahead of the ids given, and no two
   messages of it have the same id; the chunks of a partial message are those
   of messages with its key. *)
UInv ==
    /\ restarts \in [Peers -> Nat]
    /\ \A m \in Messages : restarts[From[m]] = 0 => frag_id[m] < next_frag_id[From[m]]
    /\ \A m, n \in Messages :
          restarts[From[m]] = 0 /\ frag_id[m] # -1 /\ From[m] = From[n] /\ frag_id[m] = frag_id[n]
             => m = n
    /\ \A e \in reassembly : \A c \in e.chunks :
          c.message \in Messages /\ frag_id[c.message] # -1 /\ SameKey(e, c.message)
    /\ assembled \subseteq SUBSET Messages
    /\ Intact

(* UInv holds at first and every step keeps it. *)
LEMMA KeysInvariance == Spec => []UInv
<1>1. Init => UInv
  BY ReassemblyAssumption DEF Init, UInv, Intact
<1>2. BInv /\ UInv /\ [Next]_vars => UInv'
  <2> SUFFICES ASSUME BInv, UInv, [Next]_vars PROVE UInv'
    OBVIOUS
  <2> USE DEF UInv
  <2>1. ASSUME NEW m \in Messages, Send(m) PROVE UInv'
    <3>1. From[m] \in Peers /\ next_frag_id[From[m]] \in Nat /\ From \in [Messages -> Peers]
      BY ReassemblyAssumption DEF BInv
    <3>2. /\ \A n \in Messages : frag_id'[n] = IF n = m THEN next_frag_id[From[m]] ELSE frag_id[n]
          /\ \A p \in Peers : next_frag_id'[p] = IF p = From[m] THEN next_frag_id[p] + 1 ELSE next_frag_id[p]
          /\ frag_id[m] = -1
      BY <2>1, <3>1 DEF Send, BInv
    <3>3. (\A n \in Messages : restarts[From[n]] = 0 => frag_id[n] < next_frag_id[From[n]])'
      BY <3>1, <3>2, <2>1 DEF Send, BInv
    <3>4. \A n, q \in Messages :
            restarts[From[n]] = 0 /\ frag_id'[n] # -1 /\ From[n] = From[q] /\ frag_id'[n] = frag_id'[q]
               => n = q
      BY <3>1, <3>2 DEF BInv
    <3>5. \A e \in reassembly : \A c \in e.chunks :
            c.message \in Messages /\ frag_id'[c.message] # -1 /\ SameKey(e, c.message)'
      BY <3>2 DEF SameKey
    <3> QED BY <3>3, <3>4, <3>5, <2>1 DEF Send, Intact
  <2>2. ASSUME NEW p \in Peers, Restart(p) PROVE UInv'
    <3>1. /\ restarts' \in [Peers -> Nat]
          /\ \A o \in Peers : restarts'[o] = 0 => restarts[o] = 0 /\ next_frag_id'[o] = next_frag_id[o]
      BY <2>2 DEF Restart, BInv
    <3>2. \A m \in Messages : From[m] \in Peers
      BY ReassemblyAssumption
    <3>3. UNCHANGED <<frag_id, reassembly, assembled>>
      BY <2>2 DEF Restart
    <3>4. Intact'
      BY <3>1, <3>2, <3>3 DEF Intact
    <3>5. (\A m \in Messages : restarts[From[m]] = 0 => frag_id[m] < next_frag_id[From[m]])'
      BY <3>1, <3>2, <3>3
    <3>6. (\A m, n \in Messages :
             restarts[From[m]] = 0 /\ frag_id[m] # -1 /\ From[m] = From[n] /\ frag_id[m] = frag_id[n]
                => m = n)'
      BY <3>1, <3>2, <3>3
    <3> QED BY <3>1, <3>3, <3>4, <3>5, <3>6 DEF SameKey
  <2>3. ASSUME NEW f \in net, Receive(f) PROVE UInv'
    <3> DEFINE m == f.message
    <3>1. m \in Messages /\ frag_id[m] # -1
      BY DEF net, Fragments
    <3>2. UNCHANGED <<next_frag_id, frag_id, restarts>>
      BY <2>3 DEF Receive, senders
    <3>3. CASE UNCHANGED reassembly /\ assembled' \in {assembled, assembled \cup {{m}}}
      <4>1. Intact' /\ assembled' \subseteq SUBSET Messages
        BY <3>1, <3>2, <3>3 DEF Intact
      <4> QED BY <4>1, <3>2, <3>3 DEF SameKey
    <3>4. ASSUME NEW map \in gc_reassembly(reassembly),
                 reassembly' = accept_fragment(map, f).map,
                 assembled' = IF accept_fragment(map, f).message = {} THEN assembled
                              ELSE assembled \cup {Sources(accept_fragment(map, f).message)}
          PROVE  UInv'
      <4> DEFINE r == accept_fragment(map, f)
      <4>1. map \subseteq reassembly /\ map \in SUBSET Entry
        BY DEF gc_reassembly, BInv
      <4>2. PICK now \in Entry :
              /\ SameKey(now, m)
              /\ \A c \in now.chunks : c = f \/ \E e \in map : SameKey(e, m) /\ c \in e.chunks
              /\ r.map \subseteq map \cup {now}
              /\ r.message \in {{}, now.chunks}
        BY <4>1, AcceptResult DEF BInv
      <4>3. \A c \in now.chunks :
              c.message \in Messages /\ frag_id[c.message] # -1 /\ SameKey(now, c.message)
        BY <3>1, <4>1, <4>2 DEF SameKey
      <4>4. \A c \in now.chunks : From[c.message] = From[m] /\ (restarts[From[m]] = 0 => c.message = m)
        BY <3>1, <4>2, <4>3 DEF SameKey
      <4>5. Intact' /\ assembled' \subseteq SUBSET Messages
        <5>1. CASE r.message = {}
          BY <5>1, <3>2, <3>4 DEF Intact
        <5>2. CASE r.message # {}
          <6>1. \A n \in Sources(r.message) :
                  n \in Messages /\ From[n] = From[m] /\ (restarts[From[m]] = 0 => n = m)
            BY <5>2, <4>2, <4>3, <4>4 DEF Sources
          <6>2. assembled' = assembled \cup {Sources(r.message)}
            BY <5>2, <3>4
          <6> HIDE DEF r
          <6> QED BY <6>1, <6>2, <3>2 DEF Intact
        <5> QED BY <5>1, <5>2
      <4>6. \A e \in reassembly' : \A c \in e.chunks :
              c.message \in Messages /\ frag_id[c.message] # -1 /\ SameKey(e, c.message)
        BY <3>4, <4>1, <4>2, <4>3
      <4> QED BY <4>5, <4>6, <3>2 DEF SameKey
    <3> QED BY <2>3, <3>3, <3>4 DEF Receive
  <2>4. ASSUME NEW e \in reassembly, Age(e) PROVE UInv'
    <3> DEFINE aged == [e EXCEPT !.old = TRUE]
    <3>1. aged.peer = e.peer /\ aged.frag_id = e.frag_id /\ aged.chunks = e.chunks
      BY AgeResult DEF BInv
    <3>2. reassembly' = (reassembly \ {e}) \cup {aged}
      BY <2>4 DEF Age
    <3> HIDE DEF aged
    <3>3. \A d \in reassembly' : \A c \in d.chunks :
            c.message \in Messages /\ frag_id[c.message] # -1 /\ SameKey(d, c.message)
      BY <3>1, <3>2 DEF SameKey
    <3> QED BY <3>3, <2>4 DEF Age, SameKey, Intact
  <2>5. CASE UNCHANGED vars
    BY <2>5 DEF vars, SameKey, Intact
  <2> QED BY <2>1, <2>2, <2>3, <2>4, <2>5 DEF Next
<1> QED BY <1>1, <1>2, LimitsInvariance, PTL DEF Spec

(* A message put together is one message that was sent, however its fragments
   were lost, repeated or mixed with others: the key of the map and the counter
   of the sender keep them apart, until that sender restarts; and never does it
   mix those of two senders. *)
THEOREM MessagesIntact == Spec => []Intact
<1>1. UInv => Intact
  BY DEF UInv
<1> QED BY <1>1, KeysInvariance, PTL
-----------------------------------------------------------------------------
(* A partial message has the key and the total of a message that was sent, and
   chunks that were sent. *)
Sent(e) ==
    /\ \E m \in Messages : frag_id[m] # -1 /\ SameKey(e, m) /\ e.total = total(m)
    /\ e.chunks \subseteq net

(* It has a chunk for an index at most once, and not all of them. *)
IsPartial(e) == ~complete(e) /\ \A c, d \in e.chunks : c.index = d.index => c = d

(* No two have the same key. *)
OneForKey(S) == \A d, e \in S : d.peer = e.peer /\ d.frag_id = e.frag_id => d = e

SInv ==
    /\ \A e \in reassembly : Sent(e) /\ IsPartial(e)
    /\ OneForKey(reassembly)
    /\ refused \subseteq Messages

(* accept_fragment keeps all of this: what it removes goes with its key, and
   what it adds is under the key of the fragment, which nothing else has. *)
LEMMA AcceptPartial ==
    ASSUME frag_id \in [Messages -> Nat \cup {-1}],
           NEW map \in SUBSET Entry, NEW f \in net,
           \A e \in map : Sent(e) /\ IsPartial(e), OneForKey(map)
    PROVE  LET S == accept_fragment(map, f).map
           IN  (\A e \in S : Sent(e) /\ IsPartial(e)) /\ OneForKey(S)
<1> DEFINE m == f.message
           known == {e \in map : SameKey(e, m)}
           entry == IF known # {} THEN CHOOSE e \in known : TRUE ELSE NewEntry(m)
           now == insert(entry, f)
           S == accept_fragment(map, f).map
<1>1. m \in Messages /\ frag_id[m] # -1 /\ f \in AllFragments
  BY DEF net, Fragments, AllFragments
<1>2. NewEntry(m) \in Entry /\ SameKey(NewEntry(m), m) /\ NewEntry(m).chunks = {} /\ NewEntry(m).total = total(m)
  BY <1>1, ReassemblyAssumption DEF NewEntry, Entry, SameKey
<1>3. /\ entry \in Entry /\ SameKey(entry, m) /\ entry.chunks \subseteq net
      /\ \A c, d \in entry.chunks : c.index = d.index => c = d
  <2>1. CASE known = {}
    BY <2>1, <1>2
  <2>2. CASE known # {}
    <3>1. entry \in known
      BY <2>2
    <3> QED BY <3>1 DEF Sent, IsPartial
  <2> QED BY <2>1, <2>2
<1>4. S \in {map, map \ known} \/ (S = (map \ known) \cup {now} /\ entry.total = total(m) /\ ~complete(now))
  <2> HIDE DEF entry, now, known
  <2>1. accept_fragment(map, f) =
           IF known = {} /\ ~Room(map, m) THEN [map |-> map, message |-> {}]
           ELSE IF entry.total # total(m) THEN [map |-> map \ known, message |-> {}]
           ELSE IF complete(now) THEN [map |-> map \ known, message |-> now.chunks]
           ELSE [map |-> (map \ known) \cup {now}, message |-> {}]
    BY DEF accept_fragment, entry, now, known
  <2> QED BY <2>1
<1>5. /\ now.peer = entry.peer /\ now.frag_id = entry.frag_id /\ now.total = entry.total
      /\ now.chunks \subseteq net
      /\ \A c, d \in now.chunks : c.index = d.index => c = d
  <2> HIDE DEF entry
  <2>1. CASE \E c \in entry.chunks : c.index = f.index
    <3>1. now = entry
      BY <2>1 DEF insert
    <3> QED BY <3>1, <1>3
  <2>2. CASE ~ \E c \in entry.chunks : c.index = f.index
    <3>1. now = [entry EXCEPT !.chunks = @ \cup {f}]
      BY <2>2 DEF insert
    <3>2. /\ now.peer = entry.peer /\ now.frag_id = entry.frag_id /\ now.total = entry.total
          /\ now.chunks = entry.chunks \cup {f}
      BY <3>1, <1>3 DEF Entry
    <3> QED BY <3>2, <2>2, <1>3
  <2> QED BY <2>1, <2>2
<1> SUFFICES (\A e \in S : Sent(e) /\ IsPartial(e)) /\ OneForKey(S)
  OBVIOUS
<1> HIDE DEF now, entry, S
<1>6. CASE S \in {map, map \ known}
  BY <1>6 DEF OneForKey
<1>7. CASE S = (map \ known) \cup {now} /\ entry.total = total(m) /\ ~complete(now)
  <2>1. SameKey(now, m) /\ now.total = total(m)
    BY <1>3, <1>5, <1>7 DEF SameKey
  <2>2. Sent(now) /\ IsPartial(now)
    BY <1>1, <1>5, <1>7, <2>1 DEF Sent, IsPartial
  <2>3. \A e \in map \ known : ~(e.peer = now.peer /\ e.frag_id = now.frag_id)
    BY <2>1 DEF SameKey
  <2> QED BY <1>7, <2>2, <2>3 DEF OneForKey
<1> QED BY <1>4, <1>6, <1>7

(* A message that is sent leaves what was sent before. *)
LEMMA SentStays ==
    ASSUME NEW e, Sent(e),
           \A m \in Messages : frag_id[m] # -1 => frag_id'[m] = frag_id[m]
    PROVE  Sent(e)'
<1>1. net \subseteq net'
  BY DEF net
<1> QED BY <1>1 DEF Sent, SameKey

(* SInv holds at first and every step keeps it. *)
LEMMA PartialInvariance == Spec => []SInv
<1>1. Init => SInv
  BY DEF Init, SInv, OneForKey
<1>2. BInv /\ SInv /\ [Next]_vars => SInv'
  <2> SUFFICES ASSUME BInv, SInv, [Next]_vars PROVE SInv'
    OBVIOUS
  <2> USE DEF SInv
  <2>1. ASSUME UNCHANGED <<reassembly, refused>>,
               \A m \in Messages : frag_id[m] # -1 => frag_id'[m] = frag_id[m]
        PROVE  SInv'
    <3>1. \A e \in reassembly : Sent(e)'
      BY <2>1, SentStays
    <3>2. \A e \in reassembly : IsPartial(e)'
      BY DEF IsPartial, complete
    <3> QED BY <2>1, <3>1, <3>2 DEF OneForKey
  <2>2. ASSUME NEW m \in Messages, Send(m) PROVE SInv'
    <3>1. \A n \in Messages : frag_id[n] # -1 => frag_id'[n] = frag_id[n]
      BY <2>2 DEF Send, BInv
    <3> QED BY <2>1, <2>2, <3>1 DEF Send
  <2>3. ASSUME NEW p \in Peers, Restart(p) PROVE SInv'
    BY <2>1, <2>3 DEF Restart
  <2>4. ASSUME NEW f \in net, Receive(f) PROVE SInv'
    <3>0. UNCHANGED frag_id /\ f.message \in Messages
      BY <2>4 DEF Receive, senders, net, Fragments
    <3>1. CASE UNCHANGED reassembly
      <4>1. \A e \in reassembly : Sent(e)' /\ IsPartial(e)'
        BY <3>0, SentStays DEF IsPartial, complete
      <4>2. refused' \subseteq Messages
        BY <2>4, <3>0 DEF Receive
      <4> QED BY <3>1, <4>1, <4>2 DEF OneForKey
    <3>2. ASSUME NEW map \in gc_reassembly(reassembly), reassembly' = accept_fragment(map, f).map,
                 UNCHANGED refused
          PROVE  SInv'
      <4>1. map \subseteq reassembly /\ map \in SUBSET Entry
        BY DEF gc_reassembly, BInv
      <4>2. OneForKey(map) /\ \A e \in map : Sent(e) /\ IsPartial(e)
        BY <4>1 DEF OneForKey
      <4>3. (\A e \in reassembly' : Sent(e) /\ IsPartial(e)) /\ OneForKey(reassembly')
        BY <3>2, <4>1, <4>2, AcceptPartial DEF BInv
      <4>4. \A e \in reassembly' : Sent(e)' /\ IsPartial(e)'
        BY <3>0, <4>3, SentStays DEF IsPartial, complete
      <4> QED BY <3>2, <4>3, <4>4 DEF OneForKey
    <3> QED BY <2>4, <3>1, <3>2 DEF Receive
  <2>5. ASSUME NEW e \in reassembly, Age(e) PROVE SInv'
    <3> DEFINE aged == [e EXCEPT !.old = TRUE]
    <3>1. /\ aged.peer = e.peer /\ aged.frag_id = e.frag_id /\ aged.chunks = e.chunks
          /\ aged.total = e.total
      BY DEF BInv, Entry
    <3>2. reassembly' = (reassembly \ {e}) \cup {aged} /\ UNCHANGED <<frag_id, refused>>
      BY <2>5 DEF Age
    <3> HIDE DEF aged
    <3>3. Sent(aged) /\ IsPartial(aged)
      BY <3>1 DEF Sent, SameKey, IsPartial, complete
    <3>4. \A d \in reassembly' : Sent(d)' /\ IsPartial(d)'
      BY <3>2, <3>3, SentStays DEF IsPartial, complete
    <3>5. OneForKey(reassembly')
      BY <3>1, <3>2 DEF OneForKey
    <3> QED BY <3>2, <3>4, <3>5 DEF OneForKey
  <2>6. CASE UNCHANGED vars
    BY <2>1, <2>6 DEF vars
  <2> QED BY <2>2, <2>3, <2>4, <2>5, <2>6 DEF Next
<1> QED BY <1>1, <1>2, LimitsInvariance, PTL DEF Spec

(* Whatever arrives, the map of partial messages is well-typed and within its
   limits, and holds no message that is complete and no key twice. *)
THEOREM MapIsSound == Spec => []MapSound
<1>1. BInv /\ UInv /\ SInv => MapSound
  <2> SUFFICES ASSUME BInv, UInv, SInv PROVE MapSound
    OBVIOUS
  <2>1. Bounded
    BY DEF BInv, WithinLimits, Bounded
  <2>2. OnlyPartial
    BY DEF SInv, OnlyPartial, IsPartial, OneForKey
  <2>3. ASSUME NEW e \in reassembly
        PROVE  /\ \E m \in Messages : /\ frag_id[m] # -1 /\ SameKey(e, m)
                                      /\ e = [NewEntry(m) EXCEPT !.chunks = e.chunks, !.old = e.old]
               /\ e.chunks \subseteq net /\ e.old \in BOOLEAN
    <3>1. e \in Entry
      BY DEF BInv
    <3>2. PICK m \in Messages : frag_id[m] # -1 /\ SameKey(e, m) /\ e.total = total(m)
      BY DEF SInv, Sent
    <3> DEFINE n == NewEntry(m)
               x == [n EXCEPT !.chunks = e.chunks, !.old = e.old]
    <3>3. n \in Entry /\ n.peer = e.peer /\ n.frag_id = e.frag_id /\ n.total = e.total
      BY <3>1, <3>2, ReassemblyAssumption DEF NewEntry, SameKey, Entry
    <3> HIDE DEF n
    <3>4. x \in Entry
      BY <3>1, <3>3 DEF Entry
    <3>5. /\ x.peer = e.peer /\ x.frag_id = e.frag_id /\ x.total = e.total
          /\ x.chunks = e.chunks /\ x.old = e.old
      BY <3>1, <3>3 DEF Entry
    <3>6. x = e
      <4> HIDE DEF x
      <4> QED BY <3>1, <3>4, <3>5 DEF Entry
    <3>7. \E k \in Messages : /\ frag_id[k] # -1 /\ SameKey(e, k)
                              /\ e = [NewEntry(k) EXCEPT !.chunks = e.chunks, !.old = e.old]
      BY <3>2, <3>6 DEF n
    <3> QED BY <3>1, <3>7 DEF SInv, Sent, Entry
  <2>4. TypeOK
    BY <2>3 DEF TypeOK, BInv, UInv, SInv
  <2> QED BY <2>1, <2>2, <2>4 DEF MapSound
<1> QED BY <1>1, LimitsInvariance, KeysInvariance, PartialInvariance, PTL
=============================================================================
