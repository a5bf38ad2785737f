----------------------------- MODULE Reassembly -----------------------------
(***************************************************************************)
(* Fragments of large messages over UDP (src/src/fragmentation.rs and its  *)
(* use in src/src/protocol/transport.rs): a node receives the fragments of *)
(* many messages, lost, duplicated and in any order, and puts the messages *)
(* together within fixed limits.                                           *)
(*                                                                         *)
(* A fragment carries the message it was cut from, to tell what a message  *)
(* put together is made of; the receiver only sees its header.  A datagram *)
(* stays in the network once sent: it may arrive again (the network's      *)
(* duplicate, or the copy of a resend, which is the same datagrams), or    *)
(* never (lost, or the sending failed).                                    *)
(***************************************************************************)
EXTENDS Integers, FiniteSets

CONSTANTS
    Messages,          \* the messages that may be sent, each once
    Peers,             \* the addresses they are sent from
    From,              \* the address of the sender of each
    Size,              \* the bytes of each
    FragChunkSize,     \* FRAG_CHUNK_SIZE: 1400
    MaxMessageSize,    \* MAX_MESSAGE_SIZE: 262144
    MaxEntries,        \* MAX_REASSEMBLY_ENTRIES: 64
    MaxEntriesPerPeer, \* MAX_REASSEMBLY_ENTRIES_PER_PEER: 8
    MaxRestarts        \* bound: restarts of each sender

ASSUME ReassemblyAssumption ==
    /\ From \in [Messages -> Peers]
    /\ Size \in [Messages -> Nat \ {0}]
    /\ FragChunkSize \in Nat \ {0} /\ MaxMessageSize \in Nat
    /\ MaxEntries \in Nat /\ MaxEntriesPerPeer \in Nat /\ MaxRestarts \in [Peers -> Nat]

VARIABLES
    next_frag_id, \* each sender's counter
    frag_id,      \* the fragment id of each message; -1 while it is not sent
    restarts,     \* how often each sender restarted
    reassembly,   \* the partial messages: [peer, frag_id, total, chunks, old]
    refused,      \* history: messages discarded for their size
    assembled     \* history: the messages each put-together one is made of

senders == <<next_frag_id, frag_id, restarts>>
vars == <<next_frag_id, frag_id, restarts, reassembly, refused, assembled>>

-----------------------------------------------------------------------------
(* encode_fragments: the number of fragments, ceil(len / FRAG_CHUNK_SIZE). *)
total(m) == (Size[m] + FragChunkSize - 1) \div FragChunkSize

Fragments(m) == {[message |-> m, index |-> i] : i \in 0..(total(m) - 1)}

(* The datagrams that may arrive. *)
net == UNION {Fragments(m) : m \in {n \in Messages : frag_id[n] # -1}}

(* Mutant: the key is the fragment id alone. *)
SameFragId(e, m) == e.frag_id = frag_id[m]

(* The reassembly map's key: the sender's address and the fragment id. *)
SameKey(e, m) == e.peer = From[m] /\ e.frag_id = frag_id[m]

NewEntry(m) ==
    [peer |-> From[m], frag_id |-> frag_id[m], total |-> total(m), chunks |-> {}, old |-> FALSE]

Init ==
    /\ next_frag_id = [p \in Peers |-> 0]
    /\ frag_id = [m \in Messages |-> -1]
    /\ restarts = [p \in Peers |-> 0]
    /\ reassembly = {} /\ refused = {} /\ assembled = {}

(* encode_frame and send_datagrams: too large a message is not sent. *)
Send(m) ==
    /\ frag_id[m] = -1 /\ Size[m] <= MaxMessageSize
    /\ frag_id' = [frag_id EXCEPT ![m] = next_frag_id[From[m]]]
    /\ next_frag_id' = [next_frag_id EXCEPT ![From[m]] = @ + 1]
    /\ UNCHANGED <<restarts, reassembly, refused, assembled>>

(* The sender stops and starts again at the same address: KademliaProtocol::new
   counts from 0. *)
Restart(p) ==
    /\ restarts[p] < MaxRestarts[p]
    /\ restarts' = [restarts EXCEPT ![p] = @ + 1]
    /\ next_frag_id' = [next_frag_id EXCEPT ![p] = 0]
    /\ UNCHANGED <<frag_id, reassembly, refused, assembled>>

(* A new partial message fits within the limits. *)
Room(map, m) ==
    /\ Cardinality(map) < MaxEntries
    /\ Cardinality({e \in map : e.peer = From[m]}) < MaxEntriesPerPeer

(* ReassemblyEntry::insert: the first chunk of an index stays. *)
insert(e, f) ==
    IF \E c \in e.chunks : c.index = f.index THEN e
    ELSE [e EXCEPT !.chunks = @ \cup {f}]

complete(e) == Cardinality(e.chunks) = e.total

(* Mutant: the entry of a complete message stays. *)
KeepComplete(map, f) ==
    LET m == f.message
        known == {e \in map : SameKey(e, m)}
        entry == IF known # {} THEN CHOOSE e \in known : TRUE ELSE NewEntry(m)
        now == insert(entry, f)
    IN  IF known = {} /\ ~Room(map, m) THEN [map |-> map, message |-> {}]
        ELSE IF entry.total # total(m) THEN [map |-> map \ known, message |-> {}]
        ELSE [map |-> (map \ known) \cup {now}, message |-> IF complete(now) THEN now.chunks ELSE {}]

(* What the map becomes, and the chunks of the message that is complete. *)
accept_fragment(map, f) ==
    LET m == f.message
        known == {e \in map : SameKey(e, m)}
        entry == IF known # {} THEN CHOOSE e \in known : TRUE ELSE NewEntry(m)
        now == insert(entry, f)
    IN  IF known = {} /\ ~Room(map, m) THEN [map |-> map, message |-> {}]
        ELSE IF entry.total # total(m) THEN [map |-> map \ known, message |-> {}]
        ELSE IF complete(now) THEN [map |-> map \ known, message |-> now.chunks]
        ELSE [map |-> (map \ known) \cup {now}, message |-> {}]

(* gc_reassembly: partial messages past their time go, unless the last pass
   was less than an interval ago. *)
gc_reassembly(map) == {map, {e \in map : ~e.old}}

Sources(chunks) == {c.message : c \in chunks}

(* handle_datagram, up to the decoding of the message. *)
Receive(f) ==
    /\ f \in net
    /\ UNCHANGED senders
    /\ \/ /\ total(f.message) = 1
          /\ assembled' = assembled \cup {{f.message}}
          /\ UNCHANGED <<reassembly, refused>>
       \/ /\ total(f.message) > 1 /\ total(f.message) * FragChunkSize > MaxMessageSize
          /\ refused' = refused \cup {f.message}
          /\ UNCHANGED <<reassembly, assembled>>
       \/ /\ total(f.message) > 1 /\ total(f.message) * FragChunkSize <= MaxMessageSize
          /\ \E map \in gc_reassembly(reassembly) :
                LET r == accept_fragment(map, f)
                IN  /\ reassembly' = r.map
                    /\ assembled' = IF r.message = {} THEN assembled
                                    ELSE assembled \cup {Sources(r.message)}
          /\ UNCHANGED refused

(* REASSEMBLY_TTL passes for a partial message. *)
Age(e) ==
    /\ e \in reassembly /\ ~e.old
    /\ reassembly' = (reassembly \ {e}) \cup {[e EXCEPT !.old = TRUE]}
    /\ UNCHANGED <<next_frag_id, frag_id, restarts, refused, assembled>>

Next ==
    \/ \E m \in Messages : Send(m)
    \/ \E p \in Peers : Restart(p)
    \/ \E f \in net : Receive(f)
    \/ \E e \in reassembly : Age(e)

Spec == Init /\ [][Next]_vars

-----------------------------------------------------------------------------
(* The type invariant: a partial message has the key and the total of a
   message that was sent, and chunks that were sent. *)
TypeOK ==
    /\ next_frag_id \in [Peers -> Nat] /\ restarts \in [Peers -> Nat]
    /\ frag_id \in [Messages -> Nat \cup {-1}]
    /\ \A e \in reassembly :
          /\ \E m \in Messages : frag_id[m] # -1 /\ SameKey(e, m) /\ e = [NewEntry(m) EXCEPT !.chunks = e.chunks, !.old = e.old]
          /\ e.chunks \subseteq net /\ e.old \in BOOLEAN
    /\ refused \subseteq Messages /\ assembled \subseteq SUBSET Messages

(* Memory is bounded: never more partial messages than the limits allow, in
   all and for each peer. *)
Bounded ==
    /\ Cardinality(reassembly) <= MaxEntries
    /\ \A p \in Peers : Cardinality({e \in reassembly : e.peer = p}) <= MaxEntriesPerPeer

(* The map holds one entry for a key, a chunk for an index at most once, and
   never a message that is complete: it would block its key for good. *)
OnlyPartial ==
    /\ \A d, e \in reassembly : d.peer = e.peer /\ d.frag_id = e.frag_id => d = e
    /\ \A e \in reassembly : ~complete(e) /\ \A c, d \in e.chunks : c.index = d.index => c = d

(* The map of partial messages after any datagrams: well-typed, within its
   limits, and without anything that blocks a key (accept_fragment). *)
MapSound == TypeOK /\ Bounded /\ OnlyPartial

(* A message put together is one that was sent, never parts of two; a sender
   that has restarted may mix its own, as its fragment ids start again
   (accept_fragment, KademliaProtocol::new), and never those of others. *)
Intact ==
    \A sources \in assembled : \A m, n \in sources :
       From[m] = From[n] /\ (restarts[From[m]] = 0 => m = n)

(* What a node may send, another receives: no message that encode_frame lets
   through is discarded for its size. *)
LegalSizeReceived == \A m \in refused : Size[m] > MaxMessageSize
=============================================================================
