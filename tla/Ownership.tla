------------------------------ MODULE Ownership ------------------------------
(***************************************************************************)
(* The owner of a DID: the commands of a testbed node that create it,      *)
(* publish its record, rotate its keys and give up (testbed/node.rs,       *)
(* testbed/did.rs), over the operations of a server                        *)
(* (src/src/network/publish.rs, src/src/network/update.rs) and the         *)
(* replicas of its consistency group.                                      *)
(*                                                                         *)
(* The lock of the identity is held during a command, so commands follow   *)
(* each other, but a request of an earlier one may arrive late or twice,   *)
(* and answers are lost until the network is stable.  Versions of the      *)
(* record are numbered as their keys are made.  A new DID has another key  *)
(* in the network: what was stored for the former one is left out.         *)
(***************************************************************************)
EXTENDS Integers, FiniteSets

CONSTANTS
    Group,       \* the replicas: the consistency group
    Owners,      \* the nodes that the owner may be at, one of them or not
    Made,        \* versions that the owner makes (bound)
    MaxLate      \* requests that are late at once (bound)

ASSUME OwnershipAssumption == Made \in Nat \ {0} /\ MaxLate \in Nat

Nothing == 0                \* no version
Versions == 1..Made
Quorum == Cardinality(Group) \div 2 + 1

VARIABLES
    own,        \* the node of the owner
    identity,   \* [current, pending], versions or Nothing
    made,       \* versions made so far
    prev,       \* version -> the version whose key authorises it, or Nothing
    stored,     \* replica -> the version it holds
    operation,  \* what the command is doing: [kind, version, todo, acks]
    late,       \* requests that may still arrive: [to, kind, version]
    discarded,  \* rotations that the owner gave up
    stable      \* the network loses no message any more

ownerVars == <<own, identity, made, prev, stored, operation, late, discarded, stable>>

Remote == Group \ {own}
NoIdentity == [current |-> Nothing, pending |-> Nothing]
Resting == [kind |-> "none", version |-> Nothing, todo |-> {}, acks |-> {}]
StoredVersions == {stored[r] : r \in Group} \ {Nothing}

(* Version::generate: keys that nobody else has, and the record signed by them. *)
generate(authoriser) ==
    /\ made < Made /\ made' = made + 1
    /\ prev' = [prev EXCEPT ![made + 1] = authoriser]

(* Server.get: the own copy, or the first that a lookup finds. *)
Found == IF own \in Group /\ stored[own] # Nothing THEN {stored[own]} ELSE StoredVersions \cup {Nothing}

-----------------------------------------------------------------------------
(* The requests.  A STORE to an empty replica is refused when another of them
   holds another version; an UPDATE is for a replica that holds the version
   that authorises it, and a replica that refuses it is sent a STORE. *)
rpc_store(r, v) ==
    IF stored[r] = Nothing /\ \A o \in Group \ {r} : stored[o] \in {Nothing, v} THEN v ELSE stored[r]

rpc_update(r, v) == IF stored[r] # Nothing /\ stored[r] = prev[v] THEN v ELSE stored[r]

Handled(r, kind, v) ==
    IF kind = "publish" \/ stored[r] = Nothing THEN rpc_store(r, v) ELSE rpc_update(r, v)

Request(r) == [to |-> r, kind |-> operation.kind, version |-> operation.version]

Postponed(r) == Cardinality(late) < MaxLate /\ late' = late \cup {Request(r)}

(* It arrives and is answered; a copy of it may come again. *)
Answer(r) ==
    /\ r \in operation.todo
    /\ LET v == Handled(r, operation.kind, operation.version)
       IN  /\ stored' = [stored EXCEPT ![r] = v]
           /\ operation' = [operation EXCEPT !.todo = @ \ {r},
                                             !.acks = @ \cup {o \in {r} : v = operation.version}]
    /\ \/ late' = late
       \/ ~stable /\ Postponed(r)
    /\ UNCHANGED <<own, identity, made, prev, discarded, stable>>

(* No answer in time: the request, or its answer, is late or lost. *)
Unanswered(r) ==
    /\ ~stable /\ r \in operation.todo
    /\ operation' = [operation EXCEPT !.todo = @ \ {r}]
    /\ UNCHANGED late \/ Postponed(r)
    /\ UNCHANGED <<own, identity, made, prev, stored, discarded, stable>>

Arrives(q) ==
    /\ late' = late \ {q}
    /\ stored' = [stored EXCEPT ![q.to] = Handled(q.to, q.kind, q.version)]
    /\ UNCHANGED <<own, identity, made, prev, operation, discarded, stable>>

(* schedule_refresh: a replica sends what it holds to the others (RecordLife). *)
Republish(r, o) ==
    /\ stored[r] # Nothing /\ rpc_store(o, stored[r]) # stored[o]
    /\ stored' = [stored EXCEPT ![o] = rpc_store(o, stored[r])]
    /\ UNCHANGED <<own, identity, made, prev, operation, late, discarded, stable>>

Stabilise == ~stable /\ stable' = TRUE /\ UNCHANGED <<own, identity, made, prev, stored, operation, late, discarded>>

-----------------------------------------------------------------------------
Free == operation.kind = "none"

(* new_identity and forget: the former DID is dropped. *)
new_identity ==
    /\ Free /\ generate(Nothing)
    /\ identity' = [current |-> made + 1, pending |-> Nothing]
    /\ stored' = [r \in Group |-> Nothing] /\ late' = {} /\ discarded' = {}
    /\ UNCHANGED <<own, operation, stable>>

forget ==
    /\ Free /\ identity # NoIdentity /\ identity' = NoIdentity
    /\ stored' = [r \in Group |-> Nothing] /\ late' = {} /\ discarded' = {}
    /\ UNCHANGED <<own, made, prev, operation, stable>>

(* publish: a DID is made on first use; set_detailed ends when another version
   is found, and else stores the own copy and sends the others. *)
publish ==
    /\ Free
    /\ IF identity = NoIdentity
         THEN generate(Nothing) /\ identity' = [current |-> made + 1, pending |-> Nothing]
         ELSE UNCHANGED <<identity, made, prev>>
    /\ \E found \in Found :
          IF found \in {Nothing, identity'.current}
          THEN /\ operation' = [kind |-> "publish", version |-> identity'.current, todo |-> Remote, acks |-> {}]
               /\ stored' = [r \in Group |->
                     IF r = own /\ stored[r] = Nothing THEN identity'.current ELSE stored[r]]
          ELSE UNCHANGED <<operation, stored>>
    /\ UNCHANGED <<own, late, discarded, stable>>

(* Mutant: every attempt makes new keys. *)
AnotherRotation ==
    /\ generate(identity.current) /\ identity' = [identity EXCEPT !.pending = made + 1]

(* The rotation that was not confirmed, as it is, or a new one. *)
rotation ==
    IF identity.pending # Nothing THEN UNCHANGED <<identity, made, prev>>
    ELSE generate(identity.current) /\ identity' = [identity EXCEPT !.pending = made + 1]

(* Mutant: a retry must find the version that authorises it. *)
Unapplied(old, v) == old = prev'[v]

(* Server.update: the version it replaces, or the new one itself, applied by an
   earlier attempt. *)
Applicable(old, v) == old \in {v, prev'[v]}

update ==
    /\ Free /\ identity # NoIdentity
    /\ rotation
    /\ \E old \in Found :
          IF old # Nothing /\ Applicable(old, identity'.pending)
          THEN operation' = [kind |-> "update", version |-> identity'.pending, todo |-> Remote, acks |-> {}]
          ELSE UNCHANGED operation
    /\ UNCHANGED <<own, stored, late, discarded, stable>>

(* The answers are counted, with the vote of the own copy, which is written
   when there are enough; the new keys are then the current ones. *)
Concludes ==
    /\ ~Free /\ operation.todo = {}
    /\ operation' = Resting
    /\ IF operation.kind = "update" /\ Cardinality(operation.acks \cup (Group \ Remote)) >= Quorum
         THEN /\ identity' = [current |-> identity.pending, pending |-> Nothing]
              /\ stored' = [r \in Group |-> IF r = own THEN identity.pending ELSE stored[r]]
         ELSE UNCHANGED <<identity, stored>>
    /\ UNCHANGED <<own, made, prev, late, discarded, stable>>

discard ==
    /\ Free /\ identity.pending # Nothing
    /\ identity' = [identity EXCEPT !.pending = Nothing]
    /\ discarded' = discarded \cup {identity.pending}
    /\ UNCHANGED <<own, made, prev, stored, operation, late, stable>>

OwnerInit ==
    /\ own \in Owners
    /\ identity = NoIdentity /\ made = 0 /\ prev = [v \in Versions |-> Nothing]
    /\ stored = [r \in Group |-> Nothing] /\ operation = Resting
    /\ late = {} /\ discarded = {} /\ stable = FALSE

OwnerNext ==
    \/ new_identity \/ forget \/ publish \/ update \/ discard \/ Concludes \/ Stabilise
    \/ \E r \in Group : Answer(r) \/ Unanswered(r)
    \/ \E r, o \in Group : Republish(r, o)
    \/ \E q \in late : Arrives(q)

(* Once the network is stable every request is answered, and republication is
   repeated every hour; an owner retries the rotation that was not confirmed,
   and the record that update reads first is not for ever one that it cannot
   replace. *)
OwnerFairness ==
    /\ WF_ownerVars(Concludes)
    /\ WF_ownerVars(\E r \in Group : Answer(r)) /\ WF_ownerVars(\E q \in late : Arrives(q))
    /\ SF_ownerVars(\E r, o \in Group : Republish(r, o))
    /\ SF_ownerVars(update /\ identity.pending # Nothing /\ operation' # operation)

OwnerSpec == OwnerInit /\ [][OwnerNext]_ownerVars /\ OwnerFairness

-----------------------------------------------------------------------------
(* The owner has the keys of the newest version: no replica is ever ahead of
   the current one but by the pending rotation, which a retry completes, or by
   one that was given up (update, discard). *)
KeysNotLost ==
    \A r \in Group : stored[r] > identity.current => stored[r] \in discarded \cup {identity.pending}

(* A rotation of a published record that the owner does not give up is confirmed
   once the network is stable, whatever was lost, late or repeated: with as many
   rotations as there may be, in the end none is pending (update). *)
RotationConfirmed ==
    <>[](stable /\ StoredVersions # {} => identity.pending = Nothing \/ discarded # {})
=============================================================================
