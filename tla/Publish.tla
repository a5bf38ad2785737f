------------------------------- MODULE Publish -------------------------------
(***************************************************************************)
(* Publications and updates of the record of one key by the servers of a   *)
(* network (src/src/network/publish.rs, src/src/network/update.rs): the    *)
(* choice of the replicas, the requests to them, which may arrive late,    *)
(* twice or never, like their answers, and what the server concludes.      *)
(*                                                                         *)
(* Nodes are numbered by their distance to the key.  Which nodes answer a  *)
(* lookup is arbitrary, and what it finds is a record that one of them     *)
(* holds, or nothing (Lookup).  A replica handles a request in one step    *)
(* (Replica has the steps): between the check of a rotation and its write  *)
(* a STORE changes nothing, since a replica with a record keeps it.  The   *)
(* network check of an empty replica may miss what the others hold.        *)
(***************************************************************************)
EXTENDS Integers, FiniteSets

CONSTANTS
    N,        \* nodes
    ksize,    \* replicas of a record
    alpha,    \* members of the consistency group
    Full,     \* the nodes whose storage has no room for another record
    Values, Absent,
    Prev,     \* the record whose key authorises a record, or Absent
    Ops,      \* the operations that servers may run, each once
    Op,       \* what each is: [kind, node, value]
    Start     \* what the nodes may hold at first, and the operations run then: [record, ops]

Nodes == 1..N
Kinds == {"set", "update", "status"}

ASSUME PublishAssumption ==
    /\ N \in Nat \ {0} /\ ksize \in Nat \ {0} /\ alpha \in Nat \ {0} /\ Full \subseteq Nodes
    /\ Absent \notin Values /\ Prev \in [Values -> Values \cup {Absent}]
    /\ Op \in [Ops -> [kind : Kinds, node : Nodes, value : Values]]
    /\ Start \subseteq [record : [Nodes -> Values \cup {Absent}], ops : SUBSET Ops]

VARIABLES
    record,  \* what each node holds
    phase,   \* of each operation: "idle", "lookup", "requests", "done"
    local,   \* whether its server is one of the replicas
    remote,  \* the other replicas
    request, \* the requests each replica was sent: "Store", "Update", "UpdateStatusList"
    answer,  \* what it answered: "pending" or "unavailable" when it did not
    outcome  \* what the operation concludes

vars == <<record, phase, local, remote, request, answer, outcome>>

-----------------------------------------------------------------------------
self(o) == Op[o].node
value(o) == Op[o].value

(* The k nodes of a set that are closest to the key. *)
Closest(S, k) == {n \in S : Cardinality({d \in S : d < n}) < k}

(* select_responsible_nodes: the closest of those found and the server. *)
select_responsible_nodes(o, found) == Closest(found \cup {self(o)}, ksize)

Init ==
    /\ \E s \in Start :
          /\ record = s.record
          /\ phase = [o \in Ops |-> IF o \in s.ops THEN "idle" ELSE "done"]
    /\ local = [o \in Ops |-> FALSE]
    /\ remote = [o \in Ops |-> {}]
    /\ request = [o \in Ops |-> [n \in Nodes |-> {}]]
    /\ answer = [o \in Ops |-> [n \in Nodes |-> "pending"]]
    /\ outcome = [o \in Ops |-> "none"]

Conclude(o, result) ==
    /\ phase' = [phase EXCEPT ![o] = "done"]
    /\ outcome' = [outcome EXCEPT ![o] = result]

(* The records a lookup may find. *)
Held == {record[n] : n \in Nodes} \ {Absent}

-----------------------------------------------------------------------------
(* set_detailed, check_publish_state: another record in the way, here or found
   by the lookup, ends the publication. *)
CheckPublish(o) ==
    /\ Op[o].kind = "set" /\ phase[o] = "idle"
    /\ \E found \in IF record[self(o)] # Absent THEN {record[self(o)]} ELSE Held \cup {Absent} :
          IF found \in {Absent, value(o)}
          THEN phase' = [phase EXCEPT ![o] = "lookup"] /\ UNCHANGED outcome
          ELSE Conclude(o, "ExistingRecord")
    /\ UNCHANGED <<record, local, remote, request, answer>>

(* What Server.get may return: a DID Document is read locally if it is there,
   the Status List always by a lookup. *)
get(o) ==
    IF record[self(o)] # Absent /\ Op[o].kind = "update" THEN {record[self(o)]} ELSE Held \cup {Absent}

(* update: the record it replaces is read and compared. *)
CheckUpdate(o) ==
    /\ Op[o].kind \in {"update", "status"} /\ phase[o] = "idle"
    /\ \E old \in get(o) :
          IF old # Absent /\ (Op[o].kind = "status" \/ old \in {value(o), Prev[value(o)]})
          THEN phase' = [phase EXCEPT ![o] = "lookup"] /\ UNCHANGED outcome
          ELSE Conclude(o, "refused")
    /\ UNCHANGED <<record, local, remote, request, answer>>

(* update_digest: a server that knows nobody, or does not listen, gives up. *)
NoNeighbours(o) ==
    /\ Op[o].kind \in {"update", "status"} /\ phase[o] = "lookup"
    /\ Conclude(o, "false")
    /\ UNCHANGED <<record, local, remote, request, answer>>

(* Mutant: a STORE replaces the record. *)
InsertOver(n, v) == [answer |-> "Stored", record |-> v]

(* Storage.insert_if_absent at a node: the first record stays. *)
insert_if_absent(n, v) ==
    IF record[n] # Absent
    THEN [answer |-> IF record[n] = v THEN "AlreadyStored" ELSE "Conflict", record |-> record[n]]
    ELSE IF n \in Full THEN [answer |-> "CapacityExceeded", record |-> Absent]
    ELSE [answer |-> "Stored", record |-> v]

(* Storage.set at a node.  One without room refuses a new record, and one
   larger than the record it replaces. *)
set(n, v) ==
    {r \in {[answer |-> "true", record |-> v], [answer |-> "false", record |-> record[n]]} :
        /\ r.answer = "true" => ~(record[n] = Absent /\ n \in Full)
        /\ r.answer = "false" => n \in Full /\ record[n] # v}

(* The lookup has found the nodes that answer; set_digest_detailed stores the
   local copy, and the requests to the others are sent. *)
SendRequests(o) ==
    /\ phase[o] = "lookup"
    /\ \E found \in SUBSET (Nodes \ {self(o)}) :
          LET chosen == select_responsible_nodes(o, found)
              others == chosen \ {self(o)}
              kind == CASE Op[o].kind = "set" -> "Store" [] Op[o].kind = "update" -> "Update"
                        [] Op[o].kind = "status" -> "UpdateStatusList"
          IN  /\ local' = [local EXCEPT ![o] = self(o) \in chosen]
              /\ remote' = [remote EXCEPT ![o] = others]
              /\ request' = [request EXCEPT ![o] = [n \in Nodes |-> IF n \in others THEN {kind} ELSE {}]]
              /\ IF Op[o].kind = "set" /\ self(o) \in chosen
                 THEN LET w == insert_if_absent(self(o), value(o))
                      IN  /\ record' = [record EXCEPT ![self(o)] = w.record]
                          /\ answer' = [answer EXCEPT ![o][self(o)] = w.answer]
                 ELSE UNCHANGED <<record, answer>>
    /\ phase' = [phase EXCEPT ![o] = "requests"]
    /\ UNCHANGED outcome

(* What the replica n may answer to a request of the operation, and what it
   holds then: rpc_store, rpc_update, rpc_update_status_list.  A STORE to an
   empty replica may find another record in the network. *)
Handling(n, kind, v) ==
    LET refuse == {[answer |-> "false", record |-> record[n]]}
    IN  CASE kind = "Store" ->
                {insert_if_absent(n, v)}
                \cup {[answer |-> "Conflict", record |-> Absent] : x \in IF record[n] = Absent THEN Held \ {v} ELSE {}}
          [] kind = "Update" ->
                IF record[n] # Absent /\ record[n] \in {v, Prev[v]} THEN set(n, v) ELSE refuse
          [] kind = "UpdateStatusList" ->
                IF record[n] # Absent THEN set(n, v) ELSE refuse

(* A copy of a request arrives, perhaps when the server no longer waits for it,
   and its answer may be lost.  A replica that refuses an update is sent the
   record as a STORE. *)
Replica(o, n) ==
    /\ \E kind \in request[o][n], heard \in BOOLEAN :
       \E r \in Handling(n, kind, value(o)) :
          LET awaited == phase[o] = "requests" /\ answer[o][n] = "pending"
                           /\ (kind = "Update" => "Store" \notin request[o][n])
          IN  /\ record' = [record EXCEPT ![n] = r.record]
              /\ IF ~heard \/ ~awaited THEN UNCHANGED <<request, answer>>
                 ELSE IF kind = "Update" /\ r.answer = "false"
                 THEN request' = [request EXCEPT ![o][n] = @ \cup {"Store"}] /\ UNCHANGED answer
                 ELSE answer' = [answer EXCEPT ![o][n] = r.answer] /\ UNCHANGED request
    /\ UNCHANGED <<phase, local, remote, outcome>>

(* Mutant: only an UPDATE has a timeout. *)
TimeoutOfUpdates(o, n) ==
    /\ phase[o] = "requests" /\ "Update" \in request[o][n] /\ answer[o][n] = "pending"
    /\ answer' = [answer EXCEPT ![o][n] = "unavailable"]
    /\ UNCHANGED <<record, phase, local, remote, request, outcome>>

(* The call gives up on the replica. *)
Timeout(o, n) ==
    /\ phase[o] = "requests" /\ n \in remote[o] /\ answer[o][n] = "pending"
    /\ answer' = [answer EXCEPT ![o][n] = "unavailable"]
    /\ UNCHANGED <<record, phase, local, remote, request, outcome>>

AllAnswered(o) == phase[o] = "requests" /\ \A n \in remote[o] : answer[o][n] # "pending"

-----------------------------------------------------------------------------
Replicas(o) == remote[o] \cup IF local[o] THEN {self(o)} ELSE {}
Counted(o, statuses) == Cardinality({n \in Replicas(o) : answer[o][n] \in statuses})
acknowledged(o) == Counted(o, {"Stored", "AlreadyStored"})

(* A server that reaches nobody, in a network of several, is cut off. *)
cut_off(o) == remote[o] = {} /\ N > 1
expected_replicas(o) == Cardinality(Replicas(o)) + (IF cut_off(o) THEN 1 ELSE 0)

(* Mutant: replicas that did not answer are not expected to. *)
ClassifyAnswered(o) ==
    CASE Counted(o, {"Conflict"}) > 0 -> "ReplicaConflict"
      [] acknowledged(o) = Counted(o, {"Stored", "AlreadyStored", "Conflict"}) /\ acknowledged(o) > 0 -> "Complete"
      [] OTHER -> "Unavailable"

(* classify_set_report, on the reports this network can give. *)
classify_set_report(o) ==
    CASE Counted(o, {"Conflict"}) > 0 -> "ReplicaConflict"
      [] Counted(o, {"Conflict"}) = 0 /\ expected_replicas(o) = 0 -> "NoResponsibleNodes"
      [] Counted(o, {"Conflict"}) = 0 /\ expected_replicas(o) > 0 ->
            IF acknowledged(o) = expected_replicas(o) THEN "Complete"
            ELSE IF acknowledged(o) > 0 THEN "Degraded"
            ELSE IF Counted(o, {"CapacityExceeded"}) > 0 THEN "CapacityExceeded" ELSE "Unavailable"

FinishSet(o) ==
    /\ Op[o].kind = "set" /\ AllAnswered(o)
    /\ Conclude(o, classify_set_report(o))
    /\ UNCHANGED <<record, local, remote, request, answer>>

(* The consistency group: the local copy and the closest remote replicas. *)
local_vote(o) == IF local[o] THEN 1 ELSE 0
primary(o) == Closest(remote[o], alpha - local_vote(o))
group(o) == primary(o) \cup IF local[o] THEN {self(o)} ELSE {}
acknowledgements(o) ==
    local_vote(o) + Cardinality({n \in primary(o) : answer[o][n] \in {"true", "Stored", "AlreadyStored"}})

(* Mutant: half of the group is enough. *)
QuorumByHalf(o) == Cardinality(group(o)) > 0 /\ acknowledgements(o) >= (Cardinality(group(o)) + 1) \div 2

quorum_met(o) == Cardinality(group(o)) > 0 /\ acknowledgements(o) >= Cardinality(group(o)) \div 2 + 1

(* update_digest after the answers: the local copy is committed on a quorum,
   whatever it is by then. *)
FinishUpdate(o) ==
    /\ Op[o].kind \in {"update", "status"} /\ AllAnswered(o)
    /\ IF quorum_met(o) /\ local[o]
       THEN \E r \in set(self(o), value(o)) :
               record' = [record EXCEPT ![self(o)] = r.record] /\ Conclude(o, r.answer)
       ELSE Conclude(o, IF quorum_met(o) THEN "true" ELSE "false") /\ UNCHANGED record
    /\ UNCHANGED <<local, remote, request, answer>>

Server(o) ==
    \/ CheckPublish(o) \/ CheckUpdate(o) \/ NoNeighbours(o) \/ SendRequests(o)
    \/ \E n \in Nodes : Timeout(o, n)
    \/ FinishSet(o) \/ FinishUpdate(o)

Next == \E o \in Ops : Server(o) \/ \E n \in Nodes : Replica(o, n)

(* The task of an operation goes on: a call ends at its timeout at the latest. *)
Fairness == \A o \in Ops : WF_vars(Server(o))

Spec == Init /\ [][Next]_vars /\ Fairness

-----------------------------------------------------------------------------
(* The type invariant. *)
TypeOK ==
    /\ record \in [Nodes -> Values \cup {Absent}]
    /\ phase \in [Ops -> {"idle", "lookup", "requests", "done"}]
    /\ \A o \in Ops : remote[o] \subseteq Nodes \ {self(o)} /\ Cardinality(Replicas(o)) <= ksize

(* w is v, or a version that it authorises, or one that this authorises, ... *)
Descends(w, v) ==
    \/ w = v
    \/ \A S \in SUBSET Values :
          v \in S /\ (\A x \in Values : Prev[x] \in S => x \in S) => w \in S

(* What set_detailed reports is true and stays so, whatever rivals, lost answers
   and late copies do.  Complete: every replica it chose holds the record or a
   later version of it, and in a network of several nodes one of them is not
   the server.  Degraded: some replica does. *)
ReportIsTrue ==
    \A o \in Ops :
        /\ outcome[o] = "Complete" =>
              (\A n \in Replicas(o) : Descends(record[n], value(o))) /\ (N > 1 => remote[o] # {})
        /\ outcome[o] = "Degraded" => \E n \in Replicas(o) : Descends(record[n], value(o))

(* The record that an update wrote, or a later version of it, is on a strict
   majority of its consistency group, the local copy included. *)
OnMajority(o) ==
    2 * Cardinality({n \in group(o) : Descends(record[n], value(o))}) > Cardinality(group(o))

(* No other update of the key is run. *)
Unrivalled(o) ==
    \A p \in Ops \ {o} : Op[p].kind # "set" => phase[p] = "done" /\ outcome[p] = "none"

(* The type invariant; and of the only update of a key, whatever publications
   run with it, success (update_digest) is true and stays so: its record is on
   a majority of the group.  Of two at once, a member may commit its own over
   the one that it has acknowledged, as ReplacedByAuthorised shows. *)
UpdatesHold ==
    TypeOK /\ \A o \in Ops : outcome[o] = "true" /\ Unrivalled(o) => OnMajority(o)

(* No node's record is replaced but by one that its own key authorises: a
   retried publication, or an update that lost a race, never undoes another. *)
ReplacedByAuthorised ==
    [][\A n \in Nodes : record[n] # Absent /\ record'[n] # record[n] => Prev[record'[n]] = record[n]]_vars

(* Every operation ends, whoever does not answer. *)
OperationsEnd == <>(\A o \in Ops : phase[o] = "done")
=============================================================================
