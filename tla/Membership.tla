----------------------------- MODULE Membership -----------------------------
(***************************************************************************)
(* How a node keeps its contacts: the handlers that learn of a node from a *)
(* message (src/src/protocol/welcome.rs, contacts.rs, handlers.rs), the    *)
(* calls that count a failure (client.rs), and the maintenance loop with   *)
(* its probes and bootstrap seeds (network/maintenance.rs), on the routing *)
(* table of RoutingTable.                                                  *)
(*                                                                         *)
(* A handler takes the lock of the table once per access, and others come  *)
(* in between.  Peers come, go and change their address; this node loses   *)
(* its link and has it again.  Time is not counted: what elapses does so   *)
(* at any time.                                                            *)
(***************************************************************************)
EXTENDS Integers, FiniteSets

CONSTANTS
    Bits, own_id, Contacts, ksize, ReplacementFactor, SplitModulus, \* see RoutingTable
    StaleAfterFailures, MinLookupContacts, None,
    Addresses,     \* where peers may be
    seeds,         \* the addresses that bootstrap was given
    alpha,         \* probes of one round
    Changes,       \* how often peers and the link change (bound)
    MaxBusy        \* messages under way when this node or a peer sends one more (bound)

VARIABLES
    buckets, health, oldest, leaver,   \* see RoutingTable
    home,        \* the address registered with a contact
    occupant,    \* Addresses -> who is there, or None
    link,        \* whether this node reaches the network
    changes,     \* changes of the network so far
    messages,    \* requests under way, sent or received, see Message
    round,       \* where the maintenance loop is
    seed_due     \* next_seed_attempt has come

RT == INSTANCE RoutingTable WITH node <- own_id

tableVars == <<buckets, health, oldest, leaver>>
network == <<occupant, link, changes>>
memberVars == <<tableVars, home, network, messages, round, seed_due>>

ASSUME MembershipAssumption ==
    seeds \subseteq Addresses /\ alpha \in Nat \ {0} /\ Changes \in Nat /\ MaxBusy \in Nat

(* A ping of a contact (probe, or oldest of a full bucket) or of a seed, by the
   maintenance loop (seed) or by bootstrap (boot), a request of a lookup (ask), a
   request from a peer (inbound), or its Leave.  `to` is the contact asked,
   `from` the node that it speaks of. *)
MessageKinds == {"probe", "oldest", "seed", "boot", "ask", "inbound", "leave"}
Message ==
    [kind : MessageKinds, to : Contacts \cup {None},
     from : Contacts \cup {None}, addr : Addresses, step : {"sent", "alive", "success", "new", "add"},
     returned : BOOLEAN]

Sent(kind, n, a) ==
    [kind |-> kind, to |-> n, from |-> None, addr |-> a, step |-> "sent", returned |-> FALSE]
Received(kind, n, a) ==
    [kind |-> kind, to |-> None, from |-> n, addr |-> a, step |-> "alive", returned |-> FALSE]

InFlight(kinds) == {m \in messages : m.kind \in kinds}
MoveTo(m, step) == messages' = (messages \ {m}) \cup {[m EXCEPT !.step = step]}
Done(m) == messages' = messages \ {m}

registered(n) == n \in RT!Primary \cup RT!Replacements
same_home_as(n, a) == registered(n) /\ home[n] = a
live_contacts == {n \in RT!Primary : ~RT!has_failures(RT!Table, n)}
is_new_node(n) == n \notin RT!Primary
Reached(a) == link /\ occupant[a] # None

-----------------------------------------------------------------------------
(* A node made contact: schedule_welcome_if_new and note_alive, one access of
   the table at a time.  Queueing its records is in Welcome. *)

(* Mutant: a stale contact is heard from its registered address only. *)
OnlyFromHome(m) ==
    /\ m.step = "alive" /\ m.kind # "leave"
    /\ MoveTo(m, IF RT!has_failures(RT!Table, m.from) /\ same_home_as(m.from, m.addr)
                 THEN "success" ELSE "new")
    /\ UNCHANGED <<tableVars, home, network, round, seed_due>>

(* Under the read lock: does it have failures, and is it heard? *)
note_alive(m) ==
    /\ m.step = "alive" /\ m.kind # "leave"
    /\ MoveTo(m, IF /\ RT!has_failures(RT!Table, m.from)
                    /\ same_home_as(m.from, m.addr) \/ RT!is_stale(RT!Table, m.from)
                 THEN "success" ELSE "new")
    /\ UNCHANGED <<tableVars, home, network, round, seed_due>>

(* Under the write lock.  A contact that is stale has been silent for longer
   than RETURNED_AFTER. *)
NoteSuccess(m) ==
    /\ m.step = "success"
    /\ IF RT!has_failures(RT!Table, m.from)
         THEN /\ RT!record_success(m.from)
              /\ \E long \in (IF RT!is_stale(RT!Table, m.from) THEN {TRUE} ELSE BOOLEAN) :
                    messages' = (messages \ {m}) \cup {[m EXCEPT !.step = "new", !.returned = long]}
         ELSE MoveTo(m, "new") /\ UNCHANGED tableVars
    /\ UNCHANGED <<home, network, round, seed_due>>

CheckNew(m) ==
    /\ m.step = "new"
    /\ IF m.returned \/ is_new_node(m.from) THEN MoveTo(m, "add") ELSE Done(m)
    /\ UNCHANGED <<tableVars, home, network, round, seed_due>>

(* add_contact; the oldest contact of a full bucket is pinged, once at a time. *)
AddContact(m) ==
    /\ m.step = "add"
    /\ RT!add_contact(m.from)
    /\ home' = IF m.from = own_id THEN home ELSE [home EXCEPT ![m.from] = m.addr]
    /\ messages' = (messages \ {m}) \cup
          {Sent("oldest", n, home'[n]) : n \in {o \in Contacts : o = oldest' /\
                \A p \in InFlight({"oldest"}) : p.to # o}}
    /\ UNCHANGED <<network, round, seed_due>>

(* rpc_leave: only the registered endpoint may leave. *)
rpc_leave(m) ==
    /\ m.kind = "leave"
    /\ \/ /\ m.step = "alive"
          /\ IF same_home_as(m.from, m.addr) THEN MoveTo(m, "success") ELSE Done(m)
          /\ UNCHANGED tableVars
       \/ /\ m.step = "success" /\ RT!remove_contact(m.from) /\ Done(m)
    /\ UNCHANGED <<home, network, round, seed_due>>

-----------------------------------------------------------------------------
(* The answer or the timeout of a request.  A Pong names who answers; the
   answer to a lookup counts for the contact that was asked. *)
Answered(m) ==
    /\ m.step = "sent" /\ Reached(m.addr)
    /\ messages' = (messages \ {m}) \cup
          {[m EXCEPT !.step = "alive", !.from = IF m.kind = "ask" THEN m.to ELSE occupant[m.addr]]}
    /\ UNCHANGED <<tableVars, home, network, round, seed_due>>

note_failure(m) ==
    /\ m.step = "sent" /\ ~Reached(m.addr)
    /\ IF m.kind \in {"seed", "boot"} THEN UNCHANGED tableVars ELSE RT!record_failure(m.to)
    /\ Done(m)
    /\ UNCHANGED <<home, network, round, seed_due>>

Neighbors ==
    UNION {LET found == RT!find_neighbors(RT!Table, t, {}) IN {found[i] : i \in DOMAIN found} :
           t \in Contacts \cup {own_id}}

(* A lookup, of a user or of the hourly refresh, asks the neighbors it finds. *)
ask(n) ==
    /\ Cardinality(messages) < MaxBusy /\ \A m \in InFlight({"ask"}) : m.to # n
    /\ n \in Neighbors
    /\ messages' = messages \cup {Sent("ask", n, home[n])}
    /\ UNCHANGED <<tableVars, home, network, round, seed_due>>

Elapse ==
    /\ UNCHANGED <<home, network, messages, round>>
    /\ \/ (\E n \in Contacts : RT!RetryAfter(n)) /\ UNCHANGED seed_due
       \/ ~seed_due /\ seed_due' = TRUE /\ UNCHANGED tableVars

-----------------------------------------------------------------------------
(* schedule_maintenance.  probe_failing_contacts: failing contacts whose
   backoff is over, at most alpha. *)
Due == {n \in RT!Primary : RT!has_failures(RT!Table, n) /\ ~health[n].waiting}

Probe ==
    /\ round = "sleep"
    /\ \E probed \in SUBSET Due :
          /\ Cardinality(probed) = IF Cardinality(Due) < alpha THEN Cardinality(Due) ELSE alpha
          /\ messages' = messages \cup {Sent("probe", n, home[n]) : n \in probed}
    /\ round' = "probing"
    /\ UNCHANGED <<tableVars, home, network, seed_due>>

(* With no live contact the seeds are pinged, each time after a longer wait; the
   lookup of a node that is connected again is `ask`. *)
TrySeeds ==
    /\ round = "probing" /\ InFlight({"probe"}) = {}
    /\ IF live_contacts = {} /\ seed_due
         THEN /\ messages' = messages \cup {Sent("seed", None, a) : a \in seeds}
              /\ seed_due' = FALSE /\ round' = "seeding"
         ELSE round' = "sleep" /\ UNCHANGED <<messages, seed_due>>
    /\ UNCHANGED <<tableVars, home, network>>

SeedsTried ==
    /\ round = "seeding" /\ InFlight({"seed"}) = {} /\ round' = "sleep"
    /\ UNCHANGED <<tableVars, home, network, messages, seed_due>>

-----------------------------------------------------------------------------
(* The network: a peer comes, goes or moves, or tells that it leaves; the link
   fails or is restored; a peer sends a request. *)
Change ==
    /\ changes < Changes /\ changes' = changes + 1
    /\ \/ /\ \E n \in Contacts, a \in Addresses \cup {None} :
               occupant' = [b \in Addresses |->
                  IF b = a THEN n ELSE IF occupant[b] = n THEN None ELSE occupant[b]]
          /\ UNCHANGED <<link, messages>>
       \/ /\ link' = ~link /\ UNCHANGED <<occupant, messages>>
       \/ /\ \E a \in Addresses :
               /\ Reached(a) /\ Cardinality(messages) < MaxBusy
               /\ messages' = messages \cup {Received("leave", occupant[a], a)}
               /\ occupant' = [occupant EXCEPT ![a] = None]
          /\ UNCHANGED link
    /\ UNCHANGED <<tableVars, home, round, seed_due>>

Inbound(a) ==
    /\ Reached(a) /\ Cardinality(messages) < MaxBusy
    /\ Received("inbound", occupant[a], a) \notin messages
    /\ messages' = messages \cup {Received("inbound", occupant[a], a)}
    /\ UNCHANGED <<tableVars, home, network, round, seed_due>>

(* bootstrap: the seeds are remembered and pinged; its lookup is `ask`. *)
bootstrap == {Sent("boot", None, a) : a \in seeds}

MemberInit ==
    /\ RT!Init /\ home = [n \in Contacts |-> CHOOSE a \in Addresses : TRUE]
    /\ occupant = [a \in Addresses |-> None] /\ link = TRUE /\ changes = 0
    /\ messages = bootstrap /\ round = "sleep" /\ seed_due = TRUE

Handle(m) ==
    \/ note_alive(m) \/ NoteSuccess(m) \/ CheckNew(m) \/ AddContact(m) \/ rpc_leave(m)
    \/ Answered(m) \/ note_failure(m)

Maintain == Probe \/ TrySeeds \/ SeedsTried

MemberNext ==
    \/ \E m \in messages : Handle(m)
    \/ \E n \in Contacts : ask(n)
    \/ Elapse \/ Maintain \/ Change
    \/ \E a \in Addresses : Inbound(a)

(* Handlers and the loop are tasks that the runtime schedules; every request is
   answered or times out; backoffs elapse; the hourly refresh asks again and
   again, whatever else is under way.  But for the loop this is said of states:
   over and over, no request of a kind is under way, a backoff is over, a
   neighbor is being asked. *)
MemberFairness ==
    /\ WF_memberVars(Maintain)
    /\ \A kind \in MessageKinds : []<>(InFlight({kind}) = {})
    /\ []<>seed_due
    /\ \A n \in Contacts :
          /\ []<>(n \notin DOMAIN health \/ ~health[n].waiting)
          /\ []<>(n \in Neighbors => \E m \in InFlight({"ask"}) : m.to = n)

MemberSpec == MemberInit /\ [][MemberNext]_memberVars /\ MemberFairness

-----------------------------------------------------------------------------
(* A node that lost every contact finds the network again: once the network no
   longer changes, a node with a link and a seed where somebody is has a live
   contact and keeps it, whatever moved in between, and however full its
   buckets are of contacts that are gone (schedule_maintenance, note_alive). *)
Rejoins == <>[](link /\ (\E a \in seeds : occupant[a] # None) => live_contacts # {})
=============================================================================
