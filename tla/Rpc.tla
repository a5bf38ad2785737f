-------------------------------- MODULE Rpc ---------------------------------
(***************************************************************************)
(* Requests and answers over UDP (src/src/protocol/transport.rs): a node   *)
(* that calls its peers, resends a request with no sign of its peer, gets  *)
(* receipts and answers out of order, late or never, gives up after        *)
(* RPC_TIMEOUT, may be cancelled, and may stop and start again at the same *)
(* address; and the peers, which handle each copy of a request that        *)
(* arrives.                                                                *)
(*                                                                         *)
(* A message stays in the network once sent: it may arrive again, later or *)
(* never.  Time passes in ticks, 500 ms with the constants of the code.    *)
(***************************************************************************)
EXTENDS Integers, FiniteSets

CONSTANTS
    Calls,       \* the calls a caller may make, each once
    To,          \* the address each is sent to
    Kind,        \* the type of the request
    Content,     \* what it carries: the answer is about that
    RpcTimeout,  \* RPC_TIMEOUT, in ticks: 5
    Initial,     \* INITIAL_RESEND_AFTER: 1
    Waits,       \* the waits a measured peer may have, up to MAX_RESEND_AFTER: 1..2
    MaxResends,  \* MAX_RESENDS: 2
    MaxRestarts, \* bound: how often the caller restarts
    None

Kinds == {"Ping", "Store", "Update", "UpdateStatusList", "FindNode", "FindValue", "FindHash"}

ASSUME RpcAssumption ==
    /\ Kind \in [Calls -> Kinds]
    /\ RpcTimeout \in Nat /\ Initial \in Nat /\ Waits \subseteq Nat
    /\ MaxResends \in Nat /\ MaxRestarts \in Nat /\ None \notin Calls

VARIABLES
    next_msg_id, \* the caller's counter
    pending,     \* the calls waiting for an answer: [msg_id, call]
    removing,    \* the ids a spawned task is to remove from pending
    phase,       \* of each call: "idle", "waiting", "ended"
    call,        \* its msg_id, its timers and what has reached it
    outcome,     \* the call whose answer it returned, or None
    measured,    \* the peers whose round trip is known
    receipts,    \* the calls a peer sent a receipt for
    answers,     \* the answers sent: [call, message]
    in_progress, \* the requests being handled by the peers
    restarts

network == <<receipts, answers, in_progress>>
vars == <<next_msg_id, pending, removing, phase, call, outcome, measured, receipts, answers, in_progress, restarts>>

-----------------------------------------------------------------------------
(* ExpectedResponse::for_request and accepts: the messages that answer a
   request. *)
accepts(kind) ==
    CASE kind = "Ping" -> {"Pong"}
      [] kind = "Store" -> {"StoreResult"}
      [] kind = "Update" -> {"UpdateResult"}
      [] kind = "UpdateStatusList" -> {"UpdateStatusListResult"}
      [] kind = "FindNode" -> {"FindNodeResult"}
      [] kind = "FindValue" -> {"FindValueHit", "FindValueNodes"}
      [] kind = "FindHash" -> {"FindHashHit", "FindValueNodes"}

(* Mutant: a STORE is answered like an UPDATE. *)
DispatchAsUpdate(kind) == IF kind = "Store" THEN {"UpdateResult"} ELSE accepts(kind)

(* dispatch_request at the peer: the messages it may answer a request with.
   A Leave, and an answer that comes as a request, have none. *)
dispatch_request(kind) ==
    CASE kind = "Ping" -> {"Pong"}
      [] kind = "Store" -> {"StoreResult"}
      [] kind = "Update" -> {"UpdateResult"}
      [] kind = "UpdateStatusList" -> {"UpdateStatusListResult"}
      [] kind = "FindNode" -> {"FindNodeResult"}
      [] kind = "FindValue" -> {"FindValueHit", "FindValueNodes"}
      [] kind = "FindHash" -> {"FindHashHit", "FindValueNodes"}
      [] OTHER -> {}

(* after_receipt, carried_record: the request carries a record. *)
after_receipt(kind) == kind \in {"Store", "Update", "UpdateStatusList"}

(* RoundTrips::resend_after. *)
resend_after(peer) == IF peer \in measured THEN Waits ELSE {Initial}

(* A wait that reaches the deadline is as good as any longer one. *)
Capped(ticks) == IF ticks < RpcTimeout THEN ticks ELSE RpcTimeout

(* The local state of a call that has not started, or has returned. *)
NoCall(id) ==
    [msg_id |-> id, elapsed |-> 0, wait |-> 0, next_send |-> 0,
     resends |-> 0, receipts |-> 0, received |-> FALSE, answer |-> None]

Init ==
    /\ next_msg_id = 0 /\ pending = {} /\ removing = {}
    /\ phase = [c \in Calls |-> "idle"]
    /\ call = [c \in Calls |-> NoCall(-1)]
    /\ outcome = [c \in Calls |-> None]
    /\ measured = {}
    /\ receipts = {} /\ answers = {} /\ in_progress = {}
    /\ restarts = 0

Waiting(c) == phase[c] = "waiting"

(* Mutant: a call that ends leaves its entry. *)
EndLeaving(c, result) ==
    /\ phase' = [phase EXCEPT ![c] = "ended"]
    /\ outcome' = [outcome EXCEPT ![c] = result]
    /\ call' = [call EXCEPT ![c] = NoCall(@.msg_id)]
    /\ UNCHANGED <<pending, removing>>

(* The call returns and PendingGuard is dropped: its entry goes at once, or by
   a spawned task when the map is locked. *)
End(c, result) ==
    /\ phase' = [phase EXCEPT ![c] = "ended"]
    /\ outcome' = [outcome EXCEPT ![c] = result]
    /\ call' = [call EXCEPT ![c] = NoCall(@.msg_id)]
    /\ \/ pending' = {p \in pending : p.msg_id # call[c].msg_id} /\ UNCHANGED removing
       \/ removing' = removing \cup {call[c].msg_id} /\ UNCHANGED pending

(* The spawned task of a PendingGuard. *)
RemoveLater(id) ==
    /\ id \in removing
    /\ removing' = removing \ {id}
    /\ pending' = {p \in pending : p.msg_id # id}
    /\ UNCHANGED <<next_msg_id, phase, call, outcome, measured, network, restarts>>

(* call: the entry is made before the request is sent. *)
Start(c) ==
    /\ phase[c] = "idle"
    /\ next_msg_id' = next_msg_id + 1
    /\ pending' = {p \in pending : p.msg_id # next_msg_id} \cup {[msg_id |-> next_msg_id, call |-> c]}
    /\ phase' = [phase EXCEPT ![c] = "waiting"]
    /\ \E wait \in resend_after(To[c]) :
          call' = [call EXCEPT ![c] = [@ EXCEPT !.msg_id = next_msg_id, !.wait = wait, !.next_send = wait]]
    /\ UNCHANGED <<removing, outcome, measured, network, restarts>>

(* The caller drops the call, or sending a copy fails. *)
Cancel(c) ==
    /\ Waiting(c)
    /\ End(c, None)
    /\ UNCHANGED <<next_msg_id, measured, network, restarts>>

(* Mutant: receipts keep a call alive. *)
TimeoutUnlessReceipt(c) ==
    /\ Waiting(c) /\ call[c].elapsed >= RpcTimeout /\ call[c].receipts = 0
    /\ End(c, None)
    /\ UNCHANGED <<next_msg_id, measured, network, restarts>>

(* The timer, at the deadline. *)
Timeout(c) ==
    /\ Waiting(c) /\ call[c].elapsed >= RpcTimeout
    /\ End(c, None)
    /\ UNCHANGED <<next_msg_id, measured, network, restarts>>

(* The timer before the deadline: the same datagrams again, or nothing more
   until the deadline. *)
Resend(c) ==
    /\ Waiting(c) /\ call[c].elapsed < RpcTimeout /\ call[c].elapsed >= call[c].next_send
    /\ call' = [call EXCEPT ![c] =
                  IF call[c].resends = MaxResends THEN [call[c] EXCEPT !.next_send = RpcTimeout]
                  ELSE [call[c] EXCEPT !.resends = call[c].resends + 1, !.wait = Capped(call[c].wait * 2),
                                       !.next_send = Capped(call[c].elapsed + call[c].wait * 2)]]
    /\ UNCHANGED <<next_msg_id, pending, removing, phase, outcome, measured, network, restarts>>

(* A receipt wakes the call: it measures the round trip of a request sent
   once, and the next copy waits longer. *)
Received(c) ==
    /\ Waiting(c) /\ call[c].received
    /\ measured' = IF call[c].receipts = 0 /\ call[c].resends = 0 THEN measured \cup {To[c]} ELSE measured
    /\ \E wait \in IF call[c].receipts = 0 THEN {2 * w : w \in resend_after(To[c])'} ELSE {call[c].wait * 2} :
          call' = [call EXCEPT ![c] = [@ EXCEPT !.received = FALSE, !.receipts = 1,
                                                !.wait = Capped(wait),
                                                !.next_send = Capped(call[c].elapsed + wait)]]
    /\ UNCHANGED <<next_msg_id, pending, removing, phase, outcome, network, restarts>>

(* The answer wakes the call. *)
Return(c) ==
    /\ Waiting(c) /\ call[c].answer # None
    /\ measured' = IF ~after_receipt(Kind[c]) /\ call[c].resends = 0 THEN measured \cup {To[c]} ELSE measured
    /\ End(c, call[c].answer)
    /\ UNCHANGED <<next_msg_id, network, restarts>>

Tick ==
    /\ \E c \in Calls : Waiting(c) /\ call[c].elapsed < RpcTimeout
    /\ call' = [c \in Calls |-> IF Waiting(c) /\ call[c].elapsed < RpcTimeout
                                THEN [call[c] EXCEPT !.elapsed = @ + 1] ELSE call[c]]
    /\ UNCHANGED <<next_msg_id, pending, removing, phase, outcome, measured, network, restarts>>

-----------------------------------------------------------------------------
(* handle_datagram at the caller, for a receipt to the request of o. *)
HandleReceived(o) ==
    /\ o \in receipts
    /\ \E p \in pending :
          /\ p.msg_id = call[o].msg_id /\ To[p.call] = To[o] /\ after_receipt(Kind[p.call])
          /\ Waiting(p.call)
          /\ call' = [call EXCEPT ![p.call].received = TRUE]
    /\ UNCHANGED <<next_msg_id, pending, removing, phase, outcome, measured, network, restarts>>

(* The answer goes to the call, if it still waits. *)
Reply(c, from) == IF Waiting(c) THEN [call EXCEPT ![c].answer = from] ELSE call

(* handle_datagram at the caller, for an answer: matched by id, peer and type,
   or discarded. *)
HandleAnswer(a) ==
    /\ a \in answers
    /\ \E p \in pending :
          /\ p.msg_id = call[a.call].msg_id /\ To[p.call] = To[a.call]
          /\ a.message \in accepts(Kind[p.call])
          /\ pending' = pending \ {p}
          /\ call' = Reply(p.call, a.call)
    /\ UNCHANGED <<next_msg_id, removing, phase, outcome, measured, network, restarts>>

(* The bytes of the request, and where it goes. *)
RequestKey(c) == <<To[c], call[c].msg_id, Kind[c], Content[c]>>

(* handle_datagram at the peer, for a copy of the request of c: answered at
   once, or with a receipt while its record is handled. *)
HandleRequest(c) ==
    /\ phase[c] # "idle"
    /\ IF ~after_receipt(Kind[c])
       THEN /\ \E message \in dispatch_request(Kind[c]) :
                  answers' = answers \cup {[call |-> c, message |-> message]}
            /\ UNCHANGED <<receipts, in_progress>>
       ELSE /\ receipts' = receipts \cup {c}
            /\ in_progress' = IF \E d \in in_progress : RequestKey(d) = RequestKey(c)
                              THEN in_progress ELSE in_progress \cup {c}
            /\ UNCHANGED answers
    /\ UNCHANGED <<next_msg_id, pending, removing, phase, call, outcome, measured, restarts>>

(* The record is handled, and the answer sent; a STORE may have none. *)
Handled(c) ==
    /\ c \in in_progress
    /\ in_progress' = in_progress \ {c}
    /\ \/ \E message \in dispatch_request(Kind[c]) :
             answers' = answers \cup {[call |-> c, message |-> message]}
       \/ Kind[c] = "Store" /\ UNCHANGED answers
    /\ UNCHANGED <<next_msg_id, pending, removing, phase, call, outcome, measured, receipts, restarts>>

(* stop, then listen at the same address: a new KademliaProtocol. *)
Restart ==
    /\ restarts < MaxRestarts
    /\ restarts' = restarts + 1
    /\ next_msg_id' = 0 /\ pending' = {} /\ removing' = {} /\ measured' = {}
    /\ phase' = [c \in Calls |-> IF Waiting(c) THEN "ended" ELSE phase[c]]
    /\ call' = [c \in Calls |-> NoCall(call[c].msg_id)]
    /\ UNCHANGED <<outcome, network>>

-----------------------------------------------------------------------------
Next ==
    \/ \E c \in Calls :
          \/ Start(c) \/ Cancel(c) \/ Timeout(c) \/ Resend(c) \/ Received(c) \/ Return(c)
          \/ HandleReceived(c) \/ HandleRequest(c) \/ Handled(c)
    \/ \E a \in answers : HandleAnswer(a)
    \/ \E id \in removing : RemoveLater(id)
    \/ Tick
    \/ Restart

(* Time passes, timers fire, and spawned tasks run. *)
Fairness ==
    /\ WF_vars(Tick)
    /\ \A c \in Calls : WF_vars(Timeout(c))
    /\ WF_vars(\E id \in removing : RemoveLater(id))

Spec == Init /\ [][Next]_vars /\ Fairness

-----------------------------------------------------------------------------
CallState ==
    [msg_id : Nat \cup {-1}, elapsed : Nat, wait : Nat, next_send : Nat, resends : Nat,
     receipts : Nat, received : BOOLEAN, answer : Calls \cup {None}]

(* The type invariant. *)
TypeOK ==
    /\ next_msg_id \in Nat /\ restarts \in Nat
    /\ pending \subseteq [msg_id : Nat, call : Calls] /\ removing \subseteq Nat
    /\ phase \in [Calls -> {"idle", "waiting", "ended"}]
    /\ call \in [Calls -> CallState] /\ outcome \in [Calls -> Calls \cup {None}]
    /\ receipts \subseteq Calls /\ in_progress \subseteq Calls
    /\ \A a \in answers : a.call \in Calls

(* An answer belongs to its request.  A peer answers with a type that the
   caller accepts for the request (dispatch_request, ExpectedResponse).  What a
   call returns comes from the peer it asked and has such a type, also when ids
   are used again after a restart, and until then it is the answer to the very
   request it sent. *)
AnswersMatch ==
    /\ \A a \in answers : a.message \in accepts(Kind[a.call])
    /\ \A c \in Calls : outcome[c] # None =>
          /\ To[outcome[c]] = To[c]
          /\ \E message \in accepts(Kind[c]) : [call |-> outcome[c], message |-> message] \in answers
          /\ restarts = 0 => outcome[c] = c

(* A call that waits can be answered: its entry stays, under its own id and
   no other call's, until its answer is there, whatever else arrives or ends. *)
Answerable ==
    \A c \in Calls : Waiting(c) /\ call[c].answer = None =>
        [msg_id |-> call[c].msg_id, call |-> c] \in pending /\ call[c].msg_id \notin removing

(* No call leaks its entry: an entry belongs to a call that waits, or a task
   is about to remove it. *)
NoLeak ==
    \A p \in pending : (Waiting(p.call) /\ call[p.call].msg_id = p.msg_id) \/ p.msg_id \in removing

(* The pending map is right for every call: well-typed, an entry for each call
   that waits, and none that stays behind (PendingCall, handle_datagram). *)
PendingSound == TypeOK /\ Answerable /\ NoLeak

(* Every call ends, however many receipts its peer sends. *)
CallsEnd == \A c \in Calls : Waiting(c) ~> phase[c] = "ended"
=============================================================================
