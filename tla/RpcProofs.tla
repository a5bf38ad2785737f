----------------------------- MODULE RpcProofs ------------------------------
(***************************************************************************)
(* Proofs about Rpc for any calls, peers, waits and limits: a waiting call *)
(* can be answered, no call leaks its entry, and what a call returns comes *)
(* from the peer it asked and answers its type of request, also across     *)
(* restarts; until the caller restarts, a call returns the answer to its   *)
(* own request.                                                            *)
(***************************************************************************)
EXTENDS Rpc, TLAPS

(* What a step may do to the calls' ids and answers. *)
SameCalls == \A c \in Calls : call'[c].msg_id = call[c].msg_id /\ call'[c].answer = call[c].answer

-----------------------------------------------------------------------------
(* A wait stays a number of ticks. *)
LEMMA CappedType == ASSUME NEW t \in Nat PROVE Capped(t) \in Nat
BY RpcAssumption DEF Capped

(* A call that has returned keeps its id only. *)
LEMMA NoCallType ==
    ASSUME NEW id \in Nat \cup {-1}
    PROVE  NoCall(id) \in CallState /\ NoCall(id).msg_id = id /\ NoCall(id).answer = None
BY DEF NoCall, CallState

(* A peer's wait is a number of ticks. *)
LEMMA WaitType == \A peer : resend_after(peer) \subseteq Nat
BY RpcAssumption DEF resend_after

(* End: the call no longer waits, the others are as they were, and its entry
   goes or is about to. *)
LEMMA EndResult ==
    ASSUME TypeOK, NEW c \in Calls, NEW result \in Calls \cup {None}, End(c, result)
    PROVE  /\ call' \in [Calls -> CallState] /\ outcome' \in [Calls -> Calls \cup {None}]
           /\ phase' \in [Calls -> {"idle", "waiting", "ended"}]
           /\ call'[c].msg_id = call[c].msg_id /\ call'[c].answer = None
           /\ \A d \in Calls : d # c => call'[d] = call[d] /\ phase'[d] = phase[d] /\ outcome'[d] = outcome[d]
           /\ phase'[c] = "ended" /\ outcome'[c] = result
           /\ call[c].msg_id \in Nat => removing' \subseteq Nat
           /\ pending' \subseteq pending
<1>1. call[c].msg_id \in Nat \cup {-1}
  BY DEF TypeOK, CallState
<1>2. NoCall(call[c].msg_id) \in CallState /\ NoCall(call[c].msg_id).msg_id = call[c].msg_id /\ NoCall(call[c].msg_id).answer = None
  BY <1>1, NoCallType
<1>3. call' = [call EXCEPT ![c] = NoCall(call[c].msg_id)]
  BY DEF End
<1>4. /\ call' \in [Calls -> CallState]
      /\ call'[c].msg_id = call[c].msg_id /\ call'[c].answer = None
      /\ \A d \in Calls : d # c => call'[d] = call[d]
  BY <1>2, <1>3 DEF TypeOK
<1>5. pending' \subseteq pending /\ (call[c].msg_id \in Nat => removing' \subseteq Nat)
  BY DEF End, TypeOK
<1> QED BY <1>4, <1>5 DEF End, TypeOK

-----------------------------------------------------------------------------
(* The calls' ids come from the counter; no two calls that wait share one, and
   none is about to be removed from pending. *)
PInv ==
    /\ TypeOK
    /\ \A p \in pending : p.msg_id < next_msg_id
    /\ \A id \in removing : id < next_msg_id
    /\ \A c \in Calls : Waiting(c) => call[c].msg_id \in Nat /\ call[c].msg_id < next_msg_id
    /\ \A c \in Calls : Waiting(c) => call[c].msg_id \notin removing
    /\ \A c, d \in Calls : Waiting(c) /\ Waiting(d) /\ call[c].msg_id = call[d].msg_id => c = d
    /\ Answerable
    /\ NoLeak

(* Init establishes PInv. *)
LEMMA PendingInit == Init => PInv
<1> SUFFICES ASSUME Init PROVE PInv
  OBVIOUS
<1>1. NoCall(-1) \in CallState
  BY NoCallType
<1>2. TypeOK
  BY <1>1 DEF Init, TypeOK
<1> QED BY <1>2 DEF Init, PInv, Waiting, Answerable, NoLeak

(* End keeps PInv, given that nothing else it speaks of changes. *)
LEMMA PendingEnd ==
    ASSUME PInv, NEW c \in Calls, Waiting(c), NEW result \in Calls \cup {None}, End(c, result),
           UNCHANGED <<next_msg_id, receipts, answers, in_progress, restarts>>
    PROVE  PInv'
<1> DEFINE id == call[c].msg_id
<1>1. TypeOK /\ id \in Nat /\ id < next_msg_id
  BY DEF PInv
<1>2. /\ call' \in [Calls -> CallState] /\ outcome' \in [Calls -> Calls \cup {None}]
      /\ phase' \in [Calls -> {"idle", "waiting", "ended"}]
      /\ call'[c].msg_id = call[c].msg_id
      /\ \A d \in Calls : d # c => call'[d] = call[d] /\ phase'[d] = phase[d]
      /\ phase'[c] = "ended" /\ removing' \subseteq Nat /\ pending' \subseteq pending
  BY <1>1, EndResult
<1>3. TypeOK'
  BY <1>1, <1>2 DEF TypeOK
<1>4. \A d \in Calls : Waiting(d)' => d # c /\ Waiting(d) /\ call'[d] = call[d]
  BY <1>2 DEF Waiting
<1>5. \A d \in Calls : Waiting(d)' => call[d].msg_id # id
  BY <1>4 DEF PInv
<1>6. /\ removing' \subseteq removing \cup {id}
      /\ \A p \in pending : p.msg_id # id => p \in pending'
      /\ \A p \in pending' : p.msg_id = id => id \in removing'
      /\ removing \subseteq removing'
  BY DEF End
<1>7. (\A p \in pending : p.msg_id < next_msg_id)' /\ (\A i \in removing : i < next_msg_id)'
  BY <1>1, <1>2, <1>6 DEF PInv
<1>8. (\A d \in Calls : Waiting(d) => call[d].msg_id \in Nat /\ call[d].msg_id < next_msg_id)'
  BY <1>4 DEF PInv
<1>9. (\A d \in Calls : Waiting(d) => call[d].msg_id \notin removing)'
  BY <1>4, <1>5, <1>6 DEF PInv
<1>10. (\A d, e \in Calls : Waiting(d) /\ Waiting(e) /\ call[d].msg_id = call[e].msg_id => d = e)'
  BY <1>4 DEF PInv
<1>11. Answerable'
  <2> SUFFICES ASSUME NEW d \in Calls, Waiting(d)', call'[d].answer = None
               PROVE  [msg_id |-> call'[d].msg_id, call |-> d] \in pending'
    BY <1>9 DEF Answerable
  <2>1. [msg_id |-> call[d].msg_id, call |-> d] \in pending
    BY <1>4 DEF PInv, Answerable
  <2> QED BY <2>1, <1>4, <1>5, <1>6
<1>12. NoLeak'
  <2> SUFFICES ASSUME NEW p \in pending', p.msg_id \notin removing'
               PROVE  Waiting(p.call)' /\ call'[p.call].msg_id = p.msg_id
    BY DEF NoLeak
  <2>1. p \in pending /\ p.msg_id \notin removing /\ p.msg_id # id /\ p.call \in Calls
    BY <1>1, <1>2, <1>6 DEF TypeOK
  <2>2. Waiting(p.call) /\ call[p.call].msg_id = p.msg_id
    BY <2>1 DEF PInv, NoLeak
  <2> QED BY <2>1, <2>2, <1>2 DEF Waiting
<1> QED BY <1>3, <1>7, <1>8, <1>9, <1>10, <1>11, <1>12 DEF PInv

(* A step that changes neither ids, answers, phases nor pending keeps PInv. *)
LEMMA PendingTimers ==
    ASSUME PInv, call' \in [Calls -> CallState], SameCalls,
           UNCHANGED <<next_msg_id, pending, removing, phase, outcome>>,
           receipts' \subseteq Calls, in_progress' \subseteq Calls,
           \A a \in answers' : a.call \in Calls, restarts' \in Nat
    PROVE  PInv'
<1>1. TypeOK'
  BY DEF PInv, TypeOK
<1>2. \A c \in Calls : Waiting(c)' = Waiting(c)
  BY DEF Waiting
<1>3. Answerable'
  BY <1>2 DEF PInv, Answerable, SameCalls
<1>4. NoLeak'
  BY <1>2 DEF PInv, TypeOK, NoLeak, SameCalls
<1> QED BY <1>1, <1>2, <1>3, <1>4 DEF PInv, SameCalls

(* The timer steps and the receipts change timers only. *)
LEMMA TimerSteps ==
    ASSUME TypeOK, NEW c \in Calls,
           Resend(c) \/ Received(c) \/ Tick \/ HandleReceived(c)
    PROVE  /\ call' \in [Calls -> CallState] /\ SameCalls
           /\ UNCHANGED <<next_msg_id, pending, removing, phase, outcome, network, restarts>>
<1>1. ASSUME NEW d \in Calls
      PROVE  call[d] \in CallState
  BY DEF TypeOK
<1>2. CASE Resend(c)
  <2>1. Capped(call[c].wait * 2) \in Nat /\ Capped(call[c].elapsed + call[c].wait * 2) \in Nat
    <3>1. call[c].wait * 2 \in Nat /\ call[c].elapsed + call[c].wait * 2 \in Nat
      BY <1>1 DEF CallState
    <3> QED BY <3>1, CappedType
  <2> DEFINE new == IF call[c].resends = MaxResends THEN [call[c] EXCEPT !.next_send = RpcTimeout]
                    ELSE [call[c] EXCEPT !.resends = call[c].resends + 1, !.wait = Capped(call[c].wait * 2),
                                         !.next_send = Capped(call[c].elapsed + call[c].wait * 2)]
  <2>2. call' = [call EXCEPT ![c] = new]
    BY <1>2 DEF Resend
  <2>3. new \in CallState /\ new.msg_id = call[c].msg_id /\ new.answer = call[c].answer
    <3>1. CASE call[c].resends = MaxResends
      BY <3>1, <1>1, RpcAssumption DEF CallState
    <3>2. CASE call[c].resends # MaxResends
      <4> DEFINE w == Capped(call[c].wait * 2)
                 n == Capped(call[c].elapsed + call[c].wait * 2)
                 r == call[c].resends + 1
      <4>1. w \in Nat /\ n \in Nat /\ r \in Nat
        BY <2>1, <1>1 DEF CallState
      <4>2. new = [call[c] EXCEPT !.resends = r, !.wait = w, !.next_send = n]
        BY <3>2
      <4> HIDE DEF w, n, r, new
      <4>3. call[c] \in CallState
        BY <1>1
      <4> QED BY <4>1, <4>2, <4>3 DEF CallState
    <3> QED BY <3>1, <3>2
  <2> HIDE DEF new
  <2> QED BY <2>2, <2>3, <1>2 DEF Resend, SameCalls, TypeOK
<1>3. CASE Received(c)
  <2>1. PICK wait \in IF call[c].receipts = 0 THEN {2 * w : w \in resend_after(To[c])'} ELSE {call[c].wait * 2} :
          call' = [call EXCEPT ![c] = [@ EXCEPT !.received = FALSE, !.receipts = 1, !.wait = Capped(wait),
                                                !.next_send = Capped(call[c].elapsed + wait)]]
    BY <1>3 DEF Received
  <2>2. wait \in Nat
    <3>1. resend_after(To[c])' \subseteq Nat
      BY RpcAssumption DEF resend_after
    <3>2. call[c].wait \in Nat
      BY <1>1 DEF CallState
    <3> QED BY <3>1, <3>2, <2>1
  <2>3. Capped(wait) \in Nat /\ Capped(call[c].elapsed + wait) \in Nat
    <3>1. call[c].elapsed + wait \in Nat
      BY <2>2, <1>1 DEF CallState
    <3> QED BY <3>1, <2>2, CappedType
  <2> DEFINE new == [call[c] EXCEPT !.received = FALSE, !.receipts = 1, !.wait = Capped(wait),
                                    !.next_send = Capped(call[c].elapsed + wait)]
  <2>4. new \in CallState /\ new.msg_id = call[c].msg_id /\ new.answer = call[c].answer
    BY <2>3, <1>1 DEF CallState
  <2>5. call' = [call EXCEPT ![c] = new]
    BY <2>1
  <2> HIDE DEF new
  <2> QED BY <2>4, <2>5, <1>3 DEF Received, SameCalls, TypeOK
<1>4. CASE Tick
  <2>1. \A d \in Calls : /\ [call[d] EXCEPT !.elapsed = @ + 1] \in CallState
                         /\ [call[d] EXCEPT !.elapsed = @ + 1].msg_id = call[d].msg_id
                         /\ [call[d] EXCEPT !.elapsed = @ + 1].answer = call[d].answer
    BY <1>1 DEF CallState
  <2> QED BY <2>1, <1>1, <1>4 DEF Tick, SameCalls
<1>5. CASE HandleReceived(c)
  <2>1. PICK p \in pending : call' = [call EXCEPT ![p.call].received = TRUE]
    BY <1>5 DEF HandleReceived
  <2>2. p.call \in Calls
    BY DEF TypeOK
  <2> DEFINE new == [call[p.call] EXCEPT !.received = TRUE]
  <2>3. new \in CallState /\ new.msg_id = call[p.call].msg_id /\ new.answer = call[p.call].answer
    BY <2>2, <1>1 DEF CallState
  <2>4. call' = [call EXCEPT ![p.call] = new]
    BY <2>1
  <2> HIDE DEF new
  <2> QED BY <2>2, <2>3, <2>4, <1>5 DEF HandleReceived, SameCalls, TypeOK
<1> QED BY <1>2, <1>3, <1>4, <1>5

(* The call that starts has the counter's id, and the others are as before. *)
LEMMA StartResult ==
    ASSUME TypeOK, NEW c \in Calls, Start(c)
    PROVE  /\ call' \in [Calls -> CallState] /\ phase' \in [Calls -> {"idle", "waiting", "ended"}]
           /\ call'[c].msg_id = next_msg_id /\ call'[c].answer = call[c].answer
           /\ \A d \in Calls : d # c => call'[d] = call[d] /\ phase'[d] = phase[d]
           /\ phase'[c] = "waiting"
<1>1. PICK wait \in resend_after(To[c]) :
        call' = [call EXCEPT ![c] = [@ EXCEPT !.msg_id = next_msg_id, !.wait = wait, !.next_send = wait]]
  BY DEF Start
<1>2. wait \in Nat /\ call[c] \in CallState
  BY WaitType DEF TypeOK
<1> DEFINE new == [call[c] EXCEPT !.msg_id = next_msg_id, !.wait = wait, !.next_send = wait]
<1>3. new \in CallState /\ new.msg_id = next_msg_id /\ new.answer = call[c].answer
  BY <1>2 DEF CallState, TypeOK
<1>4. call' = [call EXCEPT ![c] = new]
  BY <1>1
<1> HIDE DEF new
<1> QED BY <1>3, <1>4 DEF Start, TypeOK

(* The answer reaches the call of the entry that it takes. *)
LEMMA AnswerResult ==
    ASSUME TypeOK, NEW a \in answers, HandleAnswer(a)
    PROVE  \E p \in pending :
             /\ p.call \in Calls /\ p.msg_id = call[a.call].msg_id /\ To[p.call] = To[a.call]
             /\ a.message \in accepts(Kind[p.call])
             /\ pending' = pending \ {p}
             /\ call' \in [Calls -> CallState]
             /\ \A d \in Calls : call'[d].msg_id = call[d].msg_id
             /\ \A d \in Calls : d # p.call \/ ~Waiting(d) => call'[d].answer = call[d].answer
             /\ Waiting(p.call) => call'[p.call].answer = a.call
<1>1. PICK p \in pending : /\ p.msg_id = call[a.call].msg_id /\ To[p.call] = To[a.call]
                           /\ a.message \in accepts(Kind[p.call])
                           /\ pending' = pending \ {p} /\ call' = Reply(p.call, a.call)
  BY DEF HandleAnswer
<1>2. p.call \in Calls /\ a.call \in Calls
  BY DEF TypeOK
<1>3. CASE ~Waiting(p.call)
  BY <1>1, <1>2, <1>3 DEF Reply, TypeOK
<1>4. CASE Waiting(p.call)
  <2> DEFINE new == [call[p.call] EXCEPT !.answer = a.call]
  <2>1. call[p.call] \in CallState
    BY <1>2 DEF TypeOK
  <2>2. new \in CallState /\ new.msg_id = call[p.call].msg_id /\ new.answer = a.call
    BY <2>1, <1>2 DEF CallState
  <2>3. call' = [call EXCEPT ![p.call] = new]
    BY <1>1, <1>4 DEF Reply
  <2> HIDE DEF new
  <2> QED BY <1>1, <1>2, <1>4, <2>2, <2>3 DEF TypeOK
<1> QED BY <1>3, <1>4

-----------------------------------------------------------------------------
(* Start keeps PInv: the counter's id is fresh. *)
LEMMA PendingStart ==
    ASSUME PInv, NEW c \in Calls, Start(c)
    PROVE  PInv'
<1> DEFINE id == next_msg_id
           mine == [msg_id |-> id, call |-> c]
<1>1. TypeOK /\ id \in Nat /\ next_msg_id' = id + 1 /\ removing' = removing
  BY DEF PInv, TypeOK, Start
<1>2. /\ call' \in [Calls -> CallState] /\ phase' \in [Calls -> {"idle", "waiting", "ended"}]
      /\ call'[c].msg_id = id
      /\ \A d \in Calls : d # c => call'[d] = call[d] /\ phase'[d] = phase[d]
      /\ phase'[c] = "waiting" /\ phase[c] = "idle"
  BY <1>1, StartResult DEF Start
<1>3. \A p \in pending : p.msg_id \in Nat /\ p.msg_id < id /\ p.msg_id # id
  BY <1>1 DEF PInv, TypeOK
<1>4. pending' = pending \cup {mine}
  BY <1>3 DEF Start
<1>5. TypeOK'
  BY <1>1, <1>2, <1>4 DEF TypeOK, Start, network
<1>6. \A d \in Calls : Waiting(d)' => d = c \/ (d # c /\ Waiting(d) /\ call'[d] = call[d] /\ call[d].msg_id < id)
  BY <1>2 DEF Waiting, PInv
<1>7. (\A p \in pending : p.msg_id < next_msg_id)' /\ (\A i \in removing : i < next_msg_id)'
  BY <1>1, <1>3, <1>4 DEF PInv, TypeOK
<1>8. (\A d \in Calls : Waiting(d) => call[d].msg_id \in Nat /\ call[d].msg_id < next_msg_id)'
  BY <1>1, <1>2, <1>6 DEF PInv
<1>9. (\A d \in Calls : Waiting(d) => call[d].msg_id \notin removing)'
  BY <1>1, <1>2, <1>6 DEF PInv
<1>10. (\A d, e \in Calls : Waiting(d) /\ Waiting(e) /\ call[d].msg_id = call[e].msg_id => d = e)'
  BY <1>1, <1>2, <1>6 DEF PInv
<1>11. Answerable'
  BY <1>2, <1>4, <1>6, <1>9 DEF PInv, Answerable
<1>12. NoLeak'
  <2> SUFFICES ASSUME NEW p \in pending', p.msg_id \notin removing'
               PROVE  Waiting(p.call)' /\ call'[p.call].msg_id = p.msg_id
    BY DEF NoLeak
  <2>1. CASE p = mine
    BY <2>1, <1>2 DEF Waiting
  <2>2. CASE p \in pending
    <3>1. Waiting(p.call) /\ call[p.call].msg_id = p.msg_id /\ p.call \in Calls
      BY <2>2, <1>1 DEF PInv, NoLeak, TypeOK
    <3> QED BY <3>1, <1>2 DEF Waiting
  <2> QED BY <2>1, <2>2, <1>4
<1> QED BY <1>5, <1>7, <1>8, <1>9, <1>10, <1>11, <1>12 DEF PInv

(* The answer keeps PInv: the call whose entry it takes has it. *)
LEMMA PendingAnswer ==
    ASSUME PInv, NEW a \in answers, HandleAnswer(a)
    PROVE  PInv'
<1>1. TypeOK /\ a.call \in Calls /\ a.call # None
  BY RpcAssumption DEF PInv, TypeOK
<1>2. PICK p \in pending :
             /\ p.call \in Calls /\ pending' = pending \ {p}
             /\ call' \in [Calls -> CallState]
             /\ \A d \in Calls : call'[d].msg_id = call[d].msg_id
             /\ \A d \in Calls : d # p.call \/ ~Waiting(d) => call'[d].answer = call[d].answer
             /\ Waiting(p.call) => call'[p.call].answer = a.call
  BY <1>1, AnswerResult
<1>3. UNCHANGED <<next_msg_id, removing, phase, outcome, receipts, answers, in_progress, restarts>>
  BY DEF HandleAnswer, network
<1>4. TypeOK'
  BY <1>1, <1>2, <1>3 DEF TypeOK
<1>5. \A d \in Calls : Waiting(d)' = Waiting(d)
  BY <1>3 DEF Waiting
<1>6. Answerable'
  BY <1>1, <1>2, <1>3, <1>5 DEF PInv, Answerable
<1>7. NoLeak'
  BY <1>1, <1>2, <1>3, <1>5 DEF PInv, NoLeak, TypeOK
<1> QED BY <1>2, <1>3, <1>4, <1>5, <1>6, <1>7 DEF PInv

(* PInv holds at first and every step keeps it, restarts included. *)
THEOREM PendingInvariance == Spec => []PInv
<1>1. PInv /\ [Next]_vars => PInv'
  <2> SUFFICES ASSUME PInv, [Next]_vars PROVE PInv'
    OBVIOUS
  <2>0. TypeOK
    BY DEF PInv
  <2>1. ASSUME NEW c \in Calls, Start(c) PROVE PInv'
    BY <2>1, PendingStart
  <2>2. ASSUME NEW c \in Calls, Cancel(c) \/ Timeout(c) PROVE PInv'
    BY <2>2, PendingEnd DEF Cancel, Timeout, network
  <2>3. ASSUME NEW c \in Calls, Return(c) PROVE PInv'
    <3>1. call[c].answer \in Calls \cup {None}
      BY <2>0 DEF TypeOK, CallState
    <3> QED BY <3>1, <2>3, PendingEnd DEF Return, network
  <2>4. ASSUME NEW c \in Calls, Resend(c) \/ Received(c) \/ Tick \/ HandleReceived(c) PROVE PInv'
    <3>1. /\ call' \in [Calls -> CallState] /\ SameCalls
          /\ UNCHANGED <<next_msg_id, pending, removing, phase, outcome, network, restarts>>
      BY <2>0, <2>4, TimerSteps
    <3> QED BY <3>1, <2>0, PendingTimers DEF network, TypeOK
  <2>5. ASSUME NEW c \in Calls, HandleRequest(c) \/ Handled(c) PROVE PInv'
    <3>1. UNCHANGED <<next_msg_id, pending, removing, phase, call, outcome, restarts>>
      BY <2>5 DEF HandleRequest, Handled
    <3>2. receipts' \subseteq Calls /\ in_progress' \subseteq Calls /\ \A a \in answers' : a.call \in Calls
      BY <2>0, <2>5 DEF HandleRequest, Handled, TypeOK
    <3> QED BY <3>1, <3>2, <2>0, PendingTimers DEF TypeOK, SameCalls
  <2>6. ASSUME NEW a \in answers, HandleAnswer(a) PROVE PInv'
    BY <2>6, PendingAnswer
  <2>7. ASSUME NEW id \in removing, RemoveLater(id) PROVE PInv'
    <3>1. /\ pending' = {p \in pending : p.msg_id # id} /\ removing' = removing \ {id}
          /\ UNCHANGED <<next_msg_id, phase, call, outcome, receipts, answers, in_progress, restarts>>
      BY <2>7 DEF RemoveLater, network
    <3>2. \A c \in Calls : Waiting(c)' = Waiting(c) /\ (Waiting(c) => call[c].msg_id # id)
      BY <3>1 DEF Waiting, PInv
    <3>3. TypeOK'
      BY <3>1, <2>0 DEF TypeOK
    <3>4. Answerable'
      BY <3>1, <3>2 DEF PInv, Answerable
    <3>5. NoLeak'
      BY <3>1, <3>2, <2>0 DEF PInv, NoLeak, TypeOK
    <3> QED BY <3>1, <3>2, <3>3, <3>4, <3>5 DEF PInv
  <2>8. CASE Restart
    <3>1. \A c \in Calls : ~Waiting(c)'
      BY <2>8 DEF Restart, Waiting
    <3>2. \A c \in Calls : NoCall(call[c].msg_id) \in CallState
      BY <2>0, NoCallType DEF TypeOK, CallState
    <3>3. TypeOK'
      BY <2>0, <2>8, <3>2 DEF Restart, TypeOK, network, Waiting
    <3> QED BY <2>8, <3>1, <3>3 DEF Restart, PInv, Answerable, NoLeak
  <2>9. CASE UNCHANGED vars
    <3>1. SameCalls /\ UNCHANGED <<next_msg_id, pending, removing, phase, outcome>>
      BY <2>9 DEF vars, SameCalls
    <3> QED BY <3>1, <2>0, <2>9, PendingTimers DEF vars, TypeOK
  <2>10. CASE Tick
    <3>1. PICK c \in Calls : Waiting(c)
      BY <2>10 DEF Tick
    <3> QED BY <2>10, <2>4
  <2> QED BY <2>1, <2>2, <2>3, <2>4, <2>5, <2>6, <2>7, <2>8, <2>9, <2>10 DEF Next
<1> QED BY <1>1, PendingInit, PTL DEF Spec

(* A call that waits can always be answered, whatever other calls end, are
   cancelled or removed late, and however often the node restarts. *)
THEOREM CallsAnswerable == Spec => []Answerable
<1>1. PInv => Answerable
  BY DEF PInv
<1> QED BY <1>1, PendingInvariance, PTL

(* The pending map holds no entry of a call that is over, but for those that a
   spawned task is about to remove. *)
THEOREM PendingNoLeak == Spec => []NoLeak
<1>1. PInv => NoLeak
  BY DEF PInv
<1> QED BY <1>1, PendingInvariance, PTL

(* The calls and the pending map are well-typed, and right for every call. *)
THEOREM PendingIsSound == Spec => []PendingSound
<1>1. PInv => PendingSound
  BY DEF PInv, PendingSound
<1> QED BY <1>1, PendingInvariance, PTL

-----------------------------------------------------------------------------
(* The answer o is one that call c may return. *)
Fits(c, o) ==
    /\ To[o] = To[c]
    /\ \E message \in accepts(Kind[c]) : [call |-> o, message |-> message] \in answers

(* The caller accepts whatever its peer may answer with. *)
LEMMA DispatchAccepted == \A c \in Calls : dispatch_request(Kind[c]) \subseteq accepts(Kind[c])
BY RpcAssumption DEF Kinds, dispatch_request, accepts

(* The answers that have reached a call fit it, and so does what it returned;
   each fits the request it was sent for. *)
FInv ==
    /\ \A a \in answers : a = [call |-> a.call, message |-> a.message] /\ a.message \in accepts(Kind[a.call])
    /\ \A c \in Calls : call[c].answer # None => Fits(c, call[c].answer)
    /\ \A c \in Calls : outcome[c] # None => Fits(c, outcome[c])

(* An answer that fits goes on to fit: the network forgets none. *)
LEMMA FitsStays ==
    ASSUME answers \subseteq answers', NEW c, NEW o, Fits(c, o)
    PROVE  Fits(c, o)'
BY DEF Fits

(* A step that gives no call a new answer keeps FInv. *)
LEMMA FitSame ==
    ASSUME FInv, answers \subseteq answers',
           \A a \in answers' : a = [call |-> a.call, message |-> a.message] /\ a.message \in accepts(Kind[a.call]),
           \A c \in Calls : call'[c].answer \in {call[c].answer, None},
           \A c \in Calls : outcome'[c] \in {outcome[c], call[c].answer, None}
    PROVE  FInv'
<1>1. ASSUME NEW c \in Calls, call'[c].answer # None PROVE Fits(c, call[c].answer)'
  BY <1>1, FitsStays DEF FInv
<1>2. ASSUME NEW c \in Calls, outcome'[c] # None PROVE Fits(c, outcome[c])'
  <2>1. CASE outcome'[c] = outcome[c]
    <3>1. Fits(c, outcome[c])
      BY <1>2, <2>1 DEF FInv
    <3> QED BY <2>1, <3>1 DEF Fits
  <2>2. CASE outcome'[c] = call[c].answer
    <3>1. Fits(c, call[c].answer)
      BY <1>2, <2>2 DEF FInv
    <3> QED BY <2>2, <3>1 DEF Fits
  <2> QED BY <1>2, <2>1, <2>2
<1> QED BY <1>1, <1>2 DEF FInv

(* FInv holds at first and every step keeps it, restarts included. *)
LEMMA FitInvariance == Spec => []FInv
<1>1. Init => FInv
  <2>1. NoCall(-1).answer = None
    BY NoCallType
  <2> QED BY <2>1 DEF Init, FInv
<1>2. PInv /\ FInv /\ [Next]_vars => FInv'
  <2> SUFFICES ASSUME PInv, FInv, [Next]_vars PROVE FInv'
    OBVIOUS
  <2>0. /\ TypeOK
        /\ \A a \in answers : /\ a.call \in Calls /\ a = [call |-> a.call, message |-> a.message]
                             /\ a.message \in accepts(Kind[a.call])
    BY DEF PInv, TypeOK, FInv
  <2>1. ASSUME NEW c \in Calls, Start(c) PROVE FInv'
    <3>1. \A d \in Calls : call'[d].answer = call[d].answer
      BY <2>0, <2>1, StartResult
    <3>2. UNCHANGED <<outcome, answers>>
      BY <2>1 DEF Start, network
    <3> QED BY <2>0, <3>1, <3>2, FitSame
  <2>2. ASSUME NEW c \in Calls, NEW result \in {call[c].answer, None}, End(c, result), UNCHANGED answers
        PROVE  FInv'
    <3>1. result \in Calls \cup {None}
      BY <2>0 DEF TypeOK, CallState
    <3>2. /\ \A d \in Calls : call'[d].answer \in {call[d].answer, None}
          /\ \A d \in Calls : outcome'[d] \in {outcome[d], call[d].answer, None}
      BY <2>0, <2>2, <3>1, EndResult
    <3> QED BY <2>0, <2>2, <3>2, FitSame
  <2>3. ASSUME NEW c \in Calls, Cancel(c) \/ Timeout(c) \/ Return(c) PROVE FInv'
    BY <2>2, <2>3 DEF Cancel, Timeout, Return, network
  <2>4. ASSUME NEW c \in Calls, Resend(c) \/ Received(c) \/ Tick \/ HandleReceived(c) PROVE FInv'
    <3>1. SameCalls /\ UNCHANGED <<outcome, network>>
      BY <2>0, <2>4, TimerSteps
    <3> QED BY <3>1, <2>0, FitSame DEF network, SameCalls
  <2>5. ASSUME NEW c \in Calls, HandleRequest(c) \/ Handled(c) PROVE FInv'
    <3>1. UNCHANGED <<call, outcome>>
      BY <2>5 DEF HandleRequest, Handled
    <3>2. \/ answers' = answers
          \/ \E message \in accepts(Kind[c]) : answers' = answers \cup {[call |-> c, message |-> message]}
      BY <2>5, DispatchAccepted DEF HandleRequest, Handled
    <3>3. /\ answers \subseteq answers'
          /\ \A a \in answers' : a = [call |-> a.call, message |-> a.message] /\ a.message \in accepts(Kind[a.call])
      BY <2>0, <3>2
    <3> QED BY <3>1, <3>3, FitSame
  <2>6. ASSUME NEW a \in answers, HandleAnswer(a) PROVE FInv'
    <3>1. PICK p \in pending :
             /\ p.call \in Calls /\ To[p.call] = To[a.call] /\ a.message \in accepts(Kind[p.call])
             /\ \A d \in Calls : d # p.call \/ ~Waiting(d) => call'[d].answer = call[d].answer
             /\ Waiting(p.call) => call'[p.call].answer = a.call
      BY <2>0, <2>6, AnswerResult
    <3>2. UNCHANGED <<outcome, answers>>
      BY <2>6 DEF HandleAnswer, network
    <3>3. [call |-> a.call, message |-> a.message] \in answers
      BY <2>0
    <3>4. Fits(p.call, a.call)
      BY <3>1, <3>3 DEF Fits
    <3>5. ASSUME NEW d \in Calls, call'[d].answer # None PROVE Fits(d, call'[d].answer)
      BY <3>1, <3>4, <3>5 DEF FInv
    <3> QED BY <3>2, <3>5 DEF FInv, Fits
  <2>7. ASSUME NEW id \in removing, RemoveLater(id) PROVE FInv'
    <3>1. UNCHANGED <<call, outcome, answers>>
      BY <2>7 DEF RemoveLater, network
    <3> QED BY <3>1, <2>0, FitSame
  <2>8. CASE Restart
    <3>1. \A c \in Calls : NoCall(call[c].msg_id).answer = None
      BY <2>0, NoCallType DEF TypeOK, CallState
    <3>2. UNCHANGED <<outcome, answers>> /\ \A c \in Calls : call'[c].answer = None
      BY <2>8, <3>1 DEF Restart, network
    <3> QED BY <3>2, <2>0, FitSame
  <2>9. CASE UNCHANGED vars
    <3>1. UNCHANGED <<call, outcome, answers>>
      BY <2>9 DEF vars
    <3> QED BY <3>1, <2>0, FitSame
  <2>10. CASE Tick
    <3>1. PICK c \in Calls : Waiting(c)
      BY <2>10 DEF Tick
    <3> QED BY <2>10, <2>4
  <2> QED BY <2>1, <2>3, <2>4, <2>5, <2>6, <2>7, <2>8, <2>9, <2>10 DEF Next
<1> QED BY <1>1, <1>2, PendingInvariance, PTL DEF Spec

-----------------------------------------------------------------------------
(* While the caller does not restart: a call has its id for itself, an entry
   has the id of its call, messages are about calls that have started, and
   the answer a call has is its own. *)
OInv ==
    /\ restarts = 0
    /\ \A c \in Calls : phase[c] # "idle" => call[c].msg_id \in Nat /\ call[c].msg_id < next_msg_id
    /\ \A c, d \in Calls :
          phase[c] # "idle" /\ phase[d] # "idle" /\ call[c].msg_id = call[d].msg_id => c = d
    /\ \A p \in pending : phase[p.call] # "idle" /\ call[p.call].msg_id = p.msg_id
    /\ \A c \in in_progress : phase[c] # "idle"
    /\ \A a \in answers : phase[a.call] # "idle"
    /\ \A c \in Calls : call[c].answer \in {c, None}
    /\ \A c \in Calls : outcome[c] \in {c, None}

(* A step that changes no id, answer, phase nor outcome keeps OInv. *)
LEMMA OwnSame ==
    ASSUME PInv, OInv, SameCalls, pending' \subseteq pending,
           UNCHANGED <<next_msg_id, phase, outcome, restarts>>,
           \A c \in in_progress' : c \in Calls /\ phase[c] # "idle",
           \A a \in answers' : a.call \in Calls /\ phase[a.call] # "idle"
    PROVE  OInv'
<1>1. \A p \in pending : p.call \in Calls
  BY DEF PInv, TypeOK
<1> QED BY <1>1 DEF OInv, SameCalls

(* End keeps OInv when the result is the call's own. *)
LEMMA OwnEnd ==
    ASSUME PInv, OInv, NEW c \in Calls, Waiting(c), NEW result \in {c, None}, End(c, result),
           UNCHANGED <<next_msg_id, receipts, answers, in_progress, restarts>>
    PROVE  OInv'
<1>1. /\ call'[c].msg_id = call[c].msg_id /\ call'[c].answer = None
      /\ \A d \in Calls : d # c => call'[d] = call[d] /\ phase'[d] = phase[d] /\ outcome'[d] = outcome[d]
      /\ phase'[c] = "ended" /\ outcome'[c] = result /\ pending' \subseteq pending
  BY EndResult DEF PInv
<1>2. \A d \in Calls : call'[d].msg_id = call[d].msg_id /\ (phase'[d] = "idle") = (phase[d] = "idle")
  BY <1>1 DEF Waiting
<1>3. /\ \A p \in pending : p.call \in Calls
      /\ \A a \in answers : a.call \in Calls
      /\ in_progress \subseteq Calls
  BY DEF PInv, TypeOK
<1>4. \A d \in Calls : call'[d].answer \in {d, None} /\ outcome'[d] \in {d, None}
  BY <1>1 DEF OInv
<1> QED BY <1>1, <1>2, <1>3, <1>4 DEF OInv

(* OInv holds at first and every step but a restart keeps it. *)
LEMMA OwnInvariance == Spec => [](restarts # 0 \/ OInv)
<1>1. Init => restarts # 0 \/ OInv
  <2>1. NoCall(-1).answer = None
    BY NoCallType
  <2> QED BY <2>1 DEF Init, OInv
<1>2. PInv /\ OInv /\ [Next]_vars /\ ~Restart => OInv'
  <2> SUFFICES ASSUME PInv, OInv, [Next]_vars, ~Restart PROVE OInv'
    OBVIOUS
  <2>0. /\ TypeOK
        /\ \A p \in pending : p.call \in Calls
        /\ \A a \in answers : a.call \in Calls
        /\ in_progress \subseteq Calls
    BY DEF PInv, TypeOK
  <2>1. ASSUME NEW c \in Calls, Start(c) PROVE OInv'
    <3>1. /\ call'[c].msg_id = next_msg_id /\ call'[c].answer = call[c].answer
          /\ \A d \in Calls : d # c => call'[d] = call[d] /\ phase'[d] = phase[d]
          /\ phase'[c] = "waiting" /\ phase[c] = "idle" /\ next_msg_id \in Nat
          /\ next_msg_id' = next_msg_id + 1
          /\ UNCHANGED <<outcome, answers, in_progress, restarts>>
      BY <2>0, <2>1, StartResult DEF Start, TypeOK, network
    <3>2. pending' \subseteq pending \cup {[msg_id |-> next_msg_id, call |-> c]}
      BY <2>1 DEF Start
    <3>3. (\A d \in Calls : phase[d] # "idle" => call[d].msg_id \in Nat /\ call[d].msg_id < next_msg_id)'
      BY <3>1 DEF OInv
    <3>4. (\A d, e \in Calls :
             phase[d] # "idle" /\ phase[e] # "idle" /\ call[d].msg_id = call[e].msg_id => d = e)'
      BY <3>1 DEF OInv
    <3>5. (\A p \in pending : phase[p.call] # "idle" /\ call[p.call].msg_id = p.msg_id)'
      BY <3>1, <3>2, <2>0 DEF OInv
    <3>6. (\A d \in in_progress : phase[d] # "idle")' /\ (\A a \in answers : phase[a.call] # "idle")'
      BY <3>1, <2>0 DEF OInv
    <3> QED BY <3>1, <3>3, <3>4, <3>5, <3>6 DEF OInv
  <2>2. ASSUME NEW c \in Calls, Cancel(c) \/ Timeout(c) PROVE OInv'
    BY <2>2, OwnEnd DEF Cancel, Timeout, network
  <2>3. ASSUME NEW c \in Calls, Return(c) PROVE OInv'
    <3>1. call[c].answer \in {c, None}
      BY DEF OInv
    <3> QED BY <3>1, <2>3, OwnEnd DEF Return, network
  <2>4. ASSUME NEW c \in Calls, Resend(c) \/ Received(c) \/ Tick \/ HandleReceived(c) PROVE OInv'
    <3>1. SameCalls /\ UNCHANGED <<next_msg_id, pending, removing, phase, outcome, network, restarts>>
      BY <2>0, <2>4, TimerSteps
    <3> QED BY <3>1, <2>0, OwnSame DEF network, OInv
  <2>5. ASSUME NEW c \in Calls, HandleRequest(c) \/ Handled(c) PROVE OInv'
    <3>1. UNCHANGED <<next_msg_id, pending, removing, phase, call, outcome, restarts>>
      BY <2>5 DEF HandleRequest, Handled
    <3>2. /\ \A d \in in_progress' : d \in Calls /\ phase[d] # "idle"
          /\ \A a \in answers' : a.call \in Calls /\ phase[a.call] # "idle"
      BY <2>0, <2>5 DEF HandleRequest, Handled, OInv
    <3> QED BY <3>1, <3>2, OwnSame DEF SameCalls
  <2>6. ASSUME NEW a \in answers, HandleAnswer(a) PROVE OInv'
    <3>1. PICK p \in pending :
             /\ p.call \in Calls /\ p.msg_id = call[a.call].msg_id
             /\ pending' = pending \ {p}
             /\ \A d \in Calls : call'[d].msg_id = call[d].msg_id
             /\ \A d \in Calls : d # p.call \/ ~Waiting(d) => call'[d].answer = call[d].answer
             /\ Waiting(p.call) => call'[p.call].answer = a.call
      BY <2>0, <2>6, AnswerResult
    <3>2. p.call = a.call
      BY <3>1, <2>0 DEF OInv
    <3>3. \A d \in Calls : call'[d].answer \in {d, None}
      BY <3>1, <3>2 DEF OInv
    <3>4. UNCHANGED <<next_msg_id, phase, outcome, answers, in_progress, restarts>>
      BY <2>6 DEF HandleAnswer, network
    <3> QED BY <3>1, <3>3, <3>4, <2>0 DEF OInv
  <2>7. ASSUME NEW id \in removing, RemoveLater(id) PROVE OInv'
    <3>1. /\ pending' \subseteq pending /\ SameCalls
          /\ UNCHANGED <<next_msg_id, phase, outcome, answers, in_progress, restarts>>
      BY <2>7 DEF RemoveLater, network, SameCalls
    <3> QED BY <3>1, <2>0, OwnSame DEF OInv
  <2>9. CASE UNCHANGED vars
    BY <2>9, <2>0, OwnSame DEF vars, SameCalls, OInv
  <2>10. CASE Tick
    <3>1. PICK c \in Calls : Waiting(c)
      BY <2>10 DEF Tick
    <3> QED BY <2>10, <2>4
  <2> QED BY <2>1, <2>2, <2>3, <2>4, <2>5, <2>6, <2>7, <2>9, <2>10 DEF Next
<1>3. PInv /\ (restarts # 0 \/ OInv) /\ [Next]_vars => (restarts # 0 \/ OInv)'
  <2> SUFFICES ASSUME PInv, restarts # 0 \/ OInv, [Next]_vars, restarts' = 0 PROVE OInv'
    OBVIOUS
  <2>1. restarts \in Nat
    BY DEF PInv, TypeOK
  <2>2. ~Restart
    BY <2>1 DEF Restart
  <2>3. restarts' = restarts
    BY <2>2 DEF Next, vars, Start, Cancel, Timeout, Resend, Received, Return, HandleReceived,
                HandleRequest, Handled, HandleAnswer, RemoveLater, Tick
  <2> QED BY <2>2, <2>3, <1>2
<1> QED BY <1>1, <1>3, PendingInvariance, PTL DEF Spec

(* What a call returns was sent by the peer it asked and has a type that
   answers its request, however often the node has restarted and used its ids
   again; until it restarts, it is the answer to the request the call sent,
   however late, reordered or repeated the answers to it and to others are. *)
THEOREM OwnAnswers == Spec => []AnswersMatch
<1>1. FInv /\ (restarts # 0 \/ OInv) => AnswersMatch
  BY DEF FInv, Fits, OInv, AnswersMatch
<1> QED BY <1>1, FitInvariance, OwnInvariance, PTL
=============================================================================
