----------------------------- MODULE ServerLife -----------------------------
(***************************************************************************)
(* The life of a server: listen, stop and drop (src/src/network/mod.rs),   *)
(* the background tasks it owns (protocol/mod.rs, maintenance.rs), and the *)
(* callers that share it: the futures of the Python bindings               *)
(* (py_bindings.rs) and the commands of the testbed node                   *)
(* (testbed/node.rs), behind a read-write lock and, for commands about its *)
(* DID, a mutex.  Both locks serve in order of arrival.                    *)
(*                                                                         *)
(* A protocol is the number of the `listen` that made it.  Its socket is   *)
(* bound while anything holds the protocol.  The tasks of one protocol     *)
(* that serve it (workers, receive loop, refresh, maintenance, stats) act  *)
(* alike here and are one.                                                 *)
(***************************************************************************)
EXTENDS Integers, Sequences

CONSTANTS
    Callers,     \* callers, each of one command (bound)
    Commands,    \* Callers -> the commands that each may give (bound)
    Ports,       \* the ports that are given to `listen`
    Listens      \* calls of `listen` that succeed (bound)

ASSUME LifeAssumption ==
    /\ \A c \in Callers : Commands[c] \subseteq
          {"call", "publish", "info", "new", "listen", "save", "stop"}
    /\ Ports # {} /\ Listens \in Nat \ {0}

VARIABLES
    command,     \* per caller
    at,          \* per caller: how many locks it has asked for, and where it is
    mutex,       \* the identity mutex: its holder and then those that wait
    waiting,     \* the read-write lock: those that wait, in order
    readers, writer,   \* and those that hold it
    protocol,    \* Server.protocol: 0 is None
    stopping,    \* the protocol that `stop` has taken, or 0
    made,        \* calls of `listen` that have succeeded
    port,        \* protocol -> the port of its socket
    replaced,    \* protocols in whose place a second `listen` put another
    tasks,       \* the tasks that run: [of : protocols, kind]
    taken,       \* protocols whose JoinSet is gone: their tasks are cancelled
    joining,     \* the tasks of the JoinSet that `stop` waits for
    requests,    \* protocols with requests of a lookup that run as tasks of their own
    dropped      \* the server is dropped

locks == <<mutex, waiting, readers, writer>>
owned == <<protocol, stopping, made, port, replaced, tasks, taken, joining, requests, dropped>>
lifeVars == <<command, at, locks, owned>>

Free == "free"
Kinds == {"service", "saver", "check"}
Of(p) == {t \in tasks : t.of = p}
Bound(p) == protocol = p \/ stopping = p \/ Of(p) # {} \/ p \in requests

-----------------------------------------------------------------------------
(* The locks of a command, in the order in which it asks for them. *)

(* The futures of the bindings.  "call" is any that only uses the server: get,
   set, set_detailed, update, bootstrap, stats, save_state. *)
Shared == <<"read">>
Exclusive == <<"write">>

(* Mutant: `info` takes the lock of the server before the one of the DID. *)
ServerFirst(cmd) ==
    CASE cmd = "publish" -> <<"mutex", "read">> [] cmd = "info" -> <<"read", "mutex">>
      [] cmd = "new" -> <<"mutex">>

(* The commands of the testbed about its DID.  "publish" is also its update,
   "new" also discard and forget; the others are a "call". *)
handle(cmd) ==
    CASE cmd = "publish" -> <<"mutex", "read">> [] cmd = "info" -> <<"mutex", "read">>
      [] cmd = "new" -> <<"mutex">>

Acquires(cmd) ==
    CASE cmd = "call" -> Shared [] cmd \in {"listen", "save", "stop"} -> Exclusive
      [] OTHER -> handle(cmd)

Ask(c) ==
    LET want == Acquires(command[c])[at[c].asked + 1]
    IN  /\ at[c].pc = "go" /\ at[c].asked < Len(Acquires(command[c]))
        /\ IF want = "mutex" THEN mutex' = Append(mutex, c) /\ UNCHANGED waiting
           ELSE waiting' = Append(waiting, <<c, want>>) /\ UNCHANGED mutex
        /\ at' = [at EXCEPT ![c] = [asked |-> @.asked + 1, pc |-> want]]
        /\ UNCHANGED <<command, readers, writer, owned>>

(* The lock at the head of the queue is granted, which wakes its caller. *)
Granted(c) ==
    /\ \/ /\ at[c].pc = "mutex" /\ Head(mutex) = c
          /\ UNCHANGED <<waiting, readers, writer>>
       \/ /\ at[c].pc \in {"read", "write"} /\ Head(waiting)[1] = c /\ writer = Free
          /\ at[c].pc = "write" => readers = {}
          /\ waiting' = Tail(waiting)
          /\ IF at[c].pc = "write" THEN writer' = c /\ UNCHANGED readers
             ELSE readers' = readers \cup {c} /\ UNCHANGED writer
    /\ at' = [at EXCEPT ![c].pc = "go"]
    /\ UNCHANGED <<command, mutex, owned>>

(* A command ends and drops its guards. *)
Ends(c) ==
    /\ at' = [at EXCEPT ![c].pc = "done"]
    /\ readers' = readers \ {c}
    /\ writer' = IF writer = c THEN Free ELSE writer
    /\ mutex' = SelectSeq(mutex, LAMBDA x : x # c)
    /\ UNCHANGED <<command, waiting>>

Holds(c, cmd) ==
    /\ at[c].pc = "go" /\ command[c] = cmd
    /\ at[c].asked = Len(Acquires(cmd))

-----------------------------------------------------------------------------
(* A command that changes nothing here; it takes as long as its requests. *)
Use(c) ==
    /\ \E cmd \in {"call", "publish", "info", "new"} : Holds(c, cmd)
    /\ Ends(c) /\ UNCHANGED owned

(* bind fails while the port is taken, or for another reason (bound).  Whether
   the server listens already is not asked: on another port the second protocol
   takes the place of the first, whose tasks nobody cancels. *)
listen(c) ==
    /\ Holds(c, "listen") /\ Ends(c)
    /\ \E given \in Ports :
          IF made = Listens \/ \E p \in 1 .. made : port[p] = given /\ Bound(p) THEN UNCHANGED owned
          ELSE /\ made' = made + 1 /\ protocol' = made + 1 /\ port' = Append(port, given)
               /\ replaced' = replaced \cup ({protocol} \ {0})
               /\ tasks' = tasks \cup {[of |-> made + 1, kind |-> "service"]}
               /\ UNCHANGED <<stopping, taken, joining, requests, dropped>>

(* Mutant: a task that comes after the JoinSet is gone runs detached. *)
SpawnDetached(p, kind) == tasks' = tasks \cup {[of |-> p, kind |-> kind]}

spawn_task(p, kind) ==
    IF p \in taken THEN UNCHANGED tasks
    ELSE tasks' = tasks \cup {[of |-> p, kind |-> kind]}

save_state_regularly(c) ==
    /\ Holds(c, "save") /\ Ends(c)
    /\ IF protocol = 0 THEN UNCHANGED tasks ELSE spawn_task(protocol, "saver")
    /\ UNCHANGED <<protocol, stopping, made, port, replaced, taken, joining, requests, dropped>>

(* stop: take the protocol, send the Leave messages, take the tasks and cancel
   them, and wait until they are gone. *)
StopBegins(c) ==
    /\ Holds(c, "stop")
    /\ IF protocol = 0 THEN Ends(c) /\ UNCHANGED owned
       ELSE /\ stopping' = protocol /\ protocol' = 0
            /\ at' = [at EXCEPT ![c].pc = "leave"]
            /\ UNCHANGED <<command, locks, made, port, replaced, tasks, taken, joining, requests, dropped>>

take_tasks(c) ==
    /\ at[c].pc = "leave"
    /\ taken' = taken \cup {stopping} /\ joining' = Of(stopping)
    /\ at' = [at EXCEPT ![c].pc = "join"]
    /\ UNCHANGED <<command, locks, protocol, stopping, made, port, replaced, tasks, requests, dropped>>

shutdown_tasks(c) ==
    /\ at[c].pc = "join" /\ joining = {}
    /\ stopping' = 0 /\ Ends(c)
    /\ UNCHANGED <<protocol, made, port, replaced, tasks, taken, joining, requests, dropped>>

(* Drop: the last caller is gone.  Nothing waits for the tasks. *)
drop ==
    /\ ~dropped /\ \A c \in Callers : at[c].pc = "done"
    /\ dropped' = TRUE /\ protocol' = 0
    /\ taken' = IF protocol = 0 THEN taken ELSE taken \cup {protocol}
    /\ UNCHANGED <<command, at, locks, stopping, made, port, replaced, tasks, joining, requests>>

-----------------------------------------------------------------------------
(* The tasks: a worker spawns the check of a STORE, or a welcome; the lookup of
   a check has requests that are tasks of its own JoinSet. *)
Spawns(p) ==
    /\ [of |-> p, kind |-> "service"] \in tasks
    /\ spawn_task(p, "check")
    /\ UNCHANGED <<command, at, locks, protocol, stopping, made, port, replaced, taken, joining, requests, dropped>>

CheckAsks(p) ==
    /\ [of |-> p, kind |-> "check"] \in tasks /\ p \notin requests
    /\ requests' = requests \cup {p}
    /\ UNCHANGED <<command, at, locks, protocol, stopping, made, port, replaced, tasks, taken, joining, dropped>>

(* A task ends: a check when it is over, the others when they are cancelled. *)
TaskEnds(t) ==
    /\ t \in tasks /\ (t.kind = "check" \/ t.of \in taken)
    /\ tasks' = tasks \ {t} /\ joining' = joining \ {t}
    /\ UNCHANGED <<command, at, locks, protocol, stopping, made, port, replaced, taken, requests, dropped>>

(* A request ends with its answer or its timeout, or when it is cancelled, some
   time after the lookup that asked is gone. *)
RequestEnds(p) ==
    /\ p \in requests /\ requests' = requests \ {p}
    /\ UNCHANGED <<command, at, locks, protocol, stopping, made, port, replaced, tasks, taken, joining, dropped>>

(* A server that does not listen yet, or does. *)
LifeInit ==
    /\ command \in [Callers -> UNION {Commands[c] : c \in Callers}]
    /\ \A c \in Callers : command[c] \in Commands[c]
    /\ at = [c \in Callers |-> [asked |-> 0, pc |-> "go"]]
    /\ mutex = <<>> /\ waiting = <<>> /\ readers = {} /\ writer = Free
    /\ protocol \in {0, 1} /\ made = protocol /\ stopping = 0
    /\ port \in [1 .. made -> Ports] /\ replaced = {}
    /\ tasks = {[of |-> p, kind |-> "service"] : p \in {protocol} \ {0}}
    /\ taken = {} /\ joining = {} /\ requests = {} /\ dropped = FALSE

CallerStep(c) ==
    \/ Ask(c) \/ Granted(c) \/ Use(c) \/ listen(c) \/ save_state_regularly(c)
    \/ StopBegins(c) \/ take_tasks(c) \/ shutdown_tasks(c)

LifeNext ==
    \/ \E c \in Callers : CallerStep(c)
    \/ \E p \in 1 .. Listens : Spawns(p) \/ CheckAsks(p) \/ RequestEnds(p)
    \/ \E t \in tasks : TaskEnds(t)
    \/ drop

(* The runtime polls every future that is ready, cancelled ones included. *)
LifeFairness ==
    /\ \A c \in Callers : WF_lifeVars(CallerStep(c))
    /\ \A p \in 1 .. Listens : /\ WF_lifeVars(RequestEnds(p))
                               /\ \A k \in Kinds : WF_lifeVars(TaskEnds([of |-> p, kind |-> k]))

LifeSpec == LifeInit /\ [][LifeNext]_lifeVars /\ LifeFairness

-----------------------------------------------------------------------------
(* A task runs for the protocol that listens, or the one that `stop` waits for,
   or one that another `listen` replaced.  One that a cancelled task spawns
   meanwhile does not survive it; after `drop` only tasks that are cancelled,
   and those of a protocol that was replaced, remain.  The holders of the locks
   are as the locks allow, and the protocol changes under the write lock alone. *)
TasksOwned ==
    /\ tasks \in SUBSET [of : 1 .. made, kind : Kinds]
    /\ \A t \in tasks : t.of \in {protocol, stopping} \cup replaced \/ (dropped /\ t.of \in taken)
    /\ writer # Free => readers = {}
    /\ stopping # 0 => writer # Free /\ command[writer] = "stop" /\ protocol = 0

(* Every command ends, whatever others hold and wait for: no order of the two
   locks blocks two commands on each other, and `stop` does not wait for a task
   for ever.  Then nothing holds a protocol that was stopped or dropped, so its
   port can be bound again; one that a second `listen` replaced is neither. *)
CommandsEnd ==
    <>[](/\ \A c \in Callers : at[c].pc = "done"
         /\ \A p \in 1 .. made : p \notin {protocol} \cup replaced => ~Bound(p))
=============================================================================
