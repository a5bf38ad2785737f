------------------------------- MODULE MCNode -------------------------------
(* A node and what it runs, in three parts that do not share state: the
   handlers of its requests (MCReplica), its start, stop and callers
   (ServerLife), and how it keeps its contacts (Membership).  A behaviour is
   one of one part; in the others nothing is going on and nothing comes. *)
EXTENDS MCReplica, ServerLife, Membership

CONSTANTS a1, a2, a3

MCCommands ==
    a1 :> {"publish", "listen", "stop"} @@ a2 :> {"info", "save", "call", "new"}
    @@ a3 :> {"stop", "listen"}

VARIABLE part

(* No caller has anything to do, and no server listens. *)
LifeRests ==
    /\ command = [c \in Callers |-> CHOOSE cmd \in Commands[c] : TRUE]
    /\ at = [c \in Callers |-> [asked |-> 0, pc |-> "done"]]
    /\ mutex = <<>> /\ waiting = <<>> /\ readers = {} /\ writer = Free
    /\ protocol = 0 /\ made = 0 /\ port = <<>> /\ replaced = {} /\ stopping = 0 /\ tasks = {}
    /\ taken = {} /\ joining = {} /\ requests = {} /\ dropped = TRUE

(* The maintenance loop does not run, and nobody is in the network. *)
MembershipRests ==
    /\ RT!Init /\ home = [n \in Contacts |-> CHOOSE a \in Addresses : TRUE]
    /\ occupant = [a \in Addresses |-> None] /\ link = TRUE /\ changes = 0
    /\ messages = {} /\ round = "stopped" /\ seed_due = TRUE

NodeInit ==
    /\ part \in {"handlers", "server", "contacts"}
    /\ Init
    /\ IF part = "server" THEN LifeInit ELSE LifeRests
    /\ IF part = "contacts" THEN MemberInit ELSE MembershipRests

NodeNext ==
    /\ UNCHANGED part
    /\ \/ part = "handlers" /\ Next /\ UNCHANGED <<lifeVars, memberVars>>
       \/ part = "server" /\ LifeNext /\ UNCHANGED <<vars, memberVars>>
       \/ part = "contacts" /\ MemberNext /\ UNCHANGED <<vars, lifeVars>>

NodeSpec ==
    /\ NodeInit /\ [][NodeNext]_<<part, vars, lifeVars, memberVars>>
    /\ Fairness /\ LifeFairness /\ MemberFairness
=============================================================================
