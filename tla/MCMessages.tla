----------------------------- MODULE MCMessages -----------------------------
(* The messages of a node, in three parts that do not share state: its calls
   to a peer (MCRpc), the workers that handle what arrives (WorkerPool), and
   the queue of the nodes that are sent records (Welcome).  A behaviour is one
   of one part; in the others nothing is under way. *)
EXTENDS MCRpc, WorkerPool, Welcome

VARIABLE part

MessagesInit ==
    /\ part \in {"calls", "workers", "welcome"}
    /\ Init /\ PoolInit /\ WelcomeInit

(* Nothing more arrives, and nobody new makes contact. *)
Rest == part # "calls" /\ UNCHANGED <<vars, poolVars, welcomeVars>>

MessagesNext ==
    /\ UNCHANGED part
    /\ \/ part = "calls" /\ Next /\ UNCHANGED <<poolVars, welcomeVars>>
       \/ part = "workers" /\ PoolNext /\ UNCHANGED <<vars, welcomeVars>>
       \/ part = "welcome" /\ WelcomeNext /\ UNCHANGED <<vars, poolVars>>
       \/ Rest

MessagesSpec ==
    /\ MessagesInit /\ [][MessagesNext]_<<part, vars, poolVars, welcomeVars>>
    /\ Fairness /\ PoolFairness /\ WelcomeFairness
=============================================================================
