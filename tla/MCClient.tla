------------------------------ MODULE MCClient ------------------------------
(* What a client asks of the network, in two parts that do not share state: a
   lookup (MCLookup), and the commands of the owner of a DID (Ownership).  A
   behaviour is one of one part; in the other nothing is asked. *)
EXTENDS MCLookup, Ownership

VARIABLE part

(* No lookup is under way. *)
LookupOver ==
    /\ kind = "nodes" /\ ask_everyone = FALSE /\ contacts = {} /\ failing = {} /\ initial = {}
    /\ nearest = {} /\ contacted = {} /\ last_ids_crawled = {} /\ failed = {} /\ skipped = {}
    /\ nearest_without_value = {} /\ waiting = {} /\ replies = {} /\ to_remove = {}
    /\ found_values = {} /\ incomplete = FALSE /\ heard = {} /\ answered = {} /\ cached = {}
    /\ pc = "done" /\ result = Running

ClientInit ==
    /\ part \in {"lookup", "owner"}
    /\ OwnerInit /\ (part = "lookup" => own = CHOOSE o \in Owners : TRUE)
    /\ IF part = "lookup" THEN Init ELSE LookupOver

ClientNext ==
    /\ UNCHANGED part
    /\ \/ part = "lookup" /\ Next /\ UNCHANGED ownerVars
       \/ part = "owner" /\ OwnerNext /\ UNCHANGED vars

ClientSpec ==
    /\ ClientInit /\ [][ClientNext]_<<part, vars, ownerVars>>
    /\ WF_vars(Next) /\ OwnerFairness
=============================================================================
