----------------------------- MODULE MCRecords -----------------------------
(* Records, in three parts that do not share state: the storage of a node
   (MCStorage), how signatures are checked (Verification), and how long a
   record lives in a network (RecordLife).  A behaviour is one of one part; the
   others rest.

   For the checks: two keys of an issuer, one after the other in its file, and
   one of a DID; records bound to their key and not, under a wrong header, with
   a foreign signature; two rotations; and the issuer's Status List.

   For the life of a record: three nodes, with a fault, a return and a hitch;
   and four, one of which goes for good, so that nodes which should not hold the
   record have it too, and a third node can report the one that is gone. *)
EXTENDS MCStorage, Verification, RecordLife

CONSTANTS i1, i2, d1, key1, key2, ks, c1, c2

MCScheme == i1 :> "Dilithium-2" @@ i2 :> "Dilithium-2" @@ d1 :> "Ed25519"
MCDhtKey == [did \in {"u1", "u2"} |-> IF did = "u1" THEN key1 ELSE key2]

Doc(did, key) == [did |-> did, key |-> key]
Signed(by, over) == [by |-> by, over |-> over]
Record(alg, by, doc) == [alg |-> alg, sig |-> Signed(by, doc), doc |-> doc]
Check(op, key, v) == [op |-> op, key |-> key, value |-> v]

list(i) == Record(MCScheme[i], i, Doc("u2", i))
next == Record("Ed25519", d1, Doc("u2", d1))

Questions ==
    {Check("record", key2, list(i1)), Check("record", key1, list(i1)),
     Check("record", key2, Record("Dilithium-3", i1, Doc("u2", i1))),
     Check("record", key2, Record("Dilithium-2", i1, Doc("u2", i2))),
     Check("record", ks, list(i1)), Check("record", ks, list(i2)), Check("issuer", ks, list(i1)),
     [op |-> "rotation", key |-> key2, value |-> next, old |-> list(i1), auth |-> Signed(i1, next)],
     [op |-> "rotation", key |-> key2, value |-> next, old |-> list(i1), auth |-> Signed(d1, next)]}
MCAsks == c1 :> Questions @@ c2 :> {Check("record", ks, list(i1))}

VARIABLE part

Four == INSTANCE RecordLife WITH N <- 4, Hitches <- 0

RecordsInit ==
    /\ part \in {"storage", "checks", "life", "life of four"}
    /\ Init /\ VerifyInit
    /\ part # "checks" => use_cache
    /\ IF part = "life of four" THEN Four!RecordLifeInit ELSE RecordLifeInit

FourNext ==
    \/ \E n \in Four!Nodes : Four!schedule_refresh(n) \/ Four!Fault(n)
    \/ \E m, n \in Four!Nodes : Four!schedule_welcome_if_new(m, n)
    \/ Four!LifeTick

RecordsNext ==
    /\ UNCHANGED part
    /\ \/ part = "storage" /\ Next /\ UNCHANGED <<verifyVars, lifeTimeVars>>
       \/ part = "checks" /\ VerifyNext /\ UNCHANGED <<vars, lifeTimeVars>>
       \/ part = "life" /\ RecordLifeNext /\ UNCHANGED <<vars, verifyVars>>
       \/ part = "life of four" /\ FourNext /\ UNCHANGED <<vars, verifyVars>>

RecordsSpec == RecordsInit /\ [][RecordsNext]_<<part, vars, verifyVars, lifeTimeVars>>
=============================================================================
