------------------------------ MODULE MCPeers ------------------------------
(* What nodes know of their peers, in four parts that do not share state: the
   routing table of one node (MCRoutingTable), the round trips that it measured
   (RoundTrips), and two programs on several nodes with such tables (Analysis,
   DhtNode).  A behaviour is one of one part; the others rest. *)
EXTENDS MCRoutingTable, RoundTrips, Analysis, DhtNode, TLC

VARIABLE part

MCPublishes == (1 :> 3) @@ (6 :> 14)

(* The variables of the programs when another part runs. *)
AnalysisRests ==
    /\ nodes = <<>> /\ records = <<>> /\ phase = "end" /\ index = 1 /\ published = <<>>
    /\ set_fail = 0 /\ get_ok = 0 /\ get_fail = 0 /\ verdict = NoVerdict
ProgramsRest ==
    LET all(x) == [n \in Publishers \cup Retrievers |-> x]
    IN  /\ start = all("isolated") /\ pc = all("off") /\ tries = all(0)
        /\ joined = {} /\ said = all("nothing") /\ known = {}

reportVars == <<nodes, records, phase, index, published, set_fail, get_ok, get_fail, verdict>>
nodeVars == <<start, pc, tries, joined, said, known>>

PeersInit ==
    /\ Init /\ TripInit
    /\ \/ part \in {"table", "trips"} /\ world = Nowhere /\ AnalysisRests /\ ProgramsRest
       \/ part = "analysis" /\ AnalysisInit /\ ProgramsRest
       \/ part = "programs" /\ ProgramInit /\ AnalysisRests

PeersNext ==
    /\ UNCHANGED part
    /\ \/ part = "table" /\ Next /\ UNCHANGED <<tripVars, world, reportVars, nodeVars>>
       \/ part = "trips" /\ TripNext /\ UNCHANGED <<vars, world, reportVars, nodeVars>>
       \/ part = "analysis" /\ AnalysisNext /\ UNCHANGED <<vars, tripVars, nodeVars>>
       \/ part = "programs" /\ ProgramNext /\ UNCHANGED <<vars, tripVars, reportVars>>

PeersSpec == PeersInit /\ [][PeersNext]_<<part, vars, tripVars, world, reportVars, nodeVars>>
=============================================================================
