----------------------------- MODULE MCReplica -----------------------------
(* One DID with three versions of its record, each authorized by the key of
   the one before, and the Status List with two versions.  `stray` is a record
   of another DID that reaches the node under the wrong key. *)
EXTENDS Replica, TLC

CONSTANTS did, status, other, v1, v2, v3, s1, s2, stray

MCValues == {v1, v2, v3, s1, s2, stray}
MCDidOf == [v \in MCValues |-> IF v \in {v1, v2, v3} THEN did ELSE other]
MCKeyOf == v1 :> "k1" @@ v2 :> "k2" @@ v3 :> "k3" @@ s1 :> "issuer" @@ s2 :> "issuer" @@ stray :> "k4"
MCSignedBy == MCKeyOf

Req(o, s, i, k, v, a) ==
    [op |-> o, sender |-> s, msg_id |-> i, key |-> k, value |-> v, auth |-> a]

(* The publication by the owner, the same record refilled by another node,
   and the rotations to v2 (with the owner's retry of it) and to v3. *)
PublishV1 == Req("Store", "owner", 0, did, v1, Absent)
RefillV1 == Req("Store", "peer", 0, did, v1, Absent)
UpdateV2 == Req("Update", "owner", 1, did, v2, "k1")
RetryV2 == Req("Update", "owner", 2, did, v2, "k1")
UpdateV3 == Req("Update", "owner", 4, did, v3, "k2")

MixedRequests ==
    {PublishV1, UpdateV2,
     Req("Store", "peer", 1, did, stray, Absent),
     Req("Store", "issuer", 0, status, s1, Absent),
     Req("UpdateStatusList", "issuer", 1, status, s2, Absent)}

ChainRequests == {PublishV1, RefillV1, UpdateV2, RetryV2, UpdateV3}

(* The publication arrives twice. *)
MCCopies == [r \in Requests |-> IF r = PublishV1 THEN 2 ELSE 1]
Once == [r \in Requests |-> 1]
=============================================================================
