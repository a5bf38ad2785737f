---------------------------- MODULE Verification ----------------------------
(***************************************************************************)
(* The verification of records by a node: the record format and the rule   *)
(* of src/src/auth_handler.rs, the algorithms of src/src/crypto, the cache *)
(* of results (src/src/signature_cache.rs), and the key files that a key   *)
(* manager rewrites while checks are running (key_manager.rs).             *)
(*                                                                         *)
(* A key is its pair, a signature is who made it and over what, and an     *)
(* error is a check that fails: every caller ends in `unwrap_or(false)`.   *)
(* The signature runs on a blocking thread, so a check is a lookup in the  *)
(* cache, a verification and an insertion, with others in between.         *)
(***************************************************************************)
EXTENDS Integers

CONSTANTS
    Pairs,           \* key pairs
    Scheme,          \* Pairs -> the algorithm of a pair
    Managers,        \* the schemes that a key manager exists for
    DhtKey,          \* digest of the UUID of a DID: DIDs -> keys of the table
    ListKey,         \* digest(STATUS_LIST_KEY)
    Checkers,        \* tasks that check at the same time (bound)
    Asks,            \* Checkers -> the checks that each asks for (bound), see Question
    CacheLife,       \* time_to_live of the cache: 3600 s
    VerifyTime       \* how long a check takes at most (bound)

Missing == "missing"      \* no key file, or no pair
Truncated == "truncated"  \* a key file that is being written

-----------------------------------------------------------------------------
(* crypto/signature_verifier.rs: the algorithms, by their exact spelling. *)
Base == [a \in {"RSA", "Ed25519", "Dilithium-2", "Dilithium-3", "Dilithium-5"} |->
            IF a \in {"RSA", "Ed25519"} THEN a ELSE "Dilithium"]

SignatureLength == [a \in DOMAIN Base |->
    CASE a = "RSA" -> 256 [] a = "Ed25519" -> 64 [] a = "Dilithium-2" -> 2420
      [] a = "Dilithium-3" -> 3293 [] a = "Dilithium-5" -> 4595]

(* The level that a public key has by its length; 0 for other lengths. *)
dilithium_level_from_pubkey_len(pk) ==
    CASE Scheme[pk] = "Dilithium-2" -> 2 [] Scheme[pk] = "Dilithium-3" -> 3
      [] Scheme[pk] = "Dilithium-5" -> 5 [] OTHER -> 0

(* What `sign` returns for a message, and only that. *)
Made(pk, sig, msg) == sig.by = pk /\ sig.over = msg
BytesOf(sig) == SignatureLength[Scheme[sig.by]]

(* verify_d2, verify_d3 and verify_d5 take signatures of their own length. *)
DilithiumVerify(pk, sig, msg) ==
    LET level == dilithium_level_from_pubkey_len(pk)
    IN  \/ level = 2 /\ BytesOf(sig) = 2420 /\ Made(pk, sig, msg)
        \/ level = 3 /\ BytesOf(sig) = 3293 /\ Made(pk, sig, msg)
        \/ level = 5 /\ BytesOf(sig) = 4595 /\ Made(pk, sig, msg)

Ed25519Verify(pk, sig, msg) ==
    Scheme[pk] = "Ed25519" /\ BytesOf(sig) = 64 /\ Made(pk, sig, msg)

RSAVerify(pk, sig, msg) == Scheme[pk] = "RSA" /\ Made(pk, sig, msg)

(* get_verifier: the part of the name before `-` chooses the verifier. *)
VerifyWith(alg, pk, sig, msg) ==
    \/ Base[alg] = "RSA" /\ RSAVerify(pk, sig, msg)
    \/ Base[alg] = "Ed25519" /\ Ed25519Verify(pk, sig, msg)
    \/ Base[alg] = "Dilithium" /\ DilithiumVerify(pk, sig, msg)

-----------------------------------------------------------------------------
(* auth_handler.rs.  A record is [alg, sig, doc]; its document names a DID and
   a key.  A header that is not one of the names is refused; a header that
   names an algorithm with other signatures cuts the record elsewhere, and
   what follows is no document. *)
get_alg_string(v) == v.alg \in DOMAIN Base
extract_sig_and_data(v) == get_alg_string(v) /\ SignatureLength[v.alg] = BytesOf(v.sig)

did_document_matches_key(v, key) ==
    extract_sig_and_data(v) /\ v.doc.did \in DOMAIN DhtKey /\ DhtKey[v.doc.did] = key

(* Mutant: the key of the document is not compared with the signature. *)
AnySelfSigned(v) == extract_sig_and_data(v) /\ VerifyWith(v.alg, v.sig.by, v.sig, v.doc)

verify_self_signed(v) ==
    extract_sig_and_data(v) /\ VerifyWith(v.alg, v.doc.key, v.sig, v.doc)

(* The old key authorises the whole new record, in the algorithm of the old. *)
verify_key_rotation(new, old, auth) ==
    /\ extract_sig_and_data(old)
    /\ VerifyWith(old.alg, old.doc.key, auth, new)
    /\ verify_self_signed(new)

handle_issuer_node_signature_verification(v, file) ==
    /\ extract_sig_and_data(v)
    /\ file \in Pairs /\ VerifyWith(v.alg, file, v.sig, v.doc)

is_bound_to_key(key, v) == key = ListKey \/ did_document_matches_key(v, key)

verify_rotation(key, new, old, auth) ==
    /\ did_document_matches_key(old, key)
    /\ did_document_matches_key(new, key)
    /\ verify_key_rotation(new, old, auth)

verify_issuer_signed(v, file) == handle_issuer_node_signature_verification(v, file)

-----------------------------------------------------------------------------
VARIABLES
    use_cache,    \* whether Server::new made a cache
    public,       \* the file <name>.public of the issuer
    held,         \* per manager, the pair that it generated last, or Missing
    cache,        \* <<domain, record>> -> [result, age]
    step, asked, result,   \* per checker
    spent,        \* per checker, how long it has been verifying
    quiet,        \* history: how long the public key file has been complete
    settled       \* history: the checks that began when it had been so for long

verifyVars == <<use_cache, public, held, cache, step, asked, result, spent, quiet, settled>>
files == <<public, held>>
check == <<step, asked, result, spent>>
Long == VerifyTime + CacheLife   \* quiet counts to here

(* What a caller asks: whether `value` is valid for `key` (verify_record), may
   replace `old` (verify_rotation), or is signed by the issuer. *)
Document == [did : STRING, key : Pairs]
Question(q) ==
    /\ q.op \in {"record", "rotation", "issuer"}
    /\ q.value.doc \in Document
    /\ q.op = "rotation" => q.old.doc \in Document

ASSUME VerificationAssumption ==
    /\ \A p \in Pairs : Scheme[p] \in STRING
    /\ \A c \in Checkers : Asks[c] # {} /\ \A q \in Asks[c] : Question(q)
    /\ CacheLife \in Nat /\ VerifyTime \in Nat \ {0}
    /\ Missing \notin Pairs /\ Truncated \notin Pairs

(* Key managers: one per scheme, all on one directory and one name. *)
generate_keypair(m) ==
    /\ held[m] \in {Missing, public}
    /\ \E p \in Pairs \ {public} : Scheme[p] = m /\ held' = [held EXCEPT ![m] = p]
    /\ UNCHANGED <<use_cache, public, cache, check, quiet, settled>>

(* write_key: fs::write empties the file first; the second step fills it. *)
store_public_key(m) ==
    /\ held[m] \notin {Missing, public}
    /\ public' = IF public = Truncated THEN held[m] ELSE Truncated
    /\ quiet' = 0 /\ settled' = {}
    /\ UNCHANGED <<use_cache, held, cache, check>>

-----------------------------------------------------------------------------
(* SignatureCache.  moka drops an entry when its time is over, and any entry
   when the cache is full. *)
compute_key(domain, v) == <<domain, v>>

(* Mutant: entries do not expire. *)
KeepAll == DOMAIN cache

(* The entries whose time is not over after the next tick. *)
Unexpired == {ck \in DOMAIN cache : cache[ck].age + 1 < CacheLife}

(* The cached result, if there is one. *)
get_by_key(ck) == IF ck \in DOMAIN cache THEN {cache[ck].result} ELSE {}

insert_by_key(ck, r) ==
    cache' = [k \in DOMAIN cache \cup {ck} |->
                IF k = ck THEN [result |-> r, age |-> 0] ELSE cache[k]]

Evict ==
    /\ \E ck \in DOMAIN cache : cache' = [k \in DOMAIN cache \ {ck} |-> cache[k]]
    /\ UNCHANGED <<use_cache, files, check, quiet, settled>>

NoQuestion(c) == CHOOSE q \in Asks[c] : TRUE
DomainOf(key) == IF key = ListKey THEN "IssuerSigned" ELSE "SelfSigned"
KeyAsked(c) == compute_key(DomainOf(asked[c].key), asked[c].value)
Answer(c, r) == result' = [result EXCEPT ![c] = r] /\ step' = [step EXCEPT ![c] = "done"]

(* A check begins.  verify_record: the binding first, then the cache. *)
BeginCheck(c, q) ==
    /\ step[c] = "idle"
    /\ asked' = [asked EXCEPT ![c] = q]
    /\ settled' = IF quiet = Long THEN settled \cup {c} ELSE settled
    /\ LET hit == IF use_cache THEN get_by_key(compute_key(DomainOf(q.key), q.value)) ELSE {}
       IN  IF q.op # "record" THEN step' = [step EXCEPT ![c] = "blocking"] /\ UNCHANGED result
           ELSE IF ~is_bound_to_key(q.key, q.value) THEN Answer(c, FALSE)
           ELSE IF hit # {} THEN \E r \in hit : Answer(c, r)
           ELSE step' = [step EXCEPT ![c] = "blocking"] /\ UNCHANGED result
    /\ UNCHANGED <<use_cache, files, cache, spent, quiet>>

(* spawn_blocking: the signatures, and for the issuer the file as it is now. *)
Blocking(c) ==
    LET q == asked[c]
    IN  /\ step[c] = "blocking"
        /\ result' = [result EXCEPT ![c] =
              CASE q.op = "rotation" -> verify_rotation(q.key, q.value, q.old, q.auth)
                [] q.op = "issuer" -> verify_issuer_signed(q.value, public)
                [] q.op = "record" /\ q.key = ListKey ->
                      handle_issuer_node_signature_verification(q.value, public)
                [] OTHER -> verify_self_signed(q.value)]
        /\ step' = [step EXCEPT ![c] = IF use_cache /\ q.op = "record" THEN "insert" ELSE "done"]
        /\ UNCHANGED <<use_cache, files, cache, asked, spent, quiet, settled>>

Insert(c) ==
    /\ step[c] = "insert"
    /\ insert_by_key(KeyAsked(c), result[c])
    /\ Answer(c, result[c])
    /\ UNCHANGED <<use_cache, files, asked, spent, quiet, settled>>

ReturnAnswer(c) ==
    /\ step[c] = "done"
    /\ step' = [step EXCEPT ![c] = "idle"]
    /\ asked' = [asked EXCEPT ![c] = NoQuestion(c)]
    /\ result' = [result EXCEPT ![c] = FALSE] /\ spent' = [spent EXCEPT ![c] = 0]
    /\ settled' = settled \ {c}
    /\ UNCHANGED <<use_cache, files, cache, quiet>>

(* Time passes; a check under way has VerifyTime. *)
VerifyTick ==
    /\ \A c \in Checkers : spent[c] < VerifyTime
    /\ spent' = [c \in Checkers |-> spent[c] + IF step[c] \in {"blocking", "insert"} THEN 1 ELSE 0]
    /\ cache' = [ck \in Unexpired |-> [cache[ck] EXCEPT !.age = @ + 1]]
    /\ quiet' = IF quiet < Long THEN quiet + 1 ELSE quiet
    /\ UNCHANGED <<use_cache, files, step, asked, result, settled>>

VerifyInit ==
    /\ use_cache \in BOOLEAN
    /\ public = Missing /\ held = [m \in Managers |-> Missing]
    /\ cache = [k \in {} |-> 0]
    /\ step = [c \in Checkers |-> "idle"]
    /\ asked = [c \in Checkers |-> NoQuestion(c)]
    /\ result = [c \in Checkers |-> FALSE] /\ spent = [c \in Checkers |-> 0]
    /\ quiet = 0 /\ settled = {}

VerifyNext ==
    \/ \E m \in Managers : generate_keypair(m) \/ store_public_key(m)
    \/ \E c \in Checkers : (\E q \in Asks[c] : BeginCheck(c, q)) \/ Blocking(c) \/ Insert(c) \/ ReturnAnswer(c)
    \/ Evict
    \/ VerifyTick

VerifySpec == VerifyInit /\ [][VerifyNext]_verifyVars

-----------------------------------------------------------------------------
(* What the rule means, without lengths, verifiers, cache or steps. *)
Authentic(v) == v.sig.by = v.doc.key /\ v.sig.over = v.doc /\ v.alg = Scheme[v.doc.key]
Names(v, key) == v.doc.did \in DOMAIN DhtKey /\ DhtKey[v.doc.did] = key

(* Whatever is cached, evicted and checked at the same time, also of the same
   bytes under the other trust root, the answer for a DID record is exactly
   that it names the key and is signed with the key of its document under the
   header of that key; a rotation is authorised by the old key for exactly
   the new record (verify_record, verify_rotation). *)
AnswersExact ==
    \A c \in Checkers : step[c] = "done" /\ asked[c].key # ListKey =>
       LET q == asked[c]
       IN  /\ q.op = "record" => result[c] = (Names(q.value, q.key) /\ Authentic(q.value))
           /\ q.op = "rotation" /\ Authentic(q.old) =>
                 result[c] = /\ Names(q.value, q.key) /\ Names(q.old, q.key)
                             /\ q.auth.by = q.old.doc.key /\ q.auth.over = q.value
                             /\ Authentic(q.value)

(* The issuer's key can be replaced without a restart (the comment of
   DIDSignatureVerifierHandler::new): a check that begins when the file has
   been complete for the life of the cache, and the time of one check, answers
   by the key in the file.  Neither an earlier result nor a failure to read a
   half-written file is kept longer. *)
IssuerKeyTakesEffect ==
    \A c \in Checkers :
       /\ step[c] = "done" /\ (asked[c].op = "issuer" \/ asked[c].key = ListKey)
       /\ asked[c].op # "rotation"
       /\ c \in settled
       => result[c] = /\ public = asked[c].value.sig.by
                      /\ asked[c].value.sig.over = asked[c].value.doc
                      /\ asked[c].value.alg = Scheme[asked[c].value.sig.by]

(* The cache changes no answer but for its life: checks of DID records and
   rotations are exact, and checks under the issuer's key follow the key file
   (DIDSignatureVerifierHandler). *)
ChecksSound == AnswersExact /\ IssuerKeyTakesEffect
=============================================================================
