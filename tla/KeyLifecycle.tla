---------------------------- MODULE KeyLifecycle ----------------------------
(***************************************************************************)
(* crypto.py: key lookup, key validity at the time of a receipt, signature *)
(* verification.  Each handler is the set of error codes it reports (none  *)
(* or one: it returns at the first).  A key is the members of a key object *)
(* and times are numbers of ticks.                                         *)
(***************************************************************************)
EXTENDS Json

CONSTANT TicksPerMicrosecond \* a timestamp may be finer than a microsecond

ASSUME TicksAssumption == TicksPerMicrosecond \in Nat \ {0}

-----------------------------------------------------------------------------
(* _parse_ts: a datetime has microseconds, finer digits are cut off.       *)
NoTime == -1
ParseTs(v) ==
    IF IsText(v, {"time"}) THEN v[3] \div TicksPerMicrosecond ELSE NoTime

-----------------------------------------------------------------------------
(* lookup_key                                                              *)
Candidates(list, kid) ==
    {i \in DOMAIN list : Get(Members(list[i]), "kid") = kid}

AlgMatches(list, kid, alg) ==
    {i \in Candidates(list, kid) : Get(Members(list[i]), "alg") = alg}

LookupErrors(keys, tenant, kid, alg) ==
    LET entries == GetOr(keys, "keys", List(<<>>))
        list    == Items(entries)
    IN  IF Get(keys, "tenant") # tenant THEN {"KEY_NOT_FOUND"}
        ELSE IF ~IsList(entries) \/ \E i \in DOMAIN list : ~IsObj(list[i])
             THEN {"INVALID_JSON"}
        ELSE IF Candidates(list, kid) = {} THEN {"KEY_NOT_FOUND"}
        ELSE IF AlgMatches(list, kid, alg) = {} THEN {"KEY_ALGORITHM_MISMATCH"}
        ELSE IF \E i, j \in AlgMatches(list, kid, alg) : i # j
             THEN {"AMBIGUOUS_KEY"}
        ELSE {}

SelectedKey(keys, kid, alg) ==
    LET list == Items(keys["keys"])
    IN  Members(list[CHOOSE i \in AlgMatches(list, kid, alg) : TRUE])

-----------------------------------------------------------------------------
(* check_key_validity                                                      *)
(* Mutant: the beginning of the window counts as outside.                  *)
NotBeforeErrorsLate(key, ts) ==
    LET not_before == Get(key, "not_before")
    IN  IF Truthy(not_before) /\ ParseTs(not_before) # NoTime
           /\ ts <= ParseTs(not_before)
        THEN {"KEY_NOT_VALID_AT_RECEIPT_TIME"} ELSE {}

NotBeforeErrors(key, ts) ==
    LET not_before == Get(key, "not_before")
        nb         == ParseTs(not_before)
    IN  IF ~Truthy(not_before) THEN {}
        ELSE IF nb = NoTime THEN {"INVALID_FIELD_TYPE"}
        ELSE IF ts < nb THEN {"KEY_NOT_VALID_AT_RECEIPT_TIME"}
        ELSE {}

(* Mutant: the end of the window counts as inside.                         *)
NotAfterErrorsLate(key, ts) ==
    LET not_after == Get(key, "not_after")
    IN  IF Truthy(not_after) /\ ParseTs(not_after) # NoTime
           /\ ts > ParseTs(not_after)
        THEN {"KEY_NOT_VALID_AT_RECEIPT_TIME"} ELSE {}

NotAfterErrors(key, ts) ==
    LET not_after == Get(key, "not_after")
        na        == ParseTs(not_after)
    IN  IF ~Truthy(not_after) THEN {}
        ELSE IF na = NoTime THEN {"INVALID_FIELD_TYPE"}
        ELSE IF ts >= na THEN {"KEY_NOT_VALID_AT_RECEIPT_TIME"}
        ELSE {}

KeyStatus(key) == GetOr(key, "status", Text("active"))

RevocationErrors(key, ts) ==
    LET status          == KeyStatus(key)
        revocation_time == Get(key, "revocation_time")
        rt              == ParseTs(revocation_time)
    IN  CASE status = Text("revoked_all") ->
               IF Truthy(revocation_time) THEN {"KEY_REVOKED"}
               ELSE {"INVALID_FIELD_TYPE"}
          [] status = Text("revoked_future_only") ->
               IF rt = NoTime THEN {"INVALID_FIELD_TYPE"}
               ELSE IF ts >= rt THEN {"KEY_REVOKED"} ELSE {}
          [] status \in {Text("active"), Text("retired")} ->
               IF revocation_time # Null THEN {"INVALID_FIELD_TYPE"} ELSE {}
          [] OTHER -> {"INVALID_FIELD_TYPE"}

WindowErrors(key, ts) == NotBeforeErrors(key, ts) ?? NotAfterErrors(key, ts)

KeyValidityErrors(key, receipt_ts) ==
    LET ts == ParseTs(receipt_ts)
    IN  IF ts = NoTime THEN {"INVALID_FIELD_TYPE"}
        ELSE WindowErrors(key, ts) ?? RevocationErrors(key, ts)

(* The status is looked up in a frozenset once the window is passed.       *)
KeyValidityRaises(key, receipt_ts) ==
    LET ts == ParseTs(receipt_ts)
    IN  ts # NoTime /\ WindowErrors(key, ts) = {} /\ ~Hashable(KeyStatus(key))

-----------------------------------------------------------------------------
(* verify_signature: every failure inside the try block, a missing or      *)
(* malformed public key included, is SIGNATURE_INVALID.                    *)
SignatureErrors(key, body, value) ==
    IF Get(key, "alg") # Text("EdDSA") THEN {"UNSUPPORTED_ALGORITHM"}
    ELSE IF "x" \in DOMAIN key /\ value = SignatureBy(key["x"], body) THEN {}
    ELSE {"SIGNATURE_INVALID"}
=============================================================================
