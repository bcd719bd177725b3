--------------------------- MODULE ReceiptChecks ---------------------------
(***************************************************************************)
(* The checks layer 1 makes of a single receipt, as functions of the       *)
(* receipt and the key set: verify.py's _validate_body_fields and          *)
(* _validate_field_types and the body of the loop of                       *)
(* _verify_receipt_integrity, without the state the loop keeps.            *)
(***************************************************************************)
EXTENDS Json, Models, KeyLifecycle

RECEIPT_BODY_REQUIRED_FIELDS ==
    {"v", "tenant", "seq", "ts", "request_digest", "policy_version",
     "decision", "reasons", "prev_receipt"}

STRING_REQUIRED_FIELDS ==
    {"seq", "range_start", "range_end", "block_number", "leaf_index",
     "chain_id"}

StringFields ==
    STRING_REQUIRED_FIELDS \cup (RECEIPT_BODY_REQUIRED_FIELDS \ {"reasons"})

SUPPORTED_DECISIONS == {Text("approve"), Text("deny")}

-----------------------------------------------------------------------------
(* The shape of one envelope.                                              *)
EnvelopeErrors(e) ==
    IF /\ IsObj(e)
       /\ IsObj(Get(Members(e), "body"))
       /\ IsObj(Get(Members(e), "sig"))
    THEN {} ELSE {"INVALID_JSON"}

BodyOf(e) == Members(Members(e)["body"])
SigOf(e)  == Members(Members(e)["sig"])

(* _validate_body_fields                                                   *)
UnsupportedVersion(body) == Get(body, "v") \notin {Null, Text("1")}

BodyFieldErrors(body) ==
    IF UnsupportedVersion(body) THEN {"UNSUPPORTED_RECEIPT_VERSION"}
    ELSE IF ~(DOMAIN body \subseteq RECEIPT_BODY_REQUIRED_FIELDS)
         THEN {"UNKNOWN_RECEIPT_FIELD"}
    ELSE IF ~(RECEIPT_BODY_REQUIRED_FIELDS \subseteq DOMAIN body)
         THEN {"MISSING_REQUIRED_FIELD"}
    ELSE {}

(* _validate_field_types                                                   *)
WellTyped(body) ==
    LET reasons == Get(body, "reasons")
    IN  /\ \A f \in StringFields \cap DOMAIN body : IsStr(body[f])
        /\ reasons # Null =>
             /\ IsList(reasons)
             /\ \A i \in DOMAIN Items(reasons) : IsStr(Items(reasons)[i])
        /\ Get(body, "decision") \in SUPPORTED_DECISIONS
        /\ "seq" \in DOMAIN body => IsPositiveDecimal(body["seq"])

FieldTypeErrors(body) ==
    IF ~WellTyped(body) THEN {"INVALID_FIELD_TYPE"}
    ELSE IF \E f \in {"request_digest", "policy_version", "prev_receipt"} :
                Truthy(Get(body, f)) /\ ~IsHash(Get(body, f))
         THEN {"INVALID_HASH_FORMAT"}
    ELSE {}

(* Mutants: a status that forgets the earlier receipts; a second validator *)
(* whose errors are not fatal.                                             *)
AfterBodyFieldsAfresh(status, body) ==
    IF UnsupportedVersion(body) THEN "UNSUPPORTED_VERSION"
    ELSE AfterFatal("INCONCLUSIVE", BodyFieldErrors(body))

AfterFieldTypesLenient(status, body) ==
    IF UnsupportedVersion(body) THEN "UNSUPPORTED_VERSION"
    ELSE AfterFatal(status, BodyFieldErrors(body))

(* The layer's status after the two validators ran on a body.              *)
AfterBodyFields(status, body) ==
    IF UnsupportedVersion(body) THEN "UNSUPPORTED_VERSION"
    ELSE AfterFatal(status, BodyFieldErrors(body))

AfterFieldTypes(status, body) ==
    AfterFatal(AfterBodyFields(status, body), FieldTypeErrors(body))

(* canonicalize: a fractional number raises CanonicalizationError, which   *)
(* is caught; an unpaired surrogate UnicodeEncodeError, which is not.      *)
Values(body) ==
    LET direct == {body[f] : f \in DOMAIN body}
    IN  direct \cup UNION { {Items(v)[i] : i \in DOMAIN Items(v)} :
                            v \in {w \in direct : IsList(w)} }

CanonicalizationErrors(body) ==
    IF Float \in Values(body) THEN {"CANONICALIZATION_FAILED"} ELSE {}

CanonicalizeRaises(body) == Surrogate \in Values(body)

-----------------------------------------------------------------------------
(* Signature and key checks of a receipt that was just recorded.           *)
ReceiptErrors(keys, body, sig, status) ==
    LET kid == GetOr(sig, "kid", Empty)
        alg == GetOr(sig, "alg", Empty)
        key == SelectedKey(keys, kid, alg)
        validity  == KeyValidityErrors(key, body["ts"])
        signature == SignatureErrors(key, body, GetOr(sig, "value", Empty))
    IN  IF alg # Text("EdDSA") THEN {"UNSUPPORTED_ALGORITHM"}
        ELSE IF LookupErrors(keys, body["tenant"], kid, alg) # {}
             THEN LookupErrors(keys, body["tenant"], kid, alg)
        ELSE IF AfterFatal(status, validity) = "FAIL" THEN validity
        ELSE validity \cup signature

(* body["tenant"], body["ts"] and the key's status may raise.              *)
ReceiptRaises(keys, body, sig) ==
    LET kid == GetOr(sig, "kid", Empty)
        alg == GetOr(sig, "alg", Empty)
    IN  \/ "tenant" \notin DOMAIN body
        \/ /\ "tenant" \in DOMAIN body
           /\ alg = Text("EdDSA")
           /\ LookupErrors(keys, body["tenant"], kid, alg) = {}
           /\ \/ "ts" \notin DOMAIN body
              \/ /\ "ts" \in DOMAIN body
                 /\ KeyValidityRaises(SelectedKey(keys, kid, alg), body["ts"])
=============================================================================
