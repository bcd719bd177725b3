------------------------------- MODULE Models -------------------------------
(***************************************************************************)
(* models.py: the statuses of a layer, the errors of a result and          *)
(* VerificationResult.add_error.                                           *)
(***************************************************************************)
LayerStatus == {"PASS", "FAIL", "INCONCLUSIVE", "UNSUPPORTED_VERSION"}

ErrorCode ==
    {"INVALID_JSON", "DUPLICATE_FIELD", "UNSUPPORTED_RECEIPT_VERSION",
     "UNKNOWN_RECEIPT_FIELD", "MISSING_REQUIRED_FIELD",
     "CANONICALIZATION_FAILED", "INVALID_FIELD_TYPE", "INVALID_HASH_FORMAT",
     "RECEIPT_HASH_MISMATCH", "KEY_NOT_FOUND", "AMBIGUOUS_KEY",
     "KEY_ALGORITHM_MISMATCH", "KEY_REVOKED",
     "KEY_NOT_VALID_AT_RECEIPT_TIME", "KID_MISMATCH", "SIGNATURE_INVALID",
     "SEQUENCE_GAP", "DUPLICATE_SEQUENCE", "FORKED_SEQUENCE",
     "MISSING_PREVIOUS_RECEIPT", "ANCHOR_PROOF_INVALID",
     "MERKLE_PATH_INVALID", "ANCHOR_ROOT_MISMATCH", "ANCHOR_TX_NOT_FOUND",
     "ANCHOR_UNCHECKED", "RANGE_NOT_COVERED", "OVERLAPPING_RANGE_CONFLICT",
     "COMPLETENESS_NOT_PROVABLE", "UNSUPPORTED_ALGORITHM",
     "DUPLICATE_RECEIPT_HASH", "INCOMPLETE_RANGE"}

Layer == {"receipt_integrity", "anchor_validity", "completeness"}

VerificationError ==
    [code : ErrorCode, layer : Layer, severity : {"fatal", "warning"}]

Fatal(layer, codes) ==
    {[code |-> c, layer |-> layer, severity |-> "fatal"] : c \in codes}

Warning(layer, codes) ==
    {[code |-> c, layer |-> layer, severity |-> "warning"] : c \in codes}

(* Mutant: only a layer that had passed is turned to FAIL.                 *)
AfterFatalOfPass(status, codes) ==
    IF codes # {} /\ status = "PASS" THEN "FAIL" ELSE status

(* What add_error(FATAL), called once for each code, does to the status of *)
(* the layer: a terminal status (FAIL, UNSUPPORTED_VERSION) stays.         *)
AfterFatal(status, codes) ==
    IF codes # {} /\ status \in {"PASS", "INCONCLUSIVE"} THEN "FAIL" ELSE status

HasFatal(errors, layer) ==
    \E e \in errors : e.layer = layer /\ e.severity = "fatal"
=============================================================================
