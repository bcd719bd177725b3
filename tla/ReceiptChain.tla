---------------------------- MODULE ReceiptChain ----------------------------
(***************************************************************************)
(* What a whole chain of acceptable receipts is, as a function of the      *)
(* receipts and the key set alone: no loop, no dicts, no sorting.          *)
(***************************************************************************)
EXTENDS ReceiptChecks

Acceptable(e, ks) ==
    /\ EnvelopeErrors(e) = {}
    /\ BodyFieldErrors(BodyOf(e)) = {}
    /\ FieldTypeErrors(BodyOf(e)) = {}
    /\ ~CanonicalizeRaises(BodyOf(e))
    /\ ReceiptErrors(ks, BodyOf(e), SigOf(e), "INCONCLUSIVE") = {}

Unsupported(e) == EnvelopeErrors(e) = {} /\ UnsupportedVersion(BodyOf(e))

Number(e) == IntOf(BodyOf(e)["seq"])

Follows(e, d) ==
    /\ Number(e) = Number(d) + 1
    /\ BodyOf(e)["prev_receipt"] = HashOf(BodyOf(d))

IsGenesis(e) == Number(e) = 1 /\ BodyOf(e)["prev_receipt"] = Genesis

Chained(rs) ==
    /\ \A i, j \in DOMAIN rs : Number(rs[i]) = Number(rs[j]) => i = j
    /\ \A i \in DOMAIN rs :
          IsGenesis(rs[i]) \/ \E j \in DOMAIN rs : Follows(rs[i], rs[j])

AllAcceptable(rs, ks) == \A i \in DOMAIN rs : Acceptable(rs[i], ks)

Verdict(rs, ks) ==
    IF rs = <<>> THEN "INCONCLUSIVE"
    ELSE IF \E i \in DOMAIN rs : Unsupported(rs[i]) THEN "UNSUPPORTED_VERSION"
    ELSE IF AllAcceptable(rs, ks) /\ Chained(rs) THEN "PASS"
    ELSE "FAIL"
=============================================================================
