-------------------------- MODULE DocumentedClaims --------------------------
(***************************************************************************)
(* What a test and a sentence of the repository's specification ask of     *)
(* verify() and the code does not keep.  Neither of the two properties     *)
(* holds: each has a run in which TLC shows how it fails.                  *)
(***************************************************************************)
EXTENDS Verifier

Reported(code, layer) == \E e \in errors : e.code = code /\ e.layer = layer

(* Malformed JSON-shaped input is rejected "without throwing", as the      *)
(* regression tests of audit finding RCV-007 are named                     *)
(* (tests/test_audit_regressions.py:276-324): verify() returns a result.   *)
NeverRaises == pc # "raised"

(* SPEC.md:451: two receipts with one tenant and seq but different hashes  *)
(* are always reported as FORKED_SEQUENCE.                                 *)
WellFormed(p) ==
    /\ EnvelopeErrors(receipts[p]) = {}
    /\ BodyFieldErrors(BodyOf(receipts[p])) = {}
    /\ FieldTypeErrors(BodyOf(receipts[p])) = {}

Fork(p, q) ==
    /\ WellFormed(p) /\ WellFormed(q)
    /\ SeqOf(p) = SeqOf(q)
    /\ BodyOf(receipts[p])["tenant"] = BodyOf(receipts[q])["tenant"]
    /\ ReceiptHash(p) # ReceiptHash(q)

ForkAlwaysReported ==
    pc = "done" /\ arguments = "well typed" =>
        \A p, q \in DOMAIN receipts :
            Fork(p, q) => Reported("FORKED_SEQUENCE", "receipt_integrity")
=============================================================================
