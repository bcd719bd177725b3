------------------------------ MODULE Vectors ------------------------------
(***************************************************************************)
(* The twenty published test vectors, as scripts/generate_vectors.py       *)
(* writes them, and verify() on each: tests/test_vectors.py runs a vector  *)
(* on the array as written, here the array comes in any order.             *)
(***************************************************************************)
EXTENDS Verifier, Issuer, TLC

(* expected.json                                                           *)
Expect(status, codes) ==
    [receipt_integrity |-> status, anchor_validity |-> "INCONCLUSIVE",
     completeness |-> "INCONCLUSIVE", expected_errors |-> codes]

Passes == Expect("PASS", {"ANCHOR_UNCHECKED", "COMPLETENESS_NOT_PROVABLE"})
Fails(code) == Expect("FAIL", {code})
BadAnchor(code) ==
    [Expect("PASS", {code}) EXCEPT !.anchor_validity = "FAIL"]

Vector(envelopes, expected) ==
    [receipts |-> envelopes, keys |-> DefaultKeys, anchor |-> Null,
     expected |-> expected]

AnchoredVector(envelopes, proof, expected) ==
    [Vector(envelopes, expected) EXCEPT !.anchor = Obj(proof)]

SignedAs(body, alg, kid) ==
    Enveloped(body, Sig(alg, kid, SignatureBy(PRIVATE_KEY, body)))

First1 == make_receipt_body(1, Genesis)

-----------------------------------------------------------------------------
gen_tv001 == Vector(build_chain(3, 1), Passes)

Hashes(bodies)   == [i \in DOMAIN bodies |-> receipt_hash(bodies[i])]
Chain3           == Hashes(chain_bodies(3, 1))
leaf0            == LeafHash(Chain3[1])
leaf1            == LeafHash(Chain3[2])
leaf2            == LeafHash(Chain3[3])
n01              == NodeHash(leaf0, leaf1)
merkle_path_receipt0 == <<path_step("right", leaf1), path_step("right", leaf2)>>
merkle_path_receipt1 == <<path_step("left", leaf0), path_step("right", leaf2)>>
merkle_path_receipt2 == <<path_step("left", n01)>>

Chain3Proof(path0) ==
    anchor_proof(1, 3, compute_batch_root(Chain3),
        <<proof_entry(Chain3[1], Decimal(0), path0),
          proof_entry(Chain3[2], Decimal(1), merkle_path_receipt1),
          proof_entry(Chain3[3], Decimal(2), merkle_path_receipt2)>>)

gen_tv002 == AnchoredVector(build_chain(3, 1), Chain3Proof(merkle_path_receipt0),
                            Passes)

gen_tv003 ==
    LET bad_body == [chain_bodies(3, 1)[3] EXCEPT
                        !.prev_receipt = Digest(<<"wrong-prev">>)]
    IN  Vector([build_chain(3, 1) EXCEPT ![3] = Signed(bad_body)],
               Fails("MISSING_PREVIOUS_RECEIPT"))

gen_tv004 ==
    LET body == chain_bodies(1, 1)[1]
    IN  Vector(<<Enveloped(body, Sig(Text("EdDSA"), KID, Text("zeros")))>>,
               Fails("SIGNATURE_INVALID"))

(* Each receipt refers to the one before it, also across the gap.          *)
gen_tv005 ==
    LET body(n, prev) ==
            [make_receipt_body(n, prev) EXCEPT !.ts = ts_base(n)]
        r1 == body(1, Genesis)
        r2 == body(2, receipt_hash(r1))
        r4 == body(4, receipt_hash(r2))
    IN  Vector(<<Signed(r1), Signed(r2), Signed(r4)>>, Fails("SEQUENCE_GAP"))

gen_tv006 ==
    LET dup_body == chain_bodies(2, 1)[2]
    IN  Vector(Append(build_chain(2, 1), Signed(dup_body)),
               Fails("DUPLICATE_SEQUENCE"))

gen_tv007 ==
    LET prev      == receipt_hash(chain_bodies(2, 1)[1])
        fork_body == [make_receipt_body(2, prev) EXCEPT
                         !.ts = ts_base(9), !.decision = Text("deny"),
                         !.reasons = List(<<Text("forked_reason")>>)]
    IN  Vector(Append(build_chain(2, 1), Signed(fork_body)),
               Fails("FORKED_SEQUENCE"))

gen_tv008 ==
    AnchoredVector(build_chain(1, 1),
                   anchor_proof(1, 1, Digest(<<"wrong-root">>), <<>>),
                   BadAnchor("ANCHOR_ROOT_MISMATCH"))

gen_tv009 ==
    LET bad_path == <<path_step("right", leaf1),
                      path_step("right", Digest(<<"wrong-sibling">>))>>
    IN  AnchoredVector(build_chain(3, 1), Chain3Proof(bad_path),
                       BadAnchor("MERKLE_PATH_INVALID"))

gen_tv010 == Vector(<<SignedAs(First1, Text("RS256"), KID)>>,
                    Fails("UNSUPPORTED_ALGORITHM"))

gen_tv011 ==
    Vector(<<SignedAs(First1, Text("EdDSA"), Text("nonexistent-key-2026-05"))>>,
           Fails("KEY_NOT_FOUND"))

-----------------------------------------------------------------------------
(* The bodies of 12 to 18 are written out in full; they differ from the    *)
(* default body in the members given here.  What their texts are made of   *)
(* is the canonical form's business (CanonicalForm), not the verifier's.   *)
Reasons(texts) == List([i \in DOMAIN texts |-> Text(texts[i])])

gen_tv012 ==
    Vector(<<Signed([First1 EXCEPT !.reasons = Reasons(<<"rule_a", "rule_b">>)])>>,
           Passes)

gen_tv013 ==
    Vector(<<Signed([First1 EXCEPT !.request_digest = Digest(<<"unicode">>),
                                   !.reasons = Reasons(<<"accents", "cjk">>)])>>,
           Passes)

(* A seq that is a number, whatever the number is.                         *)
NumericSeq(n, digest) ==
    Vector(<<Signed([First1 EXCEPT !.seq = Num(n), !.request_digest = digest])>>,
           Fails("INVALID_FIELD_TYPE"))

gen_tv014 == NumericSeq(99999999, Digest(<<"large-int">>))

gen_tv015 ==
    Vector(<<Signed([First1 EXCEPT !.v = Text("2")])>>,
           Expect("UNSUPPORTED_VERSION", {"UNSUPPORTED_RECEIPT_VERSION"}))

gen_tv016 ==
    Vector(<<Signed([First1 EXCEPT !.request_digest = Digest(<<"escape">>),
                        !.reasons = Reasons(<<"tab", "newline", "quote",
                                              "backslash", "null">>)])>>,
           Passes)

gen_tv017 ==
    LET tenant == Text("multi-byte")
    IN  [Vector(<<Signed([First1 EXCEPT !.tenant = tenant,
                              !.request_digest = Digest(<<"collation">>),
                              !.reasons = Reasons(<<"accents", "emoji">>)])>>,
                Passes)
           EXCEPT !.keys = make_keys_json(tenant, <<key_entry>>)]

gen_tv018 == NumericSeq(12345, Digest(<<"seq-num">>))

gen_tv019 ==
    LET body_valid   == [First1 EXCEPT !.reasons = List(<<>>)]
        whole        == make_receipt_body(2, receipt_hash(body_valid))
        body_invalid == [f \in DOMAIN whole \ {"reasons"} |-> whole[f]]
    IN  Vector(<<Signed(body_valid), Signed(body_invalid)>>,
               Fails("MISSING_REQUIRED_FIELD"))

gen_tv020 ==
    Vector(<<SignedAs(First1, Text("EdDSA"), Text("tenant-key-2026-05 "))>>,
           Fails("KEY_NOT_FOUND"))

generate_all ==
    {gen_tv001, gen_tv002, gen_tv003, gen_tv004, gen_tv005, gen_tv006,
     gen_tv007, gen_tv008, gen_tv009, gen_tv010, gen_tv011, gen_tv012,
     gen_tv013, gen_tv014, gen_tv015, gen_tv016, gen_tv017, gen_tv018,
     gen_tv019, gen_tv020}

-----------------------------------------------------------------------------
VARIABLE vector     \* the test vector being verified

Orders(envelopes) ==
    {[i \in DOMAIN envelopes |-> envelopes[p[i]]] :
        p \in Permutations(DOMAIN envelopes)}

(* test_vector: verify() on what load_vector read.                         *)
VectorInit ==
    /\ vector \in generate_all
    /\ receipts \in Orders(vector.receipts)
    /\ keys = vector.keys
    /\ anchor = vector.anchor
    /\ arguments = "well typed"
    /\ Init

VectorNext == Next /\ UNCHANGED vector

VectorSpec == VectorInit /\ [][VectorNext]_<<vars, vector>>

(* _check_result: the three statuses are those of expected.json and its    *)
(* codes are among those reported.                                         *)
AsExpected ==
    /\ ri = vector.expected.receipt_integrity
    /\ anchor_validity = vector.expected.anchor_validity
    /\ completeness = vector.expected.completeness
    /\ vector.expected.expected_errors \subseteq {e.code : e \in errors}

(* Every published vector verifies as its expected.json says, and the      *)
(* order of the array, in which the loop meets good and bad receipts,      *)
(* changes no status and hides no expected error.                          *)
VectorsVerify == pc \in {"done", "raised"} => pc = "done" /\ AsExpected
=============================================================================
