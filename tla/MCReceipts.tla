----------------------------- MODULE MCReceipts -----------------------------
(***************************************************************************)
(* The receipts and key sets the model-checking modules draw their inputs  *)
(* from: receipts of one chain of the reference issuer, and envelopes that *)
(* are wrong in one way each.                                              *)
(***************************************************************************)
EXTENDS Issuer

With(body, field, value) == [body EXCEPT ![field] = value]
Without(body, field) == [f \in DOMAIN body \ {field} |-> body[f]]
Extended(body, field, value) ==
    [f \in DOMAIN body \cup {field} |-> IF f = field THEN value ELSE body[f]]

b1 == make_receipt_body(1, Genesis)
b2 == make_receipt_body(2, HashOf(b1))
b3 == make_receipt_body(3, HashOf(b2))
v2 == With(b2, "v", Text("2"))

KeyEntry(kid, x) == [key_entry EXCEPT !.kid = kid, !.x = x, !.not_after = Time(8)]

OneKey == make_keys_json(TENANT, <<KeyEntry(KID, PRIVATE_KEY)>>)

MCKeySets == {OneKey}

(* Receipts that differ in their place in the chain.                       *)
ChainEnvelopes ==
    {Signed(b1), Signed(b2), Signed(b3),
     Signed(With(b2, "decision", Text("deny"))),
     Signed(With(b3, "prev_receipt", HashOf(b1))),
     Signed(With(b1, "seq", DecimalNL(1))),
     Enveloped(b2, Sig(Text("EdDSA"), KID, SignatureBy(Text("key2"), b2))),
     Signed(With(v2, "seq", Decimal(3)))}

(* Envelopes wrong in one way each, and what the loop meets them with.     *)
MalformedShapes ==
    {List(<<>>), Null,
     Obj([sig |-> Sig(Text("EdDSA"), KID, Empty)]),
     Obj([body |-> Null, sig |-> Sig(Text("EdDSA"), KID, Empty)]),
     Obj([body |-> Obj([seq |-> Decimal(1)])]),
     Obj([body |-> List(<<>>), sig |-> Null]),
     Enveloped(b2, Text("sig"))}

MalformedBodies ==
    {Signed(b) : b \in
       {Extended(b2, "amount", Num(5)), Without(b2, "ts"),
        With(b2, "seq", Num(2)), With(b2, "seq", Padded(2)),
        With(b2, "decision", Text("maybe")), With(b2, "reasons", Null),
        With(b2, "reasons", List(<<Num(1)>>)),
        With(b2, "reasons", List(<<Surrogate>>)),
        With(b2, "prev_receipt", Text("sha1")),
        With(b2, "request_digest", Empty), With(b2, "v", Null),
        With(b2, "tenant", Text("other")), With(b2, "ts", Text("noon")),
        With(b2, "ts", Time(9))}}

UnsupportedBodies ==
    {Signed(b) : b \in
       {v2, Extended(v2, "amount", Float), Without(v2, "seq"),
        With(v2, "seq", Text("two")), With(v2, "seq", Null),
        With(v2, "seq", List(<<>>)), With(v2, "seq", Num(2)),
        Without(v2, "tenant"), Without(v2, "ts")}}

WrongSignatures ==
    {Enveloped(b2, Sig(Text("ES256"), KID, SignatureBy(Text("key1"), b2))),
     Enveloped(b2, Sig(Text("EdDSA"), Text("k9"), SignatureBy(Text("key1"), b2))),
     Enveloped(b2, Obj([alg |-> Text("EdDSA"), kid |-> KID]))}

AllEnvelopes ==
    {Signed(b1), Signed(b2), Signed(b3)} \cup MalformedShapes
      \cup MalformedBodies \cup UnsupportedBodies \cup WrongSignatures
=============================================================================
