----------------------------- MODULE MCVerifier -----------------------------
(***************************************************************************)
(* Small instances of Verifier: arrays of up to three receipts of one      *)
(* chain, some of them spoilt, with anchor proofs that are right or wrong  *)
(* in one way each.                                                        *)
(***************************************************************************)
EXTENDS Verifier, MCReceipts

(* A receipt whose body is the least that layer 2 looks up without a guard.*)
SeqOnly == Obj([body |-> Obj([seq |-> Decimal(1)]), sig |-> Null])

AnchoredEnvelopes ==
    {Signed(b1), Signed(b2), Signed(b3), SeqOnly,
     Enveloped(b2, Sig(Text("EdDSA"), KID, SignatureBy(Text("key2"), b2))),
     Signed(With(v2, "seq", Decimal(4)))}

-----------------------------------------------------------------------------
h1 == HashOf(b1)
h2 == HashOf(b2)
h3 == HashOf(b3)
n12 == NodeHash(LeafHash(h1), LeafHash(h2))
root3 == NodeHash(n12, LeafHash(h3))
root13 == NodeHash(LeafHash(h1), LeafHash(h3))

Right(hash) == path_step("right", hash)
Left(hash)  == path_step("left", hash)

p1 == proof_entry(h1, Decimal(0), <<Right(LeafHash(h2)), Right(LeafHash(h3))>>)
p2 == proof_entry(h2, Decimal(1), <<Left(LeafHash(h1)), Right(LeafHash(h3))>>)
p3 == proof_entry(h3, Decimal(2), <<Left(n12)>>)
p13 == proof_entry(h1, Decimal(0), <<Right(LeafHash(h3))>>)
p33 == proof_entry(h3, Decimal(2), <<Left(LeafHash(h1))>>)

a1 == anchor_proof(1, 1, LeafHash(h1), <<proof_entry(h1, Decimal(0), <<>>)>>)
a2 == anchor_proof(1, 2, n12, <<proof_entry(h1, Num(0), <<Right(LeafHash(h2))>>),
                                proof_entry(h2, Num(1), <<Left(LeafHash(h1))>>)>>)
a3 == anchor_proof(1, 3, root3, <<p1, p2, p3>>)

WholeAnchors ==
    {a1, a2, a3,
     anchor_proof(2, 2, LeafHash(h2), <<proof_entry(h2, Decimal(0), <<>>)>>),
     anchor_proof(1, 4, root3, <<p1, p2, p3>>),
     anchor_proof(1, 3, root13, <<p33>>),
     anchor_proof(1, 3, root13, <<p13, p33>>),
     anchor_proof(1, 3, LeafHash(h1), <<proof_entry(h1, Decimal(0), <<>>)>>),
     anchor_proof(7, 9, root3, <<p1>>)}

SpoiltAnchors ==
    {With(a3, "tenant", Text("other")), With(a3, "tenant", List(<<>>)),
     With(a3, "root_alg", Null), With(a3, "batch_root", Num(3)),
     With(a3, "batch_root", Bare(root3)),
     With(a3, "commitment_value", Num(3)), With(a3, "commitment_value", n12),
     With(With(a3, "batch_root", BadHex), "commitment_value", BadHex),
     With(a3, "range_start", Text("one")), With(a3, "range_start", Num(1)),
     With(With(a3, "range_end", Null), "range_start", Null),
     With(a3, "tx", Empty), With(a3, "proofs", Null),
     With(a3, "proofs", List(<<>>))}

SpoiltProofs ==
    {With(a3, "proofs", List(ps)) : ps \in
       {<<p1, p3>>, <<p1, p2, p3, Null>>,
        <<Obj([receipt_hash |-> h1]), p1, p2, p3>>,
        <<p1, p2, p3, proof_entry(Num(1), Decimal(0), <<>>)>>,
        <<p1, p2, proof_entry(h3, Text("two"), <<Left(n12)>>)>>,
        <<p1, p2, proof_entry(h3, Decimal(3), <<Left(n12)>>)>>,
        <<p1, p2, proof_entry(h3, Decimal(2), <<Right(n12)>>)>>,
        <<p1, p2, proof_entry(h3, Decimal(2), <<Left(Text("zz"))>>)>>,
        <<p1, p2, proof_entry(h3, Decimal(2), <<Null>>)>>,
        <<p1, p2, proof_entry(h3, Decimal(2), <<>>)>>,
        <<p1, p2, proof_entry(h3, Decimal(2), <<Left(n12), Left(n12)>>)>>}}

MCAnchors ==
    {Null, List(<<>>)}
      \cup {Obj(a) : a \in WholeAnchors \cup SpoiltAnchors \cup SpoiltProofs}

(* One input for each way through layers 2 and 3.                          *)
FewAnchors ==
    {Null, List(<<>>), Obj(a2), Obj(a3), Obj(anchor_proof(7, 9, root3, <<p1>>)),
     Obj(With(a3, "range_start", Text("one"))),
     Obj(With(a2, "tenant", List(<<>>)))}

RepeatingEnvelopes ==
    AnchoredEnvelopes
      \cup {Signed(With(b1, "seq", DecimalNL(1))), Signed(v2), Null,
            Obj([body |-> List(<<>>), sig |-> Null])}

FewEnvelopes == {Signed(b1), Signed(b2), Null, SeqOnly}
=============================================================================
