----------------------------- MODULE MCVectors -----------------------------
(***************************************************************************)
(* The one instance of Vectors: its inputs are the vectors.                *)
(***************************************************************************)
EXTENDS Vectors

RangeOf(s) == {s[i] : i \in DOMAIN s}

VectorEnvelopes == UNION {RangeOf(v.receipts) : v \in generate_all}
VectorKeySets   == {v.keys : v \in generate_all}
VectorAnchors   == {v.anchor : v \in generate_all}
=============================================================================
