--------------------------- MODULE AnchorValidity ---------------------------
(***************************************************************************)
(* Layer 2, _verify_anchor_validity of verify.py, for an anchor proof that *)
(* is an object (its members are `anchor') and at least one recorded       *)
(* receipt.  The function returns at its first error: each operator is the *)
(* set of codes, one or none, of a group of its checks.                    *)
(***************************************************************************)
EXTENDS ReceiptIntegrity, MerkleTree, FiniteSetsExt

(* The keys of receipt_hashes.                                             *)
RecordedSeqs == {SeqOf(p) : p \in recorded}

(* seq_to_tenant: of the envelopes with a recorded seq the last one wins.  *)
Tenants ==
    LET last(s) == Max(EnvelopesWithSeq(s))
    IN  {Get(BodyOf(receipts[last(s)]), "tenant") : s \in RecordedSeqs}

RootAlgErrors(anchor) ==
    IF Get(anchor, "root_alg") # Text("merkle-sha256-v1")
    THEN {"ANCHOR_PROOF_INVALID"} ELSE {}

TenantErrors(anchor) ==
    IF Cardinality(Tenants) # 1 \/ Get(anchor, "tenant") \notin Tenants
    THEN {"ANCHOR_PROOF_INVALID"} ELSE {}

(* Lines 432-440 use seqs as keys of a dict and tenants as members of a    *)
(* set, in every envelope whose body is an object, checked or not.         *)
TenantRaises(anchor) ==
    \/ \E p \in DOMAIN receipts :
          /\ IsObj(receipts[p])
          /\ IsObj(Get(Members(receipts[p]), "body"))
          /\ \/ ~Hashable(Get(BodyOf(receipts[p]), "seq"))
             \/ /\ Get(BodyOf(receipts[p]), "seq") \in RecordedSeqs
                /\ "tenant" \notin DOMAIN BodyOf(receipts[p])
    \/ \E t \in Tenants : ~Hashable(t)
    \/ Cardinality(Tenants) = 1 /\ ~Hashable(Get(anchor, "tenant"))

BatchRoot(anchor)       == GetOr(anchor, "batch_root", Empty)
CommitmentValue(anchor) == GetOr(anchor, "commitment_value", Empty)

CommitmentErrors(anchor) ==
    IF ~HasPrefix(BatchRoot(anchor)) \/ ~IsStr(CommitmentValue(anchor))
    THEN {"ANCHOR_PROOF_INVALID"}
    ELSE IF BatchRoot(anchor) # CommitmentValue(anchor)
         THEN {"ANCHOR_ROOT_MISMATCH"}
    ELSE {}

-----------------------------------------------------------------------------
RangeStart(anchor)  == GetOr(anchor, "range_start", Decimal(0))
RangeEnd(anchor)    == GetOr(anchor, "range_end", Decimal(0))
HasRange(anchor)    == HasInt(RangeStart(anchor)) /\ HasInt(RangeEnd(anchor))
AnchorRange(anchor) == IntOf(RangeStart(anchor))..IntOf(RangeEnd(anchor))
BatchSize(anchor) ==
    IntOf(RangeEnd(anchor)) - IntOf(RangeStart(anchor)) + 1

(* The numbers of the range whose numeral is the seq of a recorded receipt.*)
Covered(anchor) ==
    {n \in AnchorRange(anchor) : \E p \in recorded : SeqOf(p) = Decimal(n)}

(* receipt_hashes[str(n)] of a covered n                                   *)
HashAt(n) == ReceiptHash(CHOOSE p \in recorded : SeqOf(p) = Decimal(n))

OrderedHashes(anchor) ==
    LET covered == Covered(anchor)
        ith(i) == CHOOSE n \in covered :
                      Cardinality({m \in covered : m < n}) = i - 1
    IN  [i \in 1..Cardinality(covered) |-> HashAt(ith(i))]

(* Mutant: the root is not recomputed from the receipts.                   *)
RootErrorsUncompared(anchor) ==
    IF ~HasRange(anchor) THEN {"ANCHOR_PROOF_INVALID"}
    ELSE IF Covered(anchor) = {} THEN {"RANGE_NOT_COVERED"}
    ELSE {}

RootErrors(anchor) ==
    IF ~HasRange(anchor) THEN {"ANCHOR_PROOF_INVALID"}
    ELSE IF Covered(anchor) = {} THEN {"RANGE_NOT_COVERED"}
    ELSE IF ~IsHex(BatchRoot(anchor)) THEN {"ANCHOR_PROOF_INVALID"}
    ELSE IF compute_batch_root(OrderedHashes(anchor)) # BatchRoot(anchor)
         THEN {"ANCHOR_ROOT_MISMATCH"}
    ELSE {}

-----------------------------------------------------------------------------
Proofs(anchor) == GetOr(anchor, "proofs", List(<<>>))

ProofHashes(proofs) ==
    {Get(Members(proofs[i]), "receipt_hash") :
        i \in {j \in DOMAIN proofs : IsObj(proofs[j])}}

(* Mutant: a receipt of the range may have no proof.                       *)
ProofListErrorsUncovered(anchor) ==
    IF ~IsList(Proofs(anchor)) \/ Items(Proofs(anchor)) = <<>>
    THEN {"ANCHOR_PROOF_INVALID"} ELSE {}

ProofListErrors(anchor) ==
    IF \/ ~IsList(Proofs(anchor))
       \/ Items(Proofs(anchor)) = <<>>
       \/ \E n \in Covered(anchor) :
             HashAt(n) \notin ProofHashes(Items(Proofs(anchor)))
    THEN {"ANCHOR_PROOF_INVALID"} ELSE {}

LeafIndex(proof) == GetOr(proof, "leaf_index", Decimal(0))

WellFormedProof(proof, size) ==
    /\ IsObj(proof)
    /\ IsList(Get(Members(proof), "merkle_path"))
    /\ IsStr(GetOr(Members(proof), "receipt_hash", Empty))
    /\ HasInt(LeafIndex(Members(proof)))
    /\ IntOf(LeafIndex(Members(proof))) \in 0..size - 1

ProofErrors(proof, anchor) ==
    IF ~WellFormedProof(proof, BatchSize(anchor)) THEN {"ANCHOR_PROOF_INVALID"}
    ELSE IF verify_merkle_proof(GetOr(Members(proof), "receipt_hash", Empty),
                                IntOf(LeafIndex(Members(proof))),
                                Items(Members(proof)["merkle_path"]),
                                BatchRoot(anchor), BatchSize(anchor))
         THEN {} ELSE {"MERKLE_PATH_INVALID"}

(* The loop returns at the first proof that has an error.                  *)
FirstProofErrors(anchor) ==
    LET proofs == Items(Proofs(anchor))
        faulty == {i \in DOMAIN proofs : ProofErrors(proofs[i], anchor) # {}}
    IN  IF faulty = {} THEN {} ELSE ProofErrors(proofs[Min(faulty)], anchor)

-----------------------------------------------------------------------------
AnchorErrors(anchor) ==
    RootAlgErrors(anchor) ?? TenantErrors(anchor) ?? CommitmentErrors(anchor)
      ?? RootErrors(anchor) ?? ProofListErrors(anchor)
      ?? FirstProofErrors(anchor)

AnchorRaises(anchor) == RootAlgErrors(anchor) = {} /\ TenantRaises(anchor)
=============================================================================
