----------------------------- MODULE MerkleWalk -----------------------------
(***************************************************************************)
(* merkle.py as it runs: the issuer builds the tree of a batch one level   *)
(* per round (compute_batch_root), someone submits an inclusion proof, and *)
(* verify_merkle_proof walks from the leaf to the root, one step per round *)
(* of its loop.  The root compared with is the root that was built:        *)
(* verify.py checks that before it looks at any proof.                     *)
(***************************************************************************)
EXTENDS MerkleTree

CONSTANTS
    ReceiptHashes,
    Batches,        \* the sequences of receipt hashes that are anchored
    Claims(_)       \* what may be submitted once the levels of a tree are known

ASSUME BatchesAssumption ==
    \A batch \in Batches : batch \in Seq(ReceiptHashes) /\ batch # <<>>

VARIABLES
    hashes,     \* receipt_hashes_hex, in the order of their numbers
    levels,     \* each value that `level' had
    claim,      \* the arguments of verify_merkle_proof
    walk,       \* its locals: current, index, size and the steps used
    pc          \* "build", "start", "walk", "legacy" or a verdict

vars == <<hashes, levels, claim, walk, pc>>

Top  == levels[Len(levels)]
Root == Top[1]

NoWalk == [current |-> Null, index |-> 0, size |-> 0, used |-> 0]

Init ==
    /\ hashes \in Batches
    /\ levels = <<[i \in DOMAIN hashes |-> LeafHash(hashes[i])]>>
    /\ claim = Null
    /\ walk = NoWalk
    /\ pc = "build"

BuildLevel ==
    /\ pc = "build" /\ Len(Top) > 1
    /\ levels' = Append(levels, NextLevel(Top))
    /\ UNCHANGED <<hashes, claim, walk, pc>>

Submit ==
    /\ pc = "build" /\ Len(Top) = 1
    /\ claim' \in Claims(levels)
    /\ pc' = "start"
    /\ UNCHANGED <<hashes, levels, walk>>

-----------------------------------------------------------------------------
Decide(accepted) ==
    /\ pc' = IF accepted THEN "accepted" ELSE "rejected"
    /\ UNCHANGED <<hashes, levels, claim, walk>>

(* The checks before the loop.                                             *)
InOrder ==
    /\ claim.leaf_index \in Nat
    /\ claim.batch_size \in Nat
    /\ claim.batch_size > 0 => claim.leaf_index < claim.batch_size
    /\ IsList(claim.merkle_path)
    /\ IsHex(claim.receipt_hash)

RejectArguments == pc = "start" /\ ~InOrder /\ Decide(FALSE)

Start ==
    /\ pc = "start" /\ InOrder
    /\ walk' = [current |-> LeafHash(StripPrefix(claim.receipt_hash)),
                index |-> claim.leaf_index, size |-> claim.batch_size,
                used |-> 0]
    /\ pc' = IF claim.batch_size > 0 THEN "walk" ELSE "legacy"
    /\ UNCHANGED <<hashes, levels, claim>>

Path    == Items(claim.merkle_path)
HasStep == walk.used < Len(Path)
Step    == Path[walk.used + 1]
Use(w)  == [w EXCEPT !.used = @ + 1]
Move(w) == walk' = w /\ UNCHANGED <<hashes, levels, claim, pc>>

-----------------------------------------------------------------------------
(* batch_size > 0: the position of each sibling is bound to the index.     *)
InWalk == pc = "walk" /\ walk.size > 1

(* Mutant: the round ends without going up.                                *)
PromoteInPlace == InWalk /\ Promoted(walk) /\ Move(walk)

Promote == InWalk /\ Promoted(walk) /\ Move(Ascend(walk))

(* Mutant: the position in a step is taken at its word.                    *)
ClimbUnbound ==
    /\ InWalk /\ ~Promoted(walk)
    /\ HasStep /\ LegacyStep(Step)
    /\ Move(Use(Ascend([walk EXCEPT !.current = CombineAsTold(@, Step)])))

Climb ==
    /\ InWalk /\ ~Promoted(walk)
    /\ HasStep /\ ValidStep(Step, walk.index)
    /\ Move(Use(Ascend([walk EXCEPT !.current = Combine(walk, Step)])))

RejectStep ==
    /\ InWalk /\ ~Promoted(walk)
    /\ ~(HasStep /\ ValidStep(Step, walk.index))
    /\ Decide(FALSE)

(* Mutant: steps left over are ignored.                                    *)
FinishEarly ==
    /\ pc = "walk" /\ walk.size <= 1
    /\ Decide(walk.current = Root)

Finish ==
    /\ pc = "walk" /\ walk.size <= 1
    /\ Decide(walk.used = Len(Path) /\ walk.current = Root)

-----------------------------------------------------------------------------
(* batch_size = 0: the steps are taken as they come.                       *)
LegacyClimb ==
    /\ pc = "legacy" /\ HasStep /\ LegacyStep(Step)
    /\ Move(Use([walk EXCEPT !.current = CombineAsTold(@, Step)]))

LegacyRejectStep ==
    /\ pc = "legacy" /\ HasStep /\ ~LegacyStep(Step)
    /\ Decide(FALSE)

LegacyFinish ==
    /\ pc = "legacy" /\ ~HasStep
    /\ Decide(walk.current = Root)

Verify ==
    \/ RejectArguments \/ Start
    \/ Promote \/ Climb \/ RejectStep \/ Finish
    \/ LegacyClimb \/ LegacyRejectStep \/ LegacyFinish

Next == BuildLevel \/ Submit \/ Verify

Spec == Init /\ [][Next]_vars

(* The builder and the verifier are loops that wait for nothing; whether   *)
(* somebody submits a proof is not up to them.                             *)
FairSpec == Spec /\ WF_vars(BuildLevel) /\ WF_vars(Verify)

-----------------------------------------------------------------------------
Decided == pc \in {"accepted", "rejected"}

(* An accepted proof is about an anchored receipt, whatever size and index *)
(* it claims, and without a size: no sibling can stand for a leaf or a     *)
(* leaf for an inner node (merkle.py:13-14).                               *)
AcceptedIsAnchored ==
    pc = "accepted" =>
        \E i \in DOMAIN hashes : hashes[i] = StripPrefix(claim.receipt_hash)

(* With the right size an accepted proof also binds the receipt to its     *)
(* place in the batch: the leaf at leaf_index is this receipt's, promoted  *)
(* nodes on the way or not (merkle.py:96-138).                             *)
AcceptedIsInPlace ==
    pc = "accepted" /\ claim.batch_size = Len(hashes) =>
        hashes[claim.leaf_index + 1] = StripPrefix(claim.receipt_hash)

(* The proof an honest operator gives for a leaf is never rejected, at any *)
(* place of a batch of any size, nor is it in the legacy mode.             *)
Honest ==
    /\ claim.batch_size \in {0, Len(hashes)}
    /\ claim.leaf_index \in 0..Len(hashes) - 1
    /\ IsHex(claim.receipt_hash)
    /\ StripPrefix(claim.receipt_hash) = hashes[claim.leaf_index + 1]
    /\ claim.merkle_path = List(HonestPath(levels, claim.leaf_index))

HonestIsAccepted == Decided /\ Honest => pc = "accepted"

(* The two functions that stand for merkle.py in layer 2 compute what its  *)
(* loops compute.                                                          *)
FunctionsAgree ==
    Decided /\ claim.batch_size \in Nat \ {0} /\ IsList(claim.merkle_path) =>
        /\ Root = compute_batch_root(hashes)
        /\ verify_merkle_proof(claim.receipt_hash, claim.leaf_index, Path,
                               Root, claim.batch_size) <=> pc = "accepted"

(* The walk ends: every submitted proof is decided.                        *)
Terminates == <>(Len(Top) = 1) /\ (pc = "start" ~> Decided)
=============================================================================
