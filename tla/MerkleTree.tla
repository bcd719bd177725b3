----------------------------- MODULE MerkleTree -----------------------------
(***************************************************************************)
(* merkle.py: the root of a batch of receipt hashes, and the check of an   *)
(* inclusion proof whose directions are bound to the leaf's index.  Two    *)
(* digests are equal only if they were computed from equal inputs.         *)
(***************************************************************************)
EXTENDS Json

Half(n) == (n + 1) \div 2    \* nodes in the level above one of n nodes

(* One round of compute_batch_root's loop: neighbours are hashed together, *)
(* the last node of an odd level is promoted.                              *)
NextLevel(level) ==
    [i \in 1..Half(Len(level)) |->
        IF 2 * i <= Len(level) THEN NodeHash(level[2 * i - 1], level[2 * i])
        ELSE level[2 * i - 1]]

(* compute_batch_root of a non-empty sequence of hashes.  A level of one   *)
(* node is its own next level, so Len(hashes) rounds are enough.           *)
compute_batch_root(hashes) ==
    LET level[k \in 0..Len(hashes)] ==
            IF k = 0 THEN [i \in DOMAIN hashes |-> LeafHash(hashes[i])]
            ELSE NextLevel(level[k - 1])
    IN  level[Len(hashes)][1]

-----------------------------------------------------------------------------
(* verify_merkle_proof with batch_size > 0.  The walk is at the node       *)
(* `index' of a level of `size' nodes, has computed `current' for it and   *)
(* used the first `used' steps of the path.                                *)
ValidStep(step, index) ==
    /\ IsObj(step)
    /\ IsHex(Get(Members(step), "hash"))
    /\ Get(Members(step), "position")
         = IF index % 2 = 1 THEN Text("left") ELSE Text("right")

(* Without a batch size a step is only looked at for its structure and     *)
(* says itself on which side its hash goes.                                *)
LegacyStep(step) ==
    /\ IsObj(step)
    /\ IsHex(Get(Members(step), "hash"))
    /\ Get(Members(step), "position") \in {Text("left"), Text("right")}

Sibling(step) == StripPrefix(Get(Members(step), "hash"))

CombineAsTold(current, step) ==
    IF Members(step)["position"] = Text("left")
    THEN NodeHash(Sibling(step), current)
    ELSE NodeHash(current, Sibling(step))

(* Mutant: the last node of an odd level is paired like any other.         *)
NeverPromoted(w) == FALSE

Promoted(w) == w.index = w.size - 1 /\ w.size % 2 = 1

Combine(w, step) ==
    IF w.index % 2 = 1 THEN NodeHash(Sibling(step), w.current)
    ELSE NodeHash(w.current, Sibling(step))

Ascend(w) == [w EXCEPT !.index = @ \div 2, !.size = Half(@)]

WalkStep(w, path) ==
    IF w.size <= 1 \/ ~w.valid THEN w
    ELSE IF Promoted(w) THEN Ascend(w)
    ELSE IF w.used < Len(path) /\ ValidStep(path[w.used + 1], w.index)
         THEN Ascend([w EXCEPT !.current = Combine(w, path[w.used + 1]),
                               !.used = @ + 1])
    ELSE [w EXCEPT !.valid = FALSE]

(* Each round halves the level, so batch_size rounds reach its root.       *)
verify_merkle_proof(hash, leaf_index, path, root, batch_size) ==
    LET start == [current |-> LeafHash(StripPrefix(hash)),
                  index |-> leaf_index, size |-> batch_size, used |-> 0,
                  valid |-> TRUE]
        walk[k \in 0..batch_size] ==
            IF k = 0 THEN start ELSE WalkStep(walk[k - 1], path)
        end   == walk[batch_size]
    IN  /\ IsHex(hash)
        /\ leaf_index \in 0..batch_size - 1
        /\ end.valid
        /\ end.used = Len(path)
        /\ end.current = root

-----------------------------------------------------------------------------
(* The proof an honest operator gives for a leaf: on each level the node   *)
(* beside the leaf's ancestor, where there is one.                         *)
SiblingOf(index) == IF index % 2 = 1 THEN index - 1 ELSE index + 1

StepBeside(level, index) ==
    Obj([position |-> IF index % 2 = 1 THEN Text("left") ELSE Text("right"),
         hash |-> level[SiblingOf(index) + 1]])

(* One level up: the node's index there and the path with a step more.     *)
Beside(level, at) ==
    [index |-> at.index \div 2,
     path  |-> IF SiblingOf(at.index) < Len(level)
               THEN Append(at.path, StepBeside(level, at.index)) ELSE at.path]

HonestPath(lvls, leaf_index) ==
    LET at[h \in DOMAIN lvls] ==
            IF h = 1 THEN [index |-> leaf_index, path |-> <<>>]
            ELSE Beside(lvls[h - 1], at[h - 1])
    IN  at[Len(lvls)].path
=============================================================================
