---------------------------- MODULE MCMerkleWalk ----------------------------
(***************************************************************************)
(* Small instances of MerkleWalk: batches of up to five receipts, and the  *)
(* proofs one can put together from the nodes of their trees.              *)
(***************************************************************************)
EXTENDS MerkleWalk, SequencesExt

H(i) == Digest(ToString(i))

MCReceiptHashes == {H(i) : i \in 1..5}
MCBatches == {[i \in 1..n |-> H(i)] : n \in 1..5}

StepsWith(nodes) ==
    {Obj([position |-> Text(side), hash |-> node]) :
        side \in {"left", "right"}, node \in nodes}

SpoiltSteps ==
    {Null, Obj([hash |-> H(1)]), Obj([position |-> Text("left")]),
     Obj([position |-> Text("up"), hash |-> LeafHash(H(2))]),
     Obj([position |-> Text("left"), hash |-> BadHex]),
     Obj([position |-> Text("right"), hash |-> Bare(LeafHash(H(2)))])}

(* A path, and the paths that differ from it in one step.                  *)
Variations(path, steps) ==
    {path} \cup {RemoveAt(path, k) : k \in DOMAIN path}
      \cup {Append(path, s) : s \in steps}
      \cup {ReplaceAt(path, k, s) : k \in DOMAIN path, s \in steps}

PathsIn(lvls) ==
    LET leaves == Len(lvls[1])
        steps  == StepsWith(UNION {ToSet(lvls[h]) : h \in DOMAIN lvls})
    IN  UNION {Variations(HonestPath(lvls, i),
                          IF leaves <= 3 THEN steps \cup SpoiltSteps ELSE steps) :
                  i \in 0..leaves - 1}
          \cup IF leaves <= 3 THEN BoundedSeq(steps, 2) ELSE {}

Honestly(lvls, i) ==
    [receipt_hash |-> H(i + 1), leaf_index |-> i, batch_size |-> Len(lvls[1]),
     merkle_path |-> List(HonestPath(lvls, i))]

SpoiltArguments(c) ==
    {[c EXCEPT !.receipt_hash = BadHex], [c EXCEPT !.receipt_hash = Bare(@)],
     [c EXCEPT !.leaf_index = -1], [c EXCEPT !.leaf_index = c.batch_size],
     [c EXCEPT !.batch_size = -1], [c EXCEPT !.merkle_path = Null]}

(* Receipts of the batch, another one and an inner node in the place of a  *)
(* receipt hash, at every index, with sizes around the right one.          *)
MCClaims(lvls) ==
    LET leaves == Len(lvls[1])
        sizes  == {0, leaves - 1, leaves, leaves + 1}
    IN  [receipt_hash : {H(i) : i \in 1..leaves} \cup {H(9), lvls[Len(lvls)][1]},
         leaf_index   : 0..leaves - 1,
         batch_size   : IF leaves = 5 THEN sizes \ {4} ELSE sizes,
         merkle_path  : {List(p) : p \in PathsIn(lvls)}]
        \cup UNION {SpoiltArguments(Honestly(lvls, i)) : i \in 0..leaves - 1}
=============================================================================
