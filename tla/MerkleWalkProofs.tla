-------------------------- MODULE MerkleWalkProofs --------------------------
(***************************************************************************)
(* An accepted inclusion proof is about a receipt of the batch, and with   *)
(* the batch's size about the receipt at that place, for batches and paths *)
(* of any length.                                                          *)
(***************************************************************************)
EXTENDS MerkleWalk, MerkleTreeProofs

-----------------------------------------------------------------------------
(* The tree that the first loop builds.                                    *)
NodesOf(lvls) == UNION {{lvls[h][i] : i \in DOMAIN lvls[h]} : h \in DOMAIN lvls}

LevelsOK ==
    /\ IsSeq(hashes) /\ Len(hashes) > 0
    /\ IsSeq(levels) /\ Len(levels) > 0
    /\ levels[1] = [i \in DOMAIN hashes |-> LeafHash(hashes[i])]
    /\ \A h \in 1..Len(levels) : IsSeq(levels[h]) /\ Len(levels[h]) > 0
    /\ \A h \in 1..Len(levels) - 1 :
          Len(levels[h]) > 1 /\ levels[h + 1] = NextLevel(levels[h])

Leaves == {LeafHash(hashes[i]) : i \in DOMAIN hashes}

(* Every node is a leaf or has its two children in the tree.               *)
TreeOK ==
    \A x \in NodesOf(levels) :
        \/ x \in Leaves
        \/ \E a, b \in NodesOf(levels) : x = NodeHash(a, b)

(* The walk is somewhere in the tree; if it carries the node of its place  *)
(* the receipt it began with is the one at the leaf index.                 *)
Claimed == StripPrefix(claim.receipt_hash)

AtLevel(h) ==
    /\ walk.size = Len(levels[h])
    /\ walk.index < walk.size
    /\ walk.current = levels[h][walk.index + 1]
         => Claimed = hashes[claim.leaf_index + 1]

WalkRecord(c) == [current : {c}, index : Nat, size : Nat, used : Nat]

WalkOK ==
    /\ walk \in WalkRecord(walk.current)
    /\ pc = "walk" /\ claim.batch_size = Len(hashes)
         => \E h \in 1..Len(levels) : AtLevel(h)
    /\ pc \in {"walk", "legacy"} /\ walk.current \in NodesOf(levels)
         => \E i \in DOMAIN hashes : hashes[i] = Claimed
    /\ pc = "legacy" => claim.batch_size = 0

Inv ==
    /\ LevelsOK /\ TreeOK /\ WalkOK
    /\ pc # "build" => Len(Top) = 1
    /\ AcceptedIsAnchored /\ AcceptedIsInPlace

-----------------------------------------------------------------------------
(* Before the first level is built nothing has been claimed or accepted.   *)
LEMMA InitInv == Init => Inv
<1> SUFFICES ASSUME Init PROVE Inv
  OBVIOUS
<1>1. IsSeq(hashes) /\ Len(hashes) \in Nat \ {0} /\ DOMAIN hashes = 1..Len(hashes)
  <2>1. hashes \in Seq(ReceiptHashes) /\ hashes # <<>>
    BY BatchesAssumption DEF Init
  <2>2. hashes = [i \in 1..Len(hashes) |-> hashes[i]] /\ Len(hashes) \in Nat \ {0}
    BY <2>1
  <2> QED
    BY <2>2, SeqOfLength
<1> DEFINE leaves == [i \in DOMAIN hashes |-> LeafHash(hashes[i])]
<1>2. levels = <<leaves>>
  BY DEF Init
<1>3. IsSeq(leaves) /\ Len(leaves) = Len(hashes) /\ DOMAIN leaves = DOMAIN hashes
  <2>1. leaves = [i \in 1..Len(hashes) |-> leaves[i]]
    BY <1>1
  <2> HIDE DEF leaves
  <2> QED
    BY <1>1, <2>1, SeqOfLength
<1>4. IsSeq(levels) /\ Len(levels) = 1 /\ levels[1] = leaves /\ DOMAIN levels = {1}
  <2> HIDE DEF leaves
  <2>1. levels = [i \in 1..1 |-> levels[i]] /\ levels[1] = leaves
    BY <1>2
  <2>2. IsSeq(levels) /\ Len(levels) = 1 /\ DOMAIN levels = 1..1
    BY <2>1, SeqOfLength
  <2> QED
    BY <2>1, <2>2
<1>5. LevelsOK
  <2> HIDE DEF leaves
  <2>1. \A h \in 1..Len(levels) : levels[h] = leaves
    BY <1>4
  <2>2. 1..Len(levels) - 1 = {}
    BY <1>4
  <2> QED
    BY <1>1, <1>3, <1>4, <2>1, <2>2 DEF LevelsOK, leaves
<1>6. TreeOK
  <2>1. NodesOf(levels) = {leaves[i] : i \in DOMAIN leaves}
    BY <1>4 DEF NodesOf
  <2> QED
    BY <2>1 DEF TreeOK, Leaves
<1>7. pc = "build" /\ walk = NoWalk
  BY DEF Init
<1>8. WalkOK
  BY <1>7 DEF WalkOK, NoWalk, WalkRecord
<1> QED
  BY <1>5, <1>6, <1>7, <1>8 DEF Inv, AcceptedIsAnchored, AcceptedIsInPlace

(* A new level on top of a tree makes a tree.                              *)
LEMMA BuildKeepsTree ==
    ASSUME LevelsOK, TreeOK, BuildLevel
    PROVE  LevelsOK' /\ TreeOK'
<1> DEFINE n == Len(levels)
           next == NextLevel(Top)
<1>1. /\ levels' = Append(levels, next) /\ hashes' = hashes
      /\ Len(Top) > 1
  BY DEF BuildLevel
<1>2. n \in Nat \ {0} /\ DOMAIN levels = 1..n
  BY SeqDomain DEF LevelsOK
<1>3. IsSeq(Top) /\ Len(Top) > 0 /\ Top = levels[n]
  BY <1>2 DEF LevelsOK, Top
<1>4. /\ IsSeq(levels') /\ Len(levels') = n + 1
      /\ \A h \in 1..n : levels'[h] = levels[h]
      /\ levels'[n + 1] = next
  <2> HIDE DEF next
  <2> QED
    BY <1>1, Appended DEF LevelsOK
<1>5. /\ IsSeq(next) /\ Len(next) = Half(Len(Top))
      /\ Half(Len(Top)) \in Nat \ {0}
      /\ \A i \in 1..Half(Len(Top)) :
            next[i] = IF 2 * i <= Len(Top) THEN NodeHash(Top[2 * i - 1], Top[2 * i])
                      ELSE Top[2 * i - 1]
  BY <1>3, NextLevelIs
<1> HIDE DEF next
<1>6. LevelsOK'
  <2>1. \A h \in 1..Len(levels') : IsSeq(levels'[h]) /\ Len(levels'[h]) > 0
    <3> SUFFICES ASSUME NEW h \in 1..Len(levels')
                 PROVE  IsSeq(levels'[h]) /\ Len(levels'[h]) > 0
      OBVIOUS
    <3>1. CASE h \in 1..n
      BY <3>1, <1>4 DEF LevelsOK
    <3>2. CASE h = n + 1
      BY <3>2, <1>4, <1>5
    <3> QED
      BY <1>2, <1>4, <3>1, <3>2
  <2>2. \A h \in 1..Len(levels') - 1 :
           Len(levels'[h]) > 1 /\ levels'[h + 1] = NextLevel(levels'[h])
    <3> SUFFICES ASSUME NEW h \in 1..n
                 PROVE  Len(levels'[h]) > 1 /\ levels'[h + 1] = NextLevel(levels'[h])
      BY <1>2, <1>4
    <3>1. CASE h = n
      BY <1>1, <1>2, <1>3, <1>4, <3>1 DEF next
    <3>2. CASE h \in 1..n - 1
      <4>1. levels'[h] = levels[h] /\ levels'[h + 1] = levels[h + 1]
        BY <1>2, <1>4, <3>2
      <4> QED
        BY <3>2, <4>1 DEF LevelsOK
    <3>3. h = n \/ h \in 1..n - 1
      <4>1. n \in Nat
        BY <1>2
      <4> HIDE DEF n
      <4> QED
        BY <4>1
    <3> QED
      BY <3>1, <3>2, <3>3
  <2>3. levels'[1] = [i \in DOMAIN hashes' |-> LeafHash(hashes'[i])]
    <3>1. levels'[1] = levels[1]
      BY <1>2, <1>4
    <3> QED
      BY <1>1, <3>1 DEF LevelsOK
  <2>4. IsSeq(hashes') /\ Len(hashes') > 0
    BY <1>1 DEF LevelsOK
  <2>5. Len(levels') > 0
    BY <1>2, <1>4
  <2> QED
    BY <1>4, <2>1, <2>2, <2>3, <2>4, <2>5 DEF LevelsOK
<1>7. TreeOK'
  <2> SUFFICES ASSUME NEW x \in NodesOf(levels')
               PROVE  \/ x \in Leaves
                      \/ \E a, b \in NodesOf(levels') : x = NodeHash(a, b)
    BY <1>1 DEF TreeOK, Leaves
  <2>1. DOMAIN levels' = 1..n + 1
    BY <1>4, SeqDomain
  <2>2. NodesOf(levels) \subseteq NodesOf(levels')
    BY <1>2, <1>4, <2>1 DEF NodesOf
  <2>3. PICK h \in 1..n + 1 : \E i \in DOMAIN levels'[h] : x = levels'[h][i]
    BY <2>1 DEF NodesOf
  <2>4. PICK i \in DOMAIN levels'[h] : x = levels'[h][i]
    BY <2>3
  <2>5. CASE h \in 1..n
    <3>1. x \in NodesOf(levels)
      BY <1>2, <1>4, <2>4, <2>5 DEF NodesOf
    <3> QED
      BY <2>2, <3>1 DEF TreeOK
  <2>6. CASE h = n + 1
    <3>1. i \in 1..Half(Len(Top)) /\ x = next[i] /\ DOMAIN Top = 1..Len(Top)
          /\ Len(Top) \in Nat
      BY <1>3, <1>4, <1>5, <2>4, <2>6, SeqDomain
    <3>2. 2 * i - 1 \in 1..Len(Top) /\ (2 * i <= Len(Top) => 2 * i \in 1..Len(Top))
      BY <3>1 DEF Half
    <3>3. \A j \in 1..Len(Top) : Top[j] \in NodesOf(levels)
      BY <1>2, <1>3, <3>1 DEF NodesOf
    <3>4. CASE 2 * i <= Len(Top)
      BY <1>5, <2>2, <3>1, <3>2, <3>3, <3>4
    <3>5. CASE ~(2 * i <= Len(Top))
      <4>1. x \in NodesOf(levels)
        BY <1>5, <3>1, <3>2, <3>3, <3>5
      <4> QED
        BY <2>2, <4>1 DEF TreeOK
    <3> QED
      BY <3>4, <3>5
  <2> QED
    BY <1>2, <2>3, <2>5, <2>6
<1> QED
  BY <1>6, <1>7
-----------------------------------------------------------------------------
(* Equal inner nodes have equal children.                                  *)
LEMMA SameNode ==
    ASSUME NEW a, NEW b, NEW c, NEW d, NodeHash(a, b) = NodeHash(c, d)
    PROVE  a = c /\ b = d
BY DEF NodeHash

(* A digest made of the walk's is in the tree only if the walk's is.       *)
LEMMA CombinedIsInTree ==
    ASSUME TreeOK, NEW x, NEW s,
           NodeHash(x, s) \in NodesOf(levels) \/ NodeHash(s, x) \in NodesOf(levels)
    PROVE  x \in NodesOf(levels)
<1>1. PICK y \in NodesOf(levels) : y = NodeHash(x, s) \/ y = NodeHash(s, x)
  OBVIOUS
<1>2. y \notin Leaves
  BY <1>1, Injective DEF Leaves
<1>3. PICK a, b \in NodesOf(levels) : y = NodeHash(a, b)
  BY <1>2 DEF TreeOK
<1>4. x = a \/ x = b
  BY <1>1, <1>3, Injective
<1> QED
  BY <1>3, <1>4

(* Where the parent of the node i of a level is, and what it is made of.   *)
LEMMA LevelAbove ==
    ASSUME LevelsOK, Len(Top) = 1,
           NEW h \in 1..Len(levels), Len(levels[h]) > 1,
           NEW i \in 0..Len(levels[h]) - 1
    PROVE  LET n == Len(levels[h])
               parent == levels[h + 1][i \div 2 + 1]
           IN  /\ h + 1 \in 1..Len(levels)
               /\ Len(levels[h + 1]) = Half(n)
               /\ i \div 2 \in Nat /\ i \div 2 < Half(n) /\ Half(n) \in Nat
               /\ i = n - 1 /\ n % 2 = 1 => parent = levels[h][i + 1]
               /\ ~(i = n - 1 /\ n % 2 = 1) =>
                     parent = IF i % 2 = 1
                              THEN NodeHash(levels[h][i], levels[h][i + 1])
                              ELSE NodeHash(levels[h][i + 1], levels[h][i + 2])
<1> DEFINE n == Len(levels[h])
           k == i \div 2 + 1
<1>1. Len(levels) \in Nat /\ IsSeq(levels[h]) /\ n \in Nat
  BY SeqDomain DEF LevelsOK
<1>2. h # Len(levels)
  <2> SUFFICES ASSUME h = Len(levels) PROVE FALSE
    OBVIOUS
  <2>1. Top = levels[h]
    BY DEF Top
  <2>2. Len(levels[h]) = 1
    BY <2>1
  <2> QED
    BY <2>2
<1>3. h \in 1..Len(levels) - 1 /\ h + 1 \in 1..Len(levels)
  BY <1>1, <1>2
<1>4. levels[h + 1] = NextLevel(levels[h])
  BY <1>3 DEF LevelsOK
<1>5. /\ Len(levels[h + 1]) = Half(n)
      /\ \A j \in 1..Half(n) :
            levels[h + 1][j] = IF 2 * j <= n
                               THEN NodeHash(levels[h][2 * j - 1], levels[h][2 * j])
                               ELSE levels[h][2 * j - 1]
  BY <1>1, <1>4, NextLevelIs
<1>6. i \in Nat /\ i <= n - 1
  BY <1>1
<1> HIDE DEF n
<1>7. /\ k \in 1..Half(n) /\ i \div 2 \in Nat /\ i \div 2 < Half(n)
      /\ Half(n) \in Nat
      /\ i % 2 = 1 => 2 * k = i + 1 /\ 2 * k - 1 = i
      /\ i % 2 # 1 => 2 * k = i + 2 /\ 2 * k - 1 = i + 1
  BY <1>1, <1>6 DEF Half
<1>8. ASSUME i = n - 1 /\ n % 2 = 1
      PROVE  levels[h + 1][k] = levels[h][i + 1]
  <2>1. 2 * k = i + 2 /\ 2 * k - 1 = i + 1 /\ ~(2 * k <= n)
    BY <1>1, <1>6, <1>7, <1>8
  <2> HIDE DEF k
  <2> QED
    BY <1>5, <1>7, <2>1
<1>9. ASSUME ~(i = n - 1 /\ n % 2 = 1)
      PROVE  levels[h + 1][k] = IF i % 2 = 1
                                THEN NodeHash(levels[h][i], levels[h][i + 1])
                                ELSE NodeHash(levels[h][i + 1], levels[h][i + 2])
  <2>1. 2 * k <= n
    BY <1>1, <1>6, <1>7, <1>9
  <2> HIDE DEF k
  <2> QED
    BY <1>5, <1>7, <2>1
<1> QED
  BY <1>3, <1>5, <1>7, <1>8, <1>9 DEF n

-----------------------------------------------------------------------------
Same == UNCHANGED <<hashes, levels, claim>>

(* None of the walk's actions touches the tree.                            *)
LEMMA TreeKept == ASSUME Inv, Same PROVE LevelsOK' /\ TreeOK' /\ Len(Top)' = Len(Top)
<1>1. hashes' = hashes /\ levels' = levels
  BY DEF Same
<1>2. LevelsOK /\ TreeOK
  BY DEF Inv
<1>3. LevelsOK'
  BY <1>1, <1>2 DEF LevelsOK
<1>4. TreeOK'
  BY <1>1, <1>2 DEF TreeOK, Leaves
<1>5. Len(Top)' = Len(Top)
  BY <1>1 DEF Top
<1> QED
  BY <1>3, <1>4, <1>5

(* What is submitted begins its walk at its leaf, or is refused.           *)
LEMMA StartKeeps == ASSUME Inv, Start PROVE Inv'
<1>1. Same /\ pc = "start" /\ pc' \in {"walk", "legacy"}
      /\ pc' = IF claim.batch_size > 0 THEN "walk" ELSE "legacy"
  BY DEF Start, Same
<1>2. LevelsOK' /\ TreeOK' /\ Len(Top)' = 1
  BY <1>1, TreeKept DEF Inv
<1>3. /\ walk'.current = LeafHash(Claimed) /\ walk'.index = claim.leaf_index
      /\ walk'.size = claim.batch_size
      /\ walk' \in WalkRecord(walk'.current)
      /\ claim.leaf_index \in Nat /\ claim.batch_size \in Nat
      /\ claim.batch_size > 0 => claim.leaf_index < claim.batch_size
  BY DEF Start, InOrder, Claimed, WalkRecord
<1>4. /\ Len(hashes) \in Nat /\ DOMAIN hashes = 1..Len(hashes)
      /\ Len(levels[1]) = Len(hashes) /\ 1 \in 1..Len(levels)
      /\ \A j \in 1..Len(hashes) : levels[1][j] = LeafHash(hashes[j])
  <2>1. /\ Len(hashes) \in Nat /\ DOMAIN hashes = 1..Len(hashes)
        /\ Len(levels) \in Nat /\ Len(levels) > 0
    BY SeqDomain DEF Inv, LevelsOK
  <2>2. levels[1] = [i \in 1..Len(hashes) |-> LeafHash(hashes[i])]
    BY <2>1 DEF Inv, LevelsOK
  <2>3. levels[1] = [i \in 1..Len(hashes) |-> levels[1][i]]
    BY <2>2
  <2>4. Len(levels[1]) = Len(hashes)
    BY <2>1, <2>3, SeqOfLength
  <2> QED
    BY <2>1, <2>2, <2>4
<1>5. pc' = "walk" /\ claim.batch_size = Len(hashes) => AtLevel(1)'
  <2> SUFFICES ASSUME pc' = "walk", claim.batch_size = Len(hashes)
               PROVE  AtLevel(1)'
    OBVIOUS
  <2>1. walk'.size = Len(levels[1]) /\ walk'.index < walk'.size
    BY <1>1, <1>3, <1>4
  <2>2. walk'.index + 1 \in 1..Len(hashes)
    BY <1>3, <1>4, <2>1
  <2>3. LeafHash(Claimed) = LeafHash(hashes[walk'.index + 1])
          => Claimed = hashes[walk'.index + 1]
    BY Injective
  <2> QED
    BY <1>1, <1>3, <1>4, <2>1, <2>2, <2>3 DEF AtLevel, Same, Claimed
<1>6. ASSUME walk'.current \in NodesOf(levels)
      PROVE  \E i \in DOMAIN hashes : hashes[i] = Claimed
  <2>1. walk'.current \in Leaves
    <3>1. \A a, b : walk'.current # NodeHash(a, b)
      BY <1>3, Injective
    <3> QED
      BY <1>6, <3>1 DEF Inv, TreeOK
  <2>2. PICK i \in DOMAIN hashes : LeafHash(Claimed) = LeafHash(hashes[i])
    BY <1>3, <2>1 DEF Leaves
  <2> QED
    BY <2>2, Injective
<1>7. WalkOK'
  BY <1>1, <1>3, <1>4, <1>5, <1>6 DEF WalkOK, Same, NodesOf, Claimed
<1> QED
  BY <1>1, <1>2, <1>7 DEF Inv, AcceptedIsAnchored, AcceptedIsInPlace
(* The walk's record after a step of the path, with and without going up.  *)
LEMMA StepUsed ==
    ASSUME NEW w, NEW c, w \in WalkRecord(w.current),
           NEW v, v = [w EXCEPT !.current = c]
    PROVE  /\ Use(v) \in WalkRecord(c) /\ Use(v).current = c
           /\ Use(Ascend(v)) \in WalkRecord(c) /\ Use(Ascend(v)).current = c
           /\ Use(Ascend(v)).index = w.index \div 2
           /\ Use(Ascend(v)).size = Half(w.size)
<1> DEFINE u == Ascend(v)
<1>1. v \in WalkRecord(c) /\ v.index = w.index /\ v.size = w.size
  BY DEF WalkRecord
<1>2. w.index \div 2 \in Nat /\ Half(w.size) \in Nat
  BY DEF Half, WalkRecord
<1>3. u \in WalkRecord(c) /\ u.index = w.index \div 2 /\ u.size = Half(w.size)
  BY <1>1, <1>2 DEF Ascend, WalkRecord
<1> HIDE DEF u
<1>4. /\ Use(u) \in WalkRecord(c) /\ Use(u).index = u.index
      /\ Use(u).size = u.size
  BY <1>3 DEF Use, WalkRecord
<1>5. Use(v) \in WalkRecord(c)
  <2>1. \A r \in WalkRecord(c) : Use(r) \in WalkRecord(c)
    BY DEF Use, WalkRecord
  <2> QED
    BY <1>1, <2>1
<1>6. \A x \in WalkRecord(c) : x.current = c
  BY DEF WalkRecord
<1> QED
  BY <1>3, <1>4, <1>5, <1>6 DEF u

(* Going up, by a promotion or with a sibling, keeps the walk in its place *)
(* and does not bring it into the tree.                                    *)
LEMMA AscentKeeps ==
    ASSUME Inv, Same, InWalk, pc' = pc,
           walk' \in WalkRecord(walk'.current),
           walk'.index = walk.index \div 2, walk'.size = Half(walk.size),
           \/ Promoted(walk) /\ walk'.current = walk.current
           \/ ~Promoted(walk) /\ walk'.current = Combine(walk, Step)
    PROVE  Inv'
<1>1. /\ LevelsOK' /\ TreeOK' /\ Len(Top)' = 1
      /\ pc = "walk" /\ pc' = "walk" /\ Len(Top) = 1
      /\ levels' = levels /\ claim' = claim /\ hashes' = hashes
  BY TreeKept DEF Inv, Same, InWalk
<1>2. walk.index \in Nat /\ walk.size \in Nat /\ walk.size > 1
  BY DEF Inv, WalkOK, InWalk, WalkRecord
<1>3. ASSUME walk'.current \in NodesOf(levels)
      PROVE  \E i \in DOMAIN hashes : hashes[i] = Claimed
  <2>1. walk.current \in NodesOf(levels)
    BY <1>3, CombinedIsInTree DEF Inv, Combine
  <2> QED
    BY <1>1, <2>1 DEF Inv, WalkOK
<1>4. ASSUME claim.batch_size = Len(hashes)
      PROVE  \E h \in 1..Len(levels) : AtLevel(h)'
  <2>1. PICK h \in 1..Len(levels) : AtLevel(h)
    BY <1>1, <1>4 DEF Inv, WalkOK
  <2>2. walk.size = Len(levels[h]) /\ walk.index < walk.size
    BY <2>1 DEF AtLevel
  <2>3. walk.index \in 0..Len(levels[h]) - 1 /\ Len(levels[h]) > 1
    BY <1>2, <2>2
  <2> DEFINE parent == levels[h + 1][walk'.index + 1]
  <2>4. /\ h + 1 \in 1..Len(levels)
        /\ walk'.size = Len(levels[h + 1]) /\ walk'.index < walk'.size
        /\ Promoted(walk) => parent = levels[h][walk.index + 1]
        /\ ~Promoted(walk) =>
              parent = IF walk.index % 2 = 1
                       THEN NodeHash(levels[h][walk.index], levels[h][walk.index + 1])
                       ELSE NodeHash(levels[h][walk.index + 1],
                                     levels[h][walk.index + 2])
    <3>1. LevelsOK /\ Len(Top) = 1
      BY <1>1 DEF Inv
    <3>2. walk'.index = walk.index \div 2 /\ walk'.size = Half(Len(levels[h]))
      BY <2>2
    <3>. QED  BY <2>2, <2>3, <3>1, <3>2, LevelAbove DEF Promoted
  <2> HIDE DEF parent
  <2>5. ASSUME walk'.current = parent
        PROVE  walk.current = levels[h][walk.index + 1]
    <3>1. CASE Promoted(walk)
      BY <2>4, <2>5, <3>1
    <3>2. CASE ~Promoted(walk) /\ walk.index % 2 = 1
      <4>1. NodeHash(Sibling(Step), walk.current)
              = NodeHash(levels[h][walk.index], levels[h][walk.index + 1])
        BY <2>4, <2>5, <3>2 DEF Combine
      <4> QED
        BY <4>1, SameNode
    <3>3. CASE ~Promoted(walk) /\ walk.index % 2 # 1
      <4>1. NodeHash(walk.current, Sibling(Step))
              = NodeHash(levels[h][walk.index + 1], levels[h][walk.index + 2])
        BY <2>4, <2>5, <3>3 DEF Combine
      <4> QED
        BY <4>1, SameNode
    <3> QED
      BY <3>1, <3>2, <3>3
  <2>6. walk'.current = parent => Claimed = hashes[claim.leaf_index + 1]
    BY <2>1, <2>5 DEF AtLevel
  <2>7. AtLevel(h + 1)'
    BY <1>1, <2>4, <2>6 DEF AtLevel, parent, Claimed
  <2> QED
    BY <2>4, <2>7
<1>5. WalkOK'
  BY <1>1, <1>3, <1>4 DEF WalkOK, Claimed
<1> QED
  BY <1>1, <1>5 DEF Inv, AcceptedIsAnchored, AcceptedIsInPlace

(* A round of the walk with a size leads from a node to its parent, if the *)
(* digest it reaches is a node at all.                                     *)
LEMMA WalkKeeps == ASSUME Inv, Promote \/ Climb PROVE Inv'
<1>1. walk \in WalkRecord(walk.current)
  BY DEF Inv, WalkOK
<1>2. InWalk /\ Same /\ pc' = pc
  BY DEF Promote, Climb, Move, Same
<1>3. walk.index \div 2 \in Nat /\ Half(walk.size) \in Nat
  BY <1>1 DEF Half, WalkRecord
<1>4. CASE Promote
  <2>1. walk' = Ascend(walk) /\ Promoted(walk)
    BY <1>4 DEF Promote, Move
  <2>2. /\ walk' \in WalkRecord(walk'.current)
        /\ walk'.index = walk.index \div 2 /\ walk'.size = Half(walk.size)
        /\ walk'.current = walk.current
    BY <1>1, <1>3, <2>1 DEF Ascend, WalkRecord
  <2> QED
    BY <1>2, <2>1, <2>2, AscentKeeps
<1>5. CASE Climb
  <2> DEFINE c == Combine(walk, Step)
             v == [walk EXCEPT !.current = c]
  <2>1. walk' = Use(Ascend(v)) /\ ~Promoted(walk)
    BY <1>5 DEF Climb, Move
  <2> HIDE DEF c
  <2>2. /\ walk' \in WalkRecord(walk'.current)
        /\ walk'.index = walk.index \div 2 /\ walk'.size = Half(walk.size)
        /\ walk'.current = c
    <3>1. v = [walk EXCEPT !.current = c]
      OBVIOUS
    <3> HIDE DEF v
    <3> QED
      BY <1>1, <2>1, <3>1, StepUsed
  <2> QED
    BY <1>2, <2>1, <2>2, AscentKeeps DEF c
<1> QED
  BY <1>4, <1>5

(* The same for a round without a size, whose sides the submitter chooses. *)
LEMMA LegacyKeeps == ASSUME Inv, LegacyClimb PROVE Inv'
<1> DEFINE c == CombineAsTold(walk.current, Step)
           v == [walk EXCEPT !.current = c]
<1>1. pc = "legacy" /\ pc' = "legacy" /\ Same /\ walk' = Use(v)
  BY DEF LegacyClimb, Move, Same
<1>2. /\ LevelsOK' /\ TreeOK' /\ Len(Top)' = 1
      /\ levels' = levels /\ claim' = claim /\ hashes' = hashes
  BY <1>1, TreeKept DEF Inv, Same
<1>3. /\ walk' \in WalkRecord(walk'.current)
      /\ walk'.current = c
  <2> HIDE DEF c
  <2>1. v = [walk EXCEPT !.current = c] /\ walk \in WalkRecord(walk.current)
    BY DEF Inv, WalkOK
  <2> HIDE DEF v
  <2> QED
    BY <1>1, <2>1, StepUsed
<1>4. ASSUME walk'.current \in NodesOf(levels)
      PROVE  \E i \in DOMAIN hashes : hashes[i] = Claimed
  <2>1. walk.current \in NodesOf(levels)
    BY <1>3, <1>4, CombinedIsInTree DEF Inv, CombineAsTold
  <2> QED
    BY <1>1, <2>1 DEF Inv, WalkOK
<1>5. WalkOK'
  BY <1>1, <1>2, <1>3, <1>4 DEF WalkOK, Claimed, Inv
<1> QED
  BY <1>1, <1>2, <1>5 DEF Inv, AcceptedIsAnchored, AcceptedIsInPlace

(* The comparison with the root at the end of the walk.                    *)
LEMMA DecisionKeeps ==
    ASSUME Inv, RejectArguments \/ RejectStep \/ Finish
                  \/ LegacyRejectStep \/ LegacyFinish
    PROVE  Inv'
<1>1. /\ Same /\ walk' = walk /\ pc # "build"
      /\ pc' \in {"accepted", "rejected"}
      /\ pc' = "accepted" => /\ pc \in {"walk", "legacy"} /\ walk.current = Root
                             /\ pc = "walk" => walk.size <= 1
  BY DEF RejectArguments, RejectStep, Finish, LegacyRejectStep, LegacyFinish,
         Decide, Same, InWalk
<1>2. /\ LevelsOK' /\ TreeOK' /\ Len(Top)' = 1 /\ Len(Top) = 1
      /\ levels' = levels /\ claim' = claim /\ hashes' = hashes
  BY <1>1, TreeKept DEF Inv, Same
<1>3. /\ Len(levels) \in 1..Len(levels) /\ DOMAIN levels = 1..Len(levels)
      /\ Len(levels) \in Nat /\ Len(hashes) \in Nat /\ Len(hashes) > 0
      /\ IsSeq(Top)
  BY SeqDomain DEF Inv, LevelsOK, Top
<1>4. Root \in NodesOf(levels)
  <2>1. 1 \in DOMAIN Top
    BY <1>2, <1>3, SeqDomain
  <2> QED
    BY <1>3, <2>1 DEF NodesOf, Root, Top
<1>5. AcceptedIsAnchored'
  BY <1>1, <1>2, <1>4 DEF AcceptedIsAnchored, Inv, WalkOK, Claimed
<1>6. AcceptedIsInPlace'
  <2> SUFFICES ASSUME pc' = "accepted", claim.batch_size = Len(hashes)
               PROVE  hashes[claim.leaf_index + 1] = Claimed
    BY <1>2 DEF AcceptedIsInPlace, Claimed
  <2>1. pc = "walk"
    BY <1>1, <1>3 DEF Inv, WalkOK
  <2>2. PICK h \in 1..Len(levels) : AtLevel(h)
    BY <2>1 DEF Inv, WalkOK
  <2>3. walk.index = 0 /\ Len(levels[h]) <= 1
    BY <1>1, <2>1, <2>2 DEF AtLevel, Inv, WalkOK, WalkRecord
  <2>4. h = Len(levels)
    <3>1. \A g \in 1..Len(levels) - 1 : Len(levels[g]) > 1
      BY DEF Inv, LevelsOK
    <3>2. IsSeq(levels[h]) /\ Len(levels[h]) \in Nat
      BY SeqDomain DEF Inv, LevelsOK
    <3>3. h \notin 1..Len(levels) - 1
      BY <2>3, <3>1, <3>2
    <3>4. \A n \in Nat : \A g \in 1..n : g = n \/ g \in 1..n - 1
      OBVIOUS
    <3> QED
      BY <1>3, <3>3, <3>4
  <2>5. walk.current = levels[h][walk.index + 1]
    BY <1>1, <2>3, <2>4 DEF Root, Top
  <2> QED
    BY <2>2, <2>5 DEF AtLevel
<1>7. WalkOK'
  BY <1>1 DEF Inv, WalkOK
<1> QED
  BY <1>1, <1>2, <1>5, <1>6, <1>7 DEF Inv

(* Every step keeps the invariant.                                         *)
LEMMA NextInv == Inv /\ [Next]_vars => Inv'
<1> SUFFICES ASSUME Inv, [Next]_vars PROVE Inv'
  OBVIOUS
<1>1. CASE BuildLevel
  <2>1. LevelsOK' /\ TreeOK'
    BY <1>1, BuildKeepsTree DEF Inv
  <2>2. pc' = "build" /\ walk' = walk
    BY <1>1 DEF BuildLevel
  <2>3. WalkOK'
    BY <2>2 DEF Inv, WalkOK
  <2> QED
    BY <2>1, <2>2, <2>3 DEF Inv, AcceptedIsAnchored, AcceptedIsInPlace
<1>2. CASE Submit
  <2>1. /\ pc' = "start" /\ walk' = walk /\ Len(Top) = 1
        /\ hashes' = hashes /\ levels' = levels
    BY <1>2 DEF Submit
  <2>2. LevelsOK' /\ TreeOK' /\ Len(Top)' = 1
    BY <2>1 DEF Inv, LevelsOK, TreeOK, Leaves, Top
  <2>3. WalkOK'
    BY <2>1 DEF Inv, WalkOK
  <2> QED
    BY <2>1, <2>2, <2>3 DEF Inv, AcceptedIsAnchored, AcceptedIsInPlace
<1>3. CASE Verify
  BY <1>3, StartKeeps, WalkKeeps, LegacyKeeps, DecisionKeeps DEF Verify
<1>4. CASE UNCHANGED vars
  <2>1. /\ hashes' = hashes /\ levels' = levels /\ claim' = claim
        /\ walk' = walk /\ pc' = pc
    BY <1>4 DEF vars
  <2>2. LevelsOK' /\ TreeOK' /\ Top' = Top
    BY <2>1 DEF Inv, LevelsOK, TreeOK, Leaves, Top
  <2>3. WalkOK'
    BY <2>1 DEF Inv, WalkOK, AtLevel, Claimed
  <2> QED
    BY <2>1, <2>2, <2>3 DEF Inv, AcceptedIsAnchored, AcceptedIsInPlace
<1> QED
  BY <1>1, <1>2, <1>3, <1>4 DEF Next

(* A proof that merkle.py accepts is about a receipt of the batch, for any *)
(* index, size and path.                                                   *)
THEOREM AcceptedAnchored == Spec => []AcceptedIsAnchored
<1>1. Inv => AcceptedIsAnchored
  BY DEF Inv
<1> QED
  BY InitInv, NextInv, <1>1, PTL DEF Spec

(* With the size of the batch it is about the receipt at the leaf index.   *)
THEOREM AcceptedInPlace == Spec => []AcceptedIsInPlace
<1>1. Inv => AcceptedIsInPlace
  BY DEF Inv
<1> QED
  BY InitInv, NextInv, <1>1, PTL DEF Spec

-----------------------------------------------------------------------------
(* The walk as a function of its rounds takes the steps of the loop.  What *)
(* verify_merkle_proof keeps at a round besides the loop's locals is that  *)
(* no step was refused.                                                    *)
Valid(v) == [current |-> v.current, index |-> v.index, size |-> v.size,
             used |-> v.used, valid |-> TRUE]

Taken(v, step) == Use(Ascend([v EXCEPT !.current = Combine(v, step)]))

LEMMA AscendValid ==
    ASSUME NEW v, v \in WalkRecord(v.current)
    PROVE  Ascend(Valid(v)) = Valid(Ascend(v))
<1> DEFINE u == Ascend(v)
           t == Ascend(Valid(v))
<1>1. u = [current |-> v.current, index |-> v.index \div 2,
           size |-> Half(v.size), used |-> v.used]
  <2>1. u = Ascend(v)
    OBVIOUS
  <2> HIDE DEF u
  <2>. QED  BY <2>1 DEF Ascend, WalkRecord
<1>2. t = [current |-> v.current, index |-> v.index \div 2,
           size |-> Half(v.size), used |-> v.used, valid |-> TRUE]
  <2>1. t = Ascend(Valid(v))
    OBVIOUS
  <2> HIDE DEF t
  <2>. QED  BY <2>1 DEF Ascend, Valid
<1> HIDE DEF u, t
<1>3. t = Valid(u)
  BY <1>1, <1>2 DEF Valid
<1>. QED  BY <1>3 DEF u, t

LEMMA AscendUsed ==
    ASSUME NEW v, v \in WalkRecord(v.current), NEW c
    PROVE  Ascend([Valid(v) EXCEPT !.current = c, !.used = @ + 1])
             = Valid(Use(Ascend([v EXCEPT !.current = c])))
<1> DEFINE x == [v EXCEPT !.current = c]
           u == Ascend(x)
           z == Use(u)
           y == [Valid(v) EXCEPT !.current = c, !.used = @ + 1]
           t == Ascend(y)
<1>1. x = [v EXCEPT !.current = c] /\ u = Ascend(x) /\ z = Use(u)
      /\ y = [Valid(v) EXCEPT !.current = c, !.used = @ + 1] /\ t = Ascend(y)
  OBVIOUS
<1> HIDE DEF x, u, z, y, t
<1>2. x = [current |-> c, index |-> v.index, size |-> v.size, used |-> v.used]
  BY <1>1 DEF WalkRecord
<1>3. u = [current |-> c, index |-> v.index \div 2, size |-> Half(v.size),
           used |-> v.used]
  BY <1>1, <1>2 DEF Ascend
<1>4. z = [current |-> c, index |-> v.index \div 2, size |-> Half(v.size),
           used |-> v.used + 1]
  BY <1>1, <1>3 DEF Use
<1> DEFINE o == v.used + 1
<1>5. y = [current |-> c, index |-> v.index, size |-> v.size,
           used |-> o, valid |-> TRUE]
  BY <1>1 DEF Valid
<1> HIDE DEF o
<1>6. t = [current |-> c, index |-> v.index \div 2, size |-> Half(v.size),
           used |-> o, valid |-> TRUE]
  <2>1. t = Ascend([current |-> c, index |-> v.index, size |-> v.size,
                    used |-> o, valid |-> TRUE])
    BY <1>1, <1>5
  <2>. QED  BY <2>1 DEF Ascend
<1> USE DEF o
<1>7. t = Valid(z)
  BY <1>4, <1>6 DEF Valid
<1>. QED  BY <1>7 DEF x, u, z, y, t

RoundIs(path, n, w, k, v) ==
    LET step  == path[v.used + 1]
        taken == v.used < Len(path) /\ ValidStep(step, v.index)
    IN  /\ k + 1 \in 0..n /\ Half(v.size) <= n - (k + 1)
        /\ Promoted(v) => w[k + 1] = Valid(Ascend(v))
        /\ ~Promoted(v) /\ taken => w[k + 1] = Valid(Taken(v, step))
        /\ ~Promoted(v) /\ ~taken => ~w[k + 1].valid

LEMMA RoundFollows ==
    ASSUME NEW start, NEW path, NEW n \in Nat, NEW w, Walk(start, path, n, w),
           NEW k \in 0..n, NEW v, v \in WalkRecord(v.current),
           w[k] = Valid(v), v.size > 1, v.size <= n - k
    PROVE  RoundIs(path, n, w, k, v)
<1> DEFINE step  == path[v.used + 1]
           taken == v.used < Len(path) /\ ValidStep(step, v.index)
           u     == Valid(v)
<1>1. /\ v = [current |-> v.current, index |-> v.index, size |-> v.size,
              used |-> v.used]
      /\ v.index \in Nat /\ v.size \in Nat /\ v.used \in Nat
  BY DEF WalkRecord
<1>2. k + 1 \in 0..n /\ Half(v.size) <= n - (k + 1)
  <2> DEFINE m == v.size
  <2>1. m \in Nat /\ m > 1 /\ m <= n - k
    BY <1>1
  <2> HIDE DEF m
  <2>2. k + 1 \in 0..n
    BY <2>1
  <2>3. Half(m) <= m - 1
    BY <2>1 DEF Half
  <2>4. Half(m) \in Int
    BY <2>1 DEF Half
  <2>. QED  BY <2>1, <2>2, <2>3, <2>4 DEF m
<1>3. w[k + 1] = WalkStep(u, path)
  <2>1. k + 1 # 0 /\ (k + 1) - 1 = k
    OBVIOUS
  <2> HIDE DEF u
  <2>2. w[k + 1] = WalkStep(w[k], path)
    BY <1>2, <2>1 DEF Walk
  <2>. QED  BY <2>2 DEF u
<1>4. /\ u.current = v.current /\ u.index = v.index /\ u.size = v.size
      /\ u.used = v.used /\ u.valid = TRUE
      /\ Promoted(u) <=> Promoted(v)
      /\ Combine(u, step) = Combine(v, step)
  BY DEF Valid, Promoted, Combine
<1>5. ~(u.size <= 1 \/ ~u.valid)
  BY <1>1, <1>4
<1>6. ASSUME Promoted(v)
      PROVE  w[k + 1] = Valid(Ascend(v))
  <2>1. w[k + 1] = Ascend(u)
    <3> HIDE DEF u
    <3>. QED  BY <1>3, <1>4, <1>5, <1>6 DEF WalkStep
  <2>. QED  BY <1>1, <2>1, AscendValid
<1>7. ASSUME ~Promoted(v), taken
      PROVE  w[k + 1] = Valid(Taken(v, step))
  <2> DEFINE c == Combine(v, step)
  <2>1. w[k + 1] = Ascend([u EXCEPT !.current = c, !.used = @ + 1])
    <3>1. u.used < Len(path) /\ ValidStep(path[u.used + 1], u.index)
      <4> HIDE DEF u, step
      <4>. QED  BY <1>4, <1>7 DEF step
    <3>2. Combine(u, path[u.used + 1]) = c
      <4>1. path[u.used + 1] = step
        <5> HIDE DEF u
        <5>. QED  BY <1>4
      <4> HIDE DEF u, step
      <4>. QED  BY <1>4, <4>1
    <3>3. [u EXCEPT !.current = Combine(u, path[u.used + 1]), !.used = @ + 1]
            = [u EXCEPT !.current = c, !.used = @ + 1]
      <4> HIDE DEF u, c
      <4>. QED  BY <3>2
    <3> HIDE DEF u, c, step
    <3>. QED  BY <1>3, <1>4, <1>5, <1>7, <3>1, <3>3 DEF WalkStep
  <2> HIDE DEF c
  <2>2. w[k + 1] = Valid(Use(Ascend([v EXCEPT !.current = c])))
    BY <1>1, <2>1, AscendUsed
  <2>. QED  BY <2>2 DEF c, Taken
<1>8. ASSUME ~Promoted(v), ~taken
      PROVE  ~w[k + 1].valid
  <2>1. ~(u.used < Len(path) /\ ValidStep(path[u.used + 1], u.index))
    BY <1>4, <1>8
  <2>2. w[k + 1] = [u EXCEPT !.valid = FALSE]
    <3> HIDE DEF u
    <3>. QED  BY <1>3, <1>4, <1>5, <1>8, <2>1 DEF WalkStep
  <2>. QED  BY <2>2 DEF Valid
<1>. QED  BY <1>2, <1>6, <1>7, <1>8 DEF RoundIs

-----------------------------------------------------------------------------
(* What makes the functions agree with the loops: there is a level for     *)
(* every node that the top one has too many, and the walk has come as far  *)
(* as one of the function's rounds, with enough of them left.              *)
InRound ==
    \A w : Walk(StartAt(Claimed, claim.leaf_index, claim.batch_size), Path,
                claim.batch_size, w) =>
              \E k \in 0..claim.batch_size :
                 /\ w[k] = Valid(walk)
                 /\ walk.size <= 1 \/ walk.size <= claim.batch_size - k

Proven == verify_merkle_proof(claim.receipt_hash, claim.leaf_index, Path, Root,
                              claim.batch_size)

AgreeInv ==
    /\ Inv
    /\ Len(levels) + Len(Top) <= Len(hashes) + 1
    /\ pc = "walk" => InOrder /\ claim.batch_size > 0 /\ InRound
    /\ Decided /\ claim.batch_size \in Nat \ {0} /\ IsList(claim.merkle_path) =>
          (Proven <=> pc = "accepted")

(* Every new level is shorter than the one below it.                       *)
LEMMA AgreeBuild == ASSUME AgreeInv, BuildLevel PROVE AgreeInv'
<1>1. Inv'
  BY NextInv DEF AgreeInv, Next
<1>2. /\ levels' = Append(levels, NextLevel(Top)) /\ Len(Top) > 1
      /\ hashes' = hashes /\ pc' = "build"
  BY DEF BuildLevel
<1>3. IsSeq(levels) /\ Len(levels) \in Nat \ {0} /\ Len(hashes) \in Nat
  BY SeqDomain DEF AgreeInv, Inv, LevelsOK
<1>4. IsSeq(Top) /\ Len(Top) \in Nat
  <2>1. Len(levels) \in 1..Len(levels)
    BY <1>3
  <2>. QED  BY <2>1, SeqDomain DEF AgreeInv, Inv, LevelsOK, Top
<1>5. Len(levels') = Len(levels) + 1 /\ Top' = NextLevel(Top)
  <2>1. /\ Len(levels') = Len(levels) + 1
        /\ levels'[Len(levels) + 1] = NextLevel(Top)
    BY <1>2, <1>3, Appended
  <2>. QED  BY <2>1 DEF Top
<1>6. Len(NextLevel(Top)) = Half(Len(Top))
  BY <1>2, <1>4, NextLevelIs
<1>7. Len(levels') + Len(Top') <= Len(hashes) + 1
  <2>1. Half(Len(Top)) <= Len(Top) - 1 /\ Half(Len(Top)) \in Int
    BY <1>2, <1>4 DEF Half
  <2>2. Len(levels) + Len(Top) <= Len(hashes) + 1
    BY DEF AgreeInv
  <2>. QED  BY <1>3, <1>4, <1>5, <1>6, <2>1, <2>2
<1>. QED  BY <1>1, <1>2, <1>7 DEF AgreeInv, Decided

(* The first round of the function is the start of the loop.               *)
LEMMA AgreeStart == ASSUME AgreeInv, Start PROVE AgreeInv'
<1>1. Inv'
  BY NextInv DEF AgreeInv, Next, Verify
<1>2. /\ InOrder /\ UNCHANGED <<hashes, levels, claim>>
      /\ pc' = IF claim.batch_size > 0 THEN "walk" ELSE "legacy"
      /\ Valid(walk') = StartAt(Claimed, claim.leaf_index, claim.batch_size)
      /\ walk'.size = claim.batch_size
  BY DEF Start, Valid, StartAt, Claimed
<1>3. claim.batch_size \in Nat /\ 0 \in 0..claim.batch_size
      /\ claim.batch_size <= claim.batch_size - 0
  BY <1>2 DEF InOrder
<1>4. InRound'
  <2>. SUFFICES ASSUME NEW w,
                       Walk(StartAt(Claimed, claim.leaf_index, claim.batch_size),
                            Path, claim.batch_size, w)
                PROVE  \E k \in 0..claim.batch_size :
                          /\ w[k] = Valid(walk')
                          /\ walk'.size <= 1 \/ walk'.size <= claim.batch_size - k
    BY <1>2 DEF InRound, Claimed, Path
  <2>1. w[0] = Valid(walk')
    BY <1>2, <1>3 DEF Walk
  <2>. QED  BY <1>2, <1>3, <2>1
<1>. QED  BY <1>1, <1>2, <1>4 DEF AgreeInv, Decided, InOrder, Top

LEMMA ProvenIs ==
    ASSUME claim.batch_size \in Nat
    PROVE  \E w : /\ Walk(StartAt(Claimed, claim.leaf_index, claim.batch_size),
                          Path, claim.batch_size, w)
                  /\ Proven <=> /\ IsHex(claim.receipt_hash)
                                /\ claim.leaf_index \in 0..claim.batch_size - 1
                                /\ w[claim.batch_size].valid
                                /\ w[claim.batch_size].used = Len(Path)
                                /\ w[claim.batch_size].current = Root
<1>1. PICK w : /\ Walk(StartAt(Claimed, claim.leaf_index, claim.batch_size),
                       Path, claim.batch_size, w)
               /\ VerifiedBy(claim.receipt_hash, claim.leaf_index, Path, Root,
                             claim.batch_size, w)
  BY VerifyIsWalk DEF Claimed
<1>. QED  BY <1>1 DEF VerifiedBy, Proven

(* Where the loop and the function are before a round.                     *)
LEMMA BeforeRound ==
    ASSUME AgreeInv, pc = "walk"
    PROVE  /\ claim.batch_size \in Nat \ {0} /\ walk \in WalkRecord(walk.current)
           /\ walk.size \in Nat /\ IsHex(claim.receipt_hash)
           /\ claim.leaf_index \in 0..claim.batch_size - 1
  BY DEF AgreeInv, Inv, InOrder, WalkOK, WalkRecord

(* A round of the loop is a round of the function.                         *)
LEMMA AgreeRound == ASSUME AgreeInv, Promote \/ Climb PROVE AgreeInv'
<1>1. Inv'
  BY NextInv DEF AgreeInv, Next, Verify
<1>2. /\ UNCHANGED <<hashes, levels, claim, pc>> /\ pc = "walk" /\ walk.size > 1
  BY DEF Promote, Climb, InWalk, Move
<1>3. /\ claim.batch_size \in Nat \ {0} /\ walk \in WalkRecord(walk.current)
      /\ walk.size \in Nat
  BY <1>2, BeforeRound
<1>4. walk'.size = Half(walk.size)
  <2>1. CASE Promote
    <3>1. walk' = Ascend(walk)
      BY <2>1 DEF Promote, Move
    <3>. QED  BY <1>3, <3>1 DEF Ascend, WalkRecord
  <2>2. CASE Climb
    <3> DEFINE c == Combine(walk, Step)
               v == [walk EXCEPT !.current = c]
    <3>1. walk' = Use(Ascend(v))
      BY <2>2 DEF Climb, Move
    <3>2. v = [walk EXCEPT !.current = c]
      OBVIOUS
    <3> HIDE DEF v, c
    <3>. QED  BY <1>3, <3>1, <3>2, StepUsed
  <2>. QED  BY <2>1, <2>2
<1>5. InRound'
  <2>. SUFFICES ASSUME NEW w,
                       Walk(StartAt(Claimed, claim.leaf_index, claim.batch_size),
                            Path, claim.batch_size, w)
                PROVE  \E k \in 0..claim.batch_size :
                          /\ w[k] = Valid(walk')
                          /\ walk'.size <= 1 \/ walk'.size <= claim.batch_size - k
    BY <1>2 DEF InRound, Claimed, Path
  <2>1. PICK k \in 0..claim.batch_size :
                /\ w[k] = Valid(walk)
                /\ walk.size <= 1 \/ walk.size <= claim.batch_size - k
    BY <1>2 DEF AgreeInv, InRound
  <2>2. walk.size <= claim.batch_size - k
    BY <1>2, <1>3, <2>1
  <2>3. RoundIs(Path, claim.batch_size, w, k, walk)
    <3>1. claim.batch_size \in Nat
      BY <1>3
    <3>. QED  BY <1>2, <1>3, <2>1, <2>2, <3>1, RoundFollows
  <2>4. w[k + 1] = Valid(walk')
    <3>1. CASE Promote
      BY <2>3, <3>1 DEF RoundIs, Promote, Move
    <3>2. CASE Climb
      BY <2>3, <3>2 DEF RoundIs, Climb, Move, HasStep, Step, Taken
    <3>. QED  BY <3>1, <3>2
  <2>. QED  BY <1>4, <2>3, <2>4 DEF RoundIs
<1>. QED  BY <1>1, <1>2, <1>5 DEF AgreeInv, Decided, InOrder, Top

(* The loop decides as the function does.                                  *)
LEMMA AgreeDecide ==
    ASSUME AgreeInv, RejectStep \/ Finish
    PROVE  pc' = "accepted" <=> Proven
<1>1. pc = "walk"
  BY DEF RejectStep, Finish, InWalk
<1>2. /\ claim.batch_size \in Nat \ {0} /\ walk \in WalkRecord(walk.current)
      /\ walk.size \in Nat /\ IsHex(claim.receipt_hash)
      /\ claim.leaf_index \in 0..claim.batch_size - 1
  BY <1>1, BeforeRound
<1> DEFINE n == claim.batch_size
<1>3. PICK w : /\ Walk(StartAt(Claimed, claim.leaf_index, n), Path, n, w)
               /\ Proven <=> /\ IsHex(claim.receipt_hash)
                             /\ claim.leaf_index \in 0..n - 1
                             /\ w[n].valid /\ w[n].used = Len(Path)
                             /\ w[n].current = Root
  <2>1. n \in Nat
    BY <1>2
  <2>. QED  BY <2>1, ProvenIs
<1>4. PICK k \in 0..n : /\ w[k] = Valid(walk)
                        /\ walk.size <= 1 \/ walk.size <= n - k
  BY <1>1, <1>3 DEF AgreeInv, InRound
<1>7. Walk(StartAt(Claimed, claim.leaf_index, n), Path, n, w) /\ n \in Nat
  BY <1>2, <1>3
<1>5. CASE RejectStep
  <2>1. /\ pc' = "rejected" /\ walk.size > 1 /\ ~Promoted(walk)
        /\ ~(walk.used < Len(Path) /\ ValidStep(Path[walk.used + 1], walk.index))
    BY <1>5 DEF RejectStep, Decide, InWalk, HasStep, Step
  <2>2. walk.size <= n - k
    BY <1>2, <1>4, <2>1
  <2>3. k + 1 \in 0..n /\ ~w[k + 1].valid
    <3>1. RoundIs(Path, n, w, k, walk)
      BY <1>2, <1>4, <1>7, <2>1, <2>2, RoundFollows
    <3>. QED  BY <2>1, <3>1 DEF RoundIs
  <2>4. w[n] = w[k + 1]
    BY <1>7, <2>3, WalkStays
  <2>. QED  BY <1>3, <2>1, <2>3, <2>4
<1>6. CASE Finish
  <2>1. /\ walk.size <= 1
        /\ pc' = "accepted" <=> walk.used = Len(Path) /\ walk.current = Root
    BY <1>6 DEF Finish, Decide
  <2>2. /\ w[k].size <= 1 /\ w[k].valid /\ w[k].used = walk.used
        /\ w[k].current = walk.current
    BY <1>4, <2>1 DEF Valid
  <2>3. w[n] = w[k]
    BY <1>7, <2>2, WalkStays
  <2>. QED  BY <1>2, <1>3, <2>1, <2>2, <2>3
<1>. QED  BY <1>5, <1>6

(* Every step keeps what makes the functions agree.                        *)
LEMMA AgreeNext == AgreeInv /\ [Next]_vars => AgreeInv'
<1> SUFFICES ASSUME AgreeInv, [Next]_vars PROVE AgreeInv'
  OBVIOUS
<1>1. Inv'
  BY NextInv DEF AgreeInv
<1>2. CASE Submit
  BY <1>1, <1>2 DEF Submit, AgreeInv, Decided, Top
<1>3. ASSUME Decide(pc' = "accepted"), pc # "walk" \/ RejectStep \/ Finish,
             claim.batch_size \in Nat \ {0} /\ IsList(claim.merkle_path) =>
                (Proven <=> pc' = "accepted")
      PROVE  AgreeInv'
  <2>1. UNCHANGED <<hashes, levels, claim, walk>> /\ pc' \in {"accepted", "rejected"}
    BY <1>3 DEF Decide
  <2>2. Proven' = Proven
    BY <2>1 DEF Proven, Path, Root, Top
  <2>. QED  BY <1>1, <1>3, <2>1, <2>2 DEF AgreeInv, Top
<1>4. CASE RejectArguments
  <2>1. pc = "start" /\ ~InOrder /\ Decide(FALSE) /\ pc' = "rejected"
    BY <1>4 DEF RejectArguments, Decide
  <2>2. Decide(pc' = "accepted")
    BY <2>1 DEF Decide
  <2>3. ASSUME claim.batch_size \in Nat \ {0}, IsList(claim.merkle_path)
        PROVE  ~Proven
    <3>1. ~(IsHex(claim.receipt_hash) /\ claim.leaf_index \in 0..claim.batch_size - 1)
      BY <2>1, <2>3 DEF InOrder
    <3>. QED  BY <3>1 DEF Proven, verify_merkle_proof
  <2>. QED  BY <1>3, <2>1, <2>2, <2>3
<1>5. CASE RejectStep \/ Finish
  <2>1. Decide(pc' = "accepted")
    BY <1>5 DEF RejectStep, Finish, Decide
  <2>. QED  BY <1>3, <1>5, <2>1, AgreeDecide
<1>6. CASE LegacyRejectStep \/ LegacyFinish
  <2>1. pc = "legacy" /\ Decide(pc' = "accepted")
    BY <1>6 DEF LegacyRejectStep, LegacyFinish, Decide
  <2>2. claim.batch_size = 0
    BY <2>1 DEF AgreeInv, Inv, WalkOK
  <2>. QED  BY <1>3, <2>1, <2>2
<1>7. CASE LegacyClimb
  BY <1>1, <1>7 DEF LegacyClimb, Move, AgreeInv, Decided, Top
<1>8. CASE UNCHANGED vars
  <2>1. UNCHANGED <<hashes, levels, claim, walk, pc>>
    BY <1>8 DEF vars
  <2>2. Proven' = Proven /\ InRound' = InRound /\ InOrder' = InOrder
    BY <2>1 DEF Proven, InRound, InOrder, Path, Root, Top, Claimed
  <2>. QED  BY <1>1, <2>1, <2>2 DEF AgreeInv, Decided, Top
<1>. QED
  BY <1>2, <1>4, <1>5, <1>6, <1>7, <1>8, AgreeBuild, AgreeStart, AgreeRound
     DEF Next, Verify

LEMMA AgreeInit == Init => AgreeInv
<1> SUFFICES ASSUME Init PROVE AgreeInv
  OBVIOUS
<1>1. Inv
  BY InitInv
<1>2. pc = "build"
  BY DEF Init
<1>3. Len(levels) = 1 /\ Len(Top) = Len(hashes) /\ Len(hashes) \in Nat
  <2>1. levels = <<levels[1]>> /\ levels[1] = [i \in DOMAIN hashes |-> LeafHash(hashes[i])]
    BY DEF Init
  <2>2. Len(hashes) \in Nat /\ DOMAIN hashes = 1..Len(hashes)
    BY <1>1, SeqDomain DEF Inv, LevelsOK
  <2> DEFINE leaves == levels[1]
  <2>3. leaves = [i \in 1..Len(hashes) |-> leaves[i]]
    BY <2>1, <2>2
  <2>4. Len(levels) = 1 /\ Top = leaves
    BY <2>1 DEF Top
  <2> HIDE DEF leaves
  <2>. QED  BY <2>2, <2>3, <2>4, SeqOfLength
<1>. QED  BY <1>1, <1>2, <1>3 DEF AgreeInv, Decided

(* Once the loop of compute_batch_root has ended its levels are all there  *)
(* are.                                                                    *)
LEMMA LevelsBuilt ==
    ASSUME AgreeInv, Len(Top) = 1
    PROVE  LevelSeq(hashes, levels)
<1>1. Len(levels) \in Nat /\ Len(hashes) \in Nat /\ LevelsOK
  BY SeqDomain DEF AgreeInv, Inv, LevelsOK
<1>2. Len(levels) <= Len(hashes)
  BY <1>1 DEF AgreeInv
<1>. QED  BY <1>1, <1>2 DEF LevelSeq, LevelsOK, Top

(* Layer 2 calls the two functions: what they are said to compute is what  *)
(* merkle.py's loops compute, for batches, indices and paths of any size.  *)
THEOREM FunctionsCompute == Spec => []FunctionsAgree
<1>1. AgreeInv => FunctionsAgree
  <2>. SUFFICES ASSUME AgreeInv, Decided, claim.batch_size \in Nat \ {0},
                       IsList(claim.merkle_path)
                PROVE  /\ Root = compute_batch_root(hashes)
                       /\ Proven <=> pc = "accepted"
    BY DEF FunctionsAgree, Proven
  <2>1. Len(Top) = 1
    BY DEF AgreeInv, Inv, Decided
  <2>2. compute_batch_root(hashes) = Root
    BY <2>1, LevelsBuilt, LastIsRoot DEF Root, Top
  <2>. QED  BY <2>2 DEF AgreeInv
<1>. QED  BY AgreeInit, AgreeNext, <1>1, PTL DEF Spec

-----------------------------------------------------------------------------
(* Without a size the walk follows the steps an honest operator made.  It  *)
(* does not stop at a promoted node: where it is with a number of used     *)
(* steps is the last level that has them.                                  *)
SameAs(lvls, at, g, h) ==
    /\ Len(at[g].path) = Len(at[h].path)
    /\ Ancestor(lvls, at, g) = Ancestor(lvls, at, h)

Settles(lvls, at, h) ==
    \E g \in 1..Len(lvls) : /\ SameAs(lvls, at, g, h)
                            /\ g = Len(lvls) \/ ~IsPromoted(lvls, at, g)

LEMMA AllSettle ==
    ASSUME NEW s, NEW lvls, LevelSeq(s, lvls), NEW x, NEW at, Ascent(lvls, x, at)
    PROVE  \A h \in 1..Len(lvls) : Settles(lvls, at, h)
<1> DEFINE m == Len(lvls)
           S == {k \in 0..m - 1 : Settles(lvls, at, m - k)}
<1>1. m - 1 \in Nat
  BY LevelSeqFacts
<1>2. 0 \in S
  <2>1. m \in 1..m /\ m - 0 = m /\ 0 \in 0..m - 1
    BY <1>1
  <2>2. Settles(lvls, at, m)
    BY <2>1 DEF Settles, SameAs
  <2>. QED  BY <2>1, <2>2
<1>3. ASSUME NEW k \in 1..m - 1, k - 1 \in S
      PROVE  k \in S
  <2> DEFINE h == m - k
  <2>1. h \in 1..m - 1 /\ h \in 1..m /\ m - (k - 1) = h + 1 /\ k \in 0..m - 1
    BY <1>1
  <2> HIDE DEF h
  <2>2. Settles(lvls, at, h + 1)
    BY <1>3, <2>1
  <2>3. CASE IsPromoted(lvls, at, h)
    <3>1. SameAs(lvls, at, h + 1, h)
      BY <2>1, <2>3, HonestRound DEF SameAs
    <3>2. Settles(lvls, at, h)
      BY <2>2, <3>1 DEF Settles, SameAs
    <3>. QED  BY <2>1, <3>2 DEF h
  <2>4. CASE ~IsPromoted(lvls, at, h)
    <3>1. Settles(lvls, at, h)
      BY <2>1, <2>4 DEF Settles, SameAs
    <3>. QED  BY <2>1, <3>1 DEF h
  <2>. QED  BY <2>3, <2>4
<1>4. \A k \in 0..m - 1 : k \in S
  <2> HIDE DEF S
  <2>. QED  BY <1>1, <1>2, <1>3, UpTo
<1>5. ASSUME NEW h \in 1..m PROVE Settles(lvls, at, h)
  <2>1. m - h \in 0..m - 1 /\ m - (m - h) = h
    BY <1>1
  <2>2. m - h \in S
    BY <1>4, <2>1
  <2>. QED  BY <2>1, <2>2
<1>. QED  BY <1>5

Along(at, h) ==
    /\ walk.used = Len(at[h].path)
    /\ walk.current = Ancestor(levels, at, h)

LegacyInv ==
    pc = "legacy" /\ Honest =>
        \E at : /\ Ascent(levels, claim.leaf_index, at)
                /\ \E h \in 1..Len(levels) : Along(at, h)

HonestInv == AgreeInv /\ LegacyInv /\ HonestIsAccepted

(* What an honest claim says.                                              *)
LEMMA HonestIs ==
    ASSUME HonestInv, Honest, Len(Top) = 1
    PROVE  /\ LevelSeq(hashes, levels) /\ claim.leaf_index \in 0..Len(hashes) - 1
           /\ Path = HonestPath(levels, claim.leaf_index)
           /\ Claimed = hashes[claim.leaf_index + 1] /\ InOrder
           /\ Len(levels) \in Nat \ {0} /\ Len(hashes) \in Nat \ {0}
           /\ claim.batch_size \in {0, Len(hashes)}
<1>1. LevelSeq(hashes, levels)
  BY LevelsBuilt DEF HonestInv
<1>2. Len(levels) \in Nat \ {0} /\ Len(hashes) \in Nat \ {0}
  BY <1>1, LevelSeqFacts
<1>3. /\ claim.leaf_index \in 0..Len(hashes) - 1
      /\ claim.batch_size \in {0, Len(hashes)}
      /\ IsHex(claim.receipt_hash)
      /\ StripPrefix(claim.receipt_hash) = hashes[claim.leaf_index + 1]
      /\ claim.merkle_path = List(HonestPath(levels, claim.leaf_index))
  BY DEF Honest
<1>4. Path = HonestPath(levels, claim.leaf_index) /\ IsList(claim.merkle_path)
  BY <1>3 DEF Path, Items, List, IsList
<1>5. InOrder
  <2>1. claim.leaf_index \in Nat /\ claim.batch_size \in Nat
    BY <1>2, <1>3
  <2>2. claim.batch_size > 0 => claim.leaf_index < claim.batch_size
    BY <1>2, <1>3
  <2>. QED  BY <1>3, <1>4, <2>1, <2>2 DEF InOrder
<1>. QED  BY <1>1, <1>2, <1>3, <1>4, <1>5 DEF Claimed

(* The walk without a size begins at the leaf.                             *)
LEMMA HonestStart ==
    ASSUME HonestInv, Start, Honest, pc' = "legacy"
    PROVE  LegacyInv'
<1>1. /\ UNCHANGED <<hashes, levels, claim>> /\ Len(Top) = 1
      /\ walk'.used = 0 /\ walk'.current = LeafHash(Claimed)
  BY DEF Start, Claimed, HonestInv, AgreeInv, Inv
<1>2. /\ LevelSeq(hashes, levels) /\ claim.leaf_index \in 0..Len(hashes) - 1
      /\ Claimed = hashes[claim.leaf_index + 1]
      /\ Len(levels) \in Nat \ {0} /\ Len(hashes) \in Nat \ {0}
  BY <1>1, HonestIs
<1>3. PICK at : Ascent(levels, claim.leaf_index, at)
  BY <1>2, PathAscends
<1>4. at[1].index = claim.leaf_index /\ at[1].path = <<>>
  BY <1>3 DEF Ascent
<1>5. claim.leaf_index + 1 \in 1..Len(hashes) /\ 1 \in 1..Len(levels)
  BY <1>2
<1>6. Ancestor(levels, at, 1) = LeafHash(Claimed)
  BY <1>2, <1>4, <1>5, LevelSeqFacts DEF Ancestor
<1>7. Along(at, 1)'
  BY <1>1, <1>4, <1>6 DEF Along
<1>. QED  BY <1>1, <1>3, <1>5, <1>7 DEF LegacyInv

(* Where it can go on from.                                                *)
LEMMA HonestSettled ==
    ASSUME HonestInv, Honest, pc = "legacy"
    PROVE  \E at : \E g \in 1..Len(levels) :
              /\ Ascent(levels, claim.leaf_index, at) /\ Along(at, g)
              /\ Path = HonestPath(levels, claim.leaf_index)
              /\ LevelSeq(hashes, levels)
              /\ \/ g = Len(levels) /\ walk.used = Len(Path) /\ walk.current = Root
                 \/ /\ g \in 1..Len(levels) - 1 /\ ~IsPromoted(levels, at, g)
                    /\ TakesStep(levels, Path, at, g)
<1>1. Len(Top) = 1
  BY DEF HonestInv, AgreeInv, Inv
<1>2. /\ LevelSeq(hashes, levels) /\ Path = HonestPath(levels, claim.leaf_index)
      /\ Len(levels) \in Nat \ {0}
  BY <1>1, HonestIs
<1>3. PICK at : /\ Ascent(levels, claim.leaf_index, at)
                /\ \E h \in 1..Len(levels) : Along(at, h)
  BY DEF HonestInv, LegacyInv
<1>4. PICK h \in 1..Len(levels) : Along(at, h)
  BY <1>3
<1>5. PICK g \in 1..Len(levels) : /\ SameAs(levels, at, g, h)
                                  /\ g = Len(levels) \/ ~IsPromoted(levels, at, g)
  BY <1>2, <1>3, AllSettle DEF Settles
<1>6. Along(at, g)
  BY <1>4, <1>5 DEF Along, SameAs
<1>7. CASE g = Len(levels)
  <2>1. at[g].path = Path /\ Ascended(levels, Path, at, g)
    BY <1>2, <1>3, <1>7 DEF Ascent
  <2>2. at[g].index = 0
    <3>1. at[g].index \in Nat /\ at[g].index + 1 \in 1..1
      BY <1>1, <1>7, <2>1 DEF Ascended, Top
    <3>. QED  BY <3>1
  <2>3. walk.used = Len(Path) /\ walk.current = Root
    BY <1>6, <1>7, <2>1, <2>2 DEF Along, Ancestor, Root, Top
  <2>. QED  BY <1>2, <1>3, <1>6, <1>7, <2>3
<1>8. CASE g # Len(levels)
  <2>1. g \in 1..Len(levels) - 1
    BY <1>2, <1>8
  <2>2. TakesStep(levels, Path, at, g)
    BY <1>2, <1>3, <1>5, <1>8, <2>1, HonestRound
  <2>. QED  BY <1>2, <1>3, <1>5, <1>6, <1>8, <2>1, <2>2
<1>. QED  BY <1>7, <1>8

LEMMA HonestLegacy ==
    ASSUME HonestInv, Honest, LegacyClimb \/ LegacyRejectStep \/ LegacyFinish
    PROVE  /\ LegacyClimb => LegacyInv'
           /\ ~LegacyRejectStep
           /\ LegacyFinish => pc' = "accepted"
<1>1. pc = "legacy"
  BY DEF LegacyClimb, LegacyRejectStep, LegacyFinish
<1>2. PICK at : \E g \in 1..Len(levels) :
              /\ Ascent(levels, claim.leaf_index, at) /\ Along(at, g)
              /\ Path = HonestPath(levels, claim.leaf_index)
              /\ LevelSeq(hashes, levels)
              /\ \/ g = Len(levels) /\ walk.used = Len(Path) /\ walk.current = Root
                 \/ /\ g \in 1..Len(levels) - 1 /\ ~IsPromoted(levels, at, g)
                    /\ TakesStep(levels, Path, at, g)
  BY <1>1, HonestSettled
<1>3. PICK g \in 1..Len(levels) :
              /\ Ascent(levels, claim.leaf_index, at) /\ Along(at, g)
              /\ LevelSeq(hashes, levels)
              /\ \/ g = Len(levels) /\ walk.used = Len(Path) /\ walk.current = Root
                 \/ /\ g \in 1..Len(levels) - 1 /\ ~IsPromoted(levels, at, g)
                    /\ TakesStep(levels, Path, at, g)
  BY <1>2
<1>4. Len(Path) \in Nat
  <2>1. IsSeq(Path)
    BY <1>2 DEF Ascent
  <2>. QED  BY <2>1, SeqDomain
<1>5. CASE g = Len(levels) /\ walk.used = Len(Path) /\ walk.current = Root
  <2>1. ~HasStep
    BY <1>4, <1>5 DEF HasStep
  <2>. QED  BY <1>5, <2>1 DEF LegacyClimb, LegacyRejectStep, LegacyFinish, Decide
<1>6. CASE g \in 1..Len(levels) - 1 /\ TakesStep(levels, Path, at, g)
  <2>1. walk.used = Len(at[g].path) /\ walk.current = Ancestor(levels, at, g)
    BY <1>3 DEF Along
  <2>2. /\ walk.used < Len(Path) /\ LegacyStep(Step)
        /\ Len(at[g + 1].path) = walk.used + 1
        /\ Ancestor(levels, at, g + 1) = CombineAsTold(walk.current, Step)
    BY <1>6, <2>1 DEF TakesStep, Step
  <2>3. HasStep
    BY <2>2 DEF HasStep
  <2>4. ~LegacyRejectStep /\ ~LegacyFinish
    BY <2>2, <2>3 DEF LegacyRejectStep, LegacyFinish
  <2>5. ASSUME LegacyClimb PROVE LegacyInv'
    <3> DEFINE c == CombineAsTold(walk.current, Step)
               v == [walk EXCEPT !.current = c]
               o == walk.used + 1
               u == Use(v)
    <3>1. walk' = u /\ UNCHANGED <<hashes, levels, claim, pc>>
      BY <2>5 DEF LegacyClimb, Move
    <3>2. walk \in WalkRecord(walk.current)
      BY DEF HonestInv, AgreeInv, Inv, WalkOK
    <3>3. v = [current |-> c, index |-> walk.index, size |-> walk.size,
               used |-> walk.used]
      <4>1. v = [walk EXCEPT !.current = c]
        OBVIOUS
      <4> HIDE DEF v, c
      <4>. QED  BY <3>2, <4>1 DEF WalkRecord
    <3>4. u.current = c /\ u.used = o
      <4> HIDE DEF v, c
      <4>. QED  BY <3>3 DEF Use
    <3> HIDE DEF u
    <3>5. walk'.current = Ancestor(levels, at, g + 1) /\ walk'.used = Len(at[g + 1].path)
      BY <2>2, <3>1, <3>4
    <3>6. g + 1 \in 1..Len(levels)
      BY <1>3, <1>6, LevelSeqFacts
    <3>7. Along(at, g + 1)'
      BY <3>1, <3>5 DEF Along
    <3>. QED  BY <1>3, <3>1, <3>6, <3>7 DEF LegacyInv
  <2>. QED  BY <2>4, <2>5
<1>. QED  BY <1>3, <1>5, <1>6

(* With the size of the batch the loop decides as the function, and the    *)
(* function accepts.                                                       *)
LEMMA HonestDecide ==
    ASSUME HonestInv, Honest, RejectStep \/ Finish
    PROVE  pc' = "accepted"
<1>1. pc = "walk" /\ Len(Top) = 1
  BY DEF RejectStep, Finish, InWalk, HonestInv, AgreeInv, Inv
<1>2. /\ LevelSeq(hashes, levels) /\ claim.leaf_index \in 0..Len(hashes) - 1
      /\ Path = HonestPath(levels, claim.leaf_index)
      /\ claim.batch_size \in {0, Len(hashes)}
  BY <1>1, HonestIs
<1>3. claim.batch_size = Len(hashes)
  BY <1>1, <1>2, BeforeRound DEF HonestInv
<1>4. Root = compute_batch_root(hashes)
  BY <1>2, LastIsRoot DEF Root, Top
<1>5. IsHex(claim.receipt_hash)
      /\ StripPrefix(claim.receipt_hash) = hashes[claim.leaf_index + 1]
  BY DEF Honest
<1>6. Proven
  BY <1>2, <1>3, <1>4, <1>5, HonestVerifies DEF Proven
<1>. QED  BY <1>6, AgreeDecide DEF HonestInv

LEMMA HonestNext == HonestInv /\ [Next]_vars => HonestInv'
<1> SUFFICES ASSUME HonestInv, [Next]_vars PROVE HonestInv'
  OBVIOUS
<1>1. AgreeInv'
  BY AgreeNext DEF HonestInv
<1>2. CASE BuildLevel \/ Submit
  <2>1. pc' \notin {"legacy", "accepted", "rejected"}
    BY <1>2 DEF BuildLevel, Submit
  <2>. QED  BY <1>1, <2>1 DEF HonestInv, LegacyInv, HonestIsAccepted, Decided
<1>3. ASSUME UNCHANGED <<hashes, levels, claim>>
      PROVE  Honest' = Honest
  BY <1>3 DEF Honest
<1>4. ASSUME Decide(pc' = "accepted"), Honest => pc' = "accepted",
             pc' \in {"accepted", "rejected"}
      PROVE  HonestInv'
  <2>1. UNCHANGED <<hashes, levels, claim>>
    BY <1>4 DEF Decide
  <2>. QED  BY <1>1, <1>3, <1>4, <2>1 DEF HonestInv, LegacyInv, HonestIsAccepted
<1>5. CASE RejectArguments
  <2>1. /\ pc = "start" /\ ~InOrder /\ Decide(pc' = "accepted") /\ pc' = "rejected"
    BY <1>5 DEF RejectArguments, Decide
  <2>2. Len(Top) = 1
    BY <2>1 DEF HonestInv, AgreeInv, Inv
  <2>3. ~Honest
    BY <2>1, <2>2, HonestIs
  <2>. QED  BY <1>4, <2>1, <2>3
<1>6. CASE RejectStep \/ Finish
  <2>1. Decide(pc' = "accepted") /\ pc' \in {"accepted", "rejected"}
    BY <1>6 DEF RejectStep, Finish, Decide
  <2>. QED  BY <1>4, <1>6, <2>1, HonestDecide
<1>7. CASE LegacyRejectStep \/ LegacyFinish
  <2>1. Decide(pc' = "accepted") /\ pc' \in {"accepted", "rejected"}
    BY <1>7 DEF LegacyRejectStep, LegacyFinish, Decide
  <2>. QED  BY <1>4, <1>7, <2>1, HonestLegacy
<1>8. CASE Start
  <2>1. /\ UNCHANGED <<hashes, levels, claim>> /\ pc' \in {"walk", "legacy"}
    BY <1>8 DEF Start
  <2>2. LegacyInv'
    <3>1. CASE Honest /\ pc' = "legacy"
      BY <1>8, <3>1, HonestStart
    <3>2. CASE ~(Honest /\ pc' = "legacy")
      BY <1>3, <2>1, <3>2 DEF LegacyInv
    <3>. QED  BY <3>1, <3>2
  <2>. QED  BY <1>1, <2>1, <2>2 DEF HonestInv, HonestIsAccepted, Decided
<1>9. CASE LegacyClimb
  <2>1. UNCHANGED <<hashes, levels, claim, pc>> /\ pc = "legacy"
    BY <1>9 DEF LegacyClimb, Move
  <2>2. LegacyInv'
    <3>1. CASE Honest
      BY <1>9, <3>1, HonestLegacy
    <3>2. CASE ~Honest
      BY <1>3, <2>1, <3>2 DEF LegacyInv
    <3>. QED  BY <3>1, <3>2
  <2>. QED  BY <1>1, <2>1, <2>2 DEF HonestInv, HonestIsAccepted, Decided
<1>10. CASE Promote \/ Climb
  <2>1. pc' = "walk"
    BY <1>10 DEF Promote, Climb, Move, InWalk
  <2>. QED  BY <1>1, <2>1 DEF HonestInv, LegacyInv, HonestIsAccepted, Decided
<1>11. CASE UNCHANGED vars
  <2>1. UNCHANGED <<hashes, levels, claim, walk, pc>>
    BY <1>11 DEF vars
  <2>2. LegacyInv' = LegacyInv
    BY <1>3, <2>1 DEF LegacyInv, Along
  <2>3. HonestIsAccepted'
    BY <1>3, <2>1 DEF HonestInv, HonestIsAccepted, Decided
  <2>. QED  BY <1>1, <2>2, <2>3 DEF HonestInv
<1>. QED
  BY <1>2, <1>5, <1>6, <1>7, <1>8, <1>9, <1>10, <1>11 DEF Next, Verify

(* An operator who tells the nodes beside a leaf's ancestors is never      *)
(* refused, with the size of the batch or without one, at any place of a   *)
(* batch of any size (merkle.py:94-169).                       *)
THEOREM HonestAccepted == Spec => []HonestIsAccepted
<1>1. Init => HonestInv
  <2>. SUFFICES ASSUME Init PROVE HonestInv
    OBVIOUS
  <2>1. pc = "build"
    BY DEF Init
  <2>. QED  BY AgreeInit, <2>1 DEF HonestInv, LegacyInv, HonestIsAccepted, Decided
<1>2. HonestInv => HonestIsAccepted
  BY DEF HonestInv
<1>. QED  BY <1>1, HonestNext, <1>2, PTL DEF Spec
=============================================================================
