-------------------------- MODULE MerkleTreeProofs --------------------------
(***************************************************************************)
(* What the root of a batch says about the batch, for batches of every     *)
(* size: the root of a sequence of hashes is the root of no other, and     *)
(* inclusion proofs for all leaves show the size of the batch and the      *)
(* place of each leaf.  merkle.py's loops are recursive functions here, so *)
(* every proof by induction is one about a least counterexample.           *)
(***************************************************************************)
EXTENDS MerkleTree, TLAPS, WellFoundedInduction

(* A non-empty set of natural numbers has a least element.                 *)
LEMMA LeastNat ==
    ASSUME NEW T, T \subseteq Nat, T # {}
    PROVE  \E m \in T : \A y \in T : m <= y
<1>1. IsWellFoundedOn(OpToRel(<, Nat), Nat)
  BY NatLessThanWellFounded
<1>2. PICK m \in T : \A y \in T : ~(<<y, m>> \in OpToRel(<, Nat))
  BY <1>1, WFMin
<1>3. \A y \in T : ~(y < m)
  BY <1>2, Zenon DEF OpToRel
<1>4. \A y \in T : m <= y
  BY <1>3
<1>. QED  BY <1>4

(* Induction up to n over a set, which stands for a property.              *)
LEMMA UpTo ==
    ASSUME NEW n \in Nat, NEW S, 0 \in S, \A k \in 1..n : k - 1 \in S => k \in S
    PROVE  \A k \in 0..n : k \in S
<1> DEFINE T == {k \in 0..n : k \notin S}
<1>1. SUFFICES ASSUME T # {} PROVE FALSE
  OBVIOUS
<1>2. PICK m \in T : \A y \in T : m <= y
  <2>1. T \subseteq Nat
    OBVIOUS
  <2> HIDE DEF T
  <2>. QED  BY <1>1, <2>1, LeastNat
<1>3. m \in 0..n /\ m \notin S /\ m # 0
  BY <1>2
<1>4. m \in 1..n /\ m - 1 \in 0..n /\ ~(m <= m - 1)
  BY <1>3
<1>5. m - 1 \notin T
  <2> HIDE DEF T
  <2>. QED  BY <1>2, <1>4
<1>. QED  BY <1>3, <1>4, <1>5

-----------------------------------------------------------------------------
(* A sequence of whatever its elements are.                                *)
IsSeq(s) == s \in Seq({s[i] : i \in DOMAIN s})

(* A function whose domain is 1..n is a sequence of that length.           *)
LEMMA SeqOfLength ==
    ASSUME NEW n \in Nat, NEW f, f = [i \in 1..n |-> f[i]]
    PROVE  IsSeq(f) /\ Len(f) = n /\ DOMAIN f = 1..n
<1>1. DOMAIN f = 1..n
  OBVIOUS
<1>2. f \in [1..n -> {f[i] : i \in DOMAIN f}]
  BY <1>1
<1>3. f \in Seq({f[i] : i \in DOMAIN f})
  BY <1>2
<1> QED
  BY <1>1, <1>3 DEF IsSeq

(* The domain of a sequence is given by its length.                        *)
LEMMA SeqDomain ==
    ASSUME NEW s, IsSeq(s)
    PROVE  Len(s) \in Nat /\ DOMAIN s = 1..Len(s)
BY DEF IsSeq

(* Appending adds one element at the end and leaves the others.            *)
LEMMA Appended ==
    ASSUME NEW s, IsSeq(s), NEW x
    PROVE  /\ IsSeq(Append(s, x))
           /\ Len(Append(s, x)) = Len(s) + 1
           /\ \A i \in 1..Len(s) : Append(s, x)[i] = s[i]
           /\ Append(s, x)[Len(s) + 1] = x
<1> DEFINE S == {s[i] : i \in DOMAIN s}
           t == Append(s, x)
<1>1. s \in Seq(S \cup {x}) /\ x \in S \cup {x}
  BY DEF IsSeq
<1>2. /\ t \in Seq(S \cup {x}) /\ Len(t) = Len(s) + 1
      /\ \A i \in 1..Len(s) : t[i] = s[i]
      /\ t[Len(s) + 1] = x
  <2> HIDE DEF S
  <2> QED
    BY <1>1
<1>3. t = [i \in 1..Len(t) |-> t[i]] /\ Len(t) \in Nat
  <2> HIDE DEF S, t
  <2> QED
    BY <1>2
<1>4. IsSeq(t)
  <2> HIDE DEF t
  <2> QED
    BY <1>3, SeqOfLength
<1> QED
  BY <1>2, <1>4

(* What a round of compute_batch_root's loop makes of a level.             *)
LEMMA NextLevelIs ==
    ASSUME NEW level, IsSeq(level), Len(level) > 0
    PROVE  /\ IsSeq(NextLevel(level))
           /\ Len(NextLevel(level)) = Half(Len(level))
           /\ Half(Len(level)) \in Nat \ {0}
           /\ \A i \in 1..Half(Len(level)) :
                 NextLevel(level)[i] =
                    IF 2 * i <= Len(level)
                    THEN NodeHash(level[2 * i - 1], level[2 * i])
                    ELSE level[2 * i - 1]
<1>1. Len(level) \in Nat
  BY SeqDomain
<1>2. Half(Len(level)) \in Nat \ {0}
  BY <1>1 DEF Half
<1> DEFINE n == Half(Len(level))
           f == NextLevel(level)
<1>3. /\ f = [i \in 1..n |-> f[i]]
      /\ \A i \in 1..n : f[i] = IF 2 * i <= Len(level)
                                THEN NodeHash(level[2 * i - 1], level[2 * i])
                                ELSE level[2 * i - 1]
  BY DEF NextLevel
<1>4. IsSeq(f) /\ Len(f) = n
  <2> HIDE DEF f, n
  <2> QED
    BY <1>2, <1>3, SeqOfLength DEF n
<1> QED
  BY <1>2, <1>3, <1>4

-----------------------------------------------------------------------------
(* The levels of the tree over a batch, from the leaves to the n-th.       *)
Levels(s, n, L) ==
    L = [k \in 0..n |-> IF k = 0 THEN [i \in DOMAIN s |-> LeafHash(s[i])]
                        ELSE NextLevel(L[k - 1])]

LEMMA LevelsExist ==
    ASSUME NEW s, NEW n \in Nat
    PROVE  \E L : Levels(s, n, L)
<1> DEFINE T == {m \in Nat : ~\E L : Levels(s, m, L)}
<1>1. SUFFICES ASSUME T # {} PROVE FALSE
  OBVIOUS
<1>2. PICK m \in T : \A y \in T : m <= y
  BY <1>1, LeastNat
<1>3. m # 0
  <2>. SUFFICES ASSUME m = 0 PROVE FALSE
    OBVIOUS
  <2> DEFINE L == [k \in 0..0 |-> [i \in DOMAIN s |-> LeafHash(s[i])]]
  <2>1. Levels(s, 0, L)
    BY DEF Levels
  <2>. QED  BY <1>2, <2>1
<1>4. m - 1 \in Nat /\ m - 1 \notin T
  BY <1>2, <1>3
<1>5. PICK G : Levels(s, m - 1, G)
  BY <1>4
<1> DEFINE L == [k \in 0..m |-> IF k = m THEN NextLevel(G[m - 1]) ELSE G[k]]
<1>6. Levels(s, m, L)
  <2>1. ASSUME NEW k \in 0..m
        PROVE  L[k] = IF k = 0 THEN [i \in DOMAIN s |-> LeafHash(s[i])]
                      ELSE NextLevel(L[k - 1])
    <3>1. CASE k = m
      BY <1>2, <1>3, <3>1
    <3>2. CASE k # m
      <4>1. k \in 0..m - 1
        BY <1>2, <3>2
      <4>2. G[k] = IF k = 0 THEN [i \in DOMAIN s |-> LeafHash(s[i])]
                   ELSE NextLevel(G[k - 1])
        BY <1>5, <4>1 DEF Levels
      <4>3. k # 0 => L[k - 1] = G[k - 1]
        BY <1>2, <4>1
      <4>. QED  BY <1>2, <3>2, <4>2, <4>3
    <3>. QED  BY <3>1, <3>2
  <2>2. L = [k \in 0..m |-> L[k]]
    OBVIOUS
  <2> HIDE DEF L
  <2>. QED  BY <2>1, <2>2 DEF Levels
<1>. QED  BY <1>2, <1>6

(* compute_batch_root is the first node of the last of its levels.         *)
LEMMA RootOfLevels ==
    ASSUME NEW s, Len(s) \in Nat
    PROVE  \E L : Levels(s, Len(s), L) /\ compute_batch_root(s) = L[Len(s)][1]
<1> DEFINE level == CHOOSE L : Levels(s, Len(s), L)
<1>1. Levels(s, Len(s), level)
  BY LevelsExist
<1>2. compute_batch_root(s) = level[Len(s)][1]
  BY DEF compute_batch_root, Levels
<1>. QED  BY <1>1, <1>2

(* The levels are sequences that are never empty, each built from the one  *)
(* below, and become shorter until there is one node.                      *)
LevelIs(s, L, k) ==
    /\ IsSeq(L[k]) /\ Len(L[k]) \in Nat \ {0}
    /\ Len(L[k]) = 1 \/ Len(L[k]) <= Len(s) - k

LEMMA LevelsAre ==
    ASSUME NEW s, IsSeq(s), Len(s) > 0, NEW n \in Nat, NEW L, Levels(s, n, L)
    PROVE  /\ L[0] = [i \in 1..Len(s) |-> LeafHash(s[i])]
           /\ \A k \in 0..n : LevelIs(s, L, k)
           /\ Len(L[0]) = Len(s) /\ Len(s) \in Nat
<1>1. Len(s) \in Nat /\ DOMAIN s = 1..Len(s)
  BY SeqDomain
<1>2. L[0] = [i \in 1..Len(s) |-> LeafHash(s[i])]
  BY <1>1 DEF Levels
<1>3. IsSeq(L[0]) /\ Len(L[0]) = Len(s)
  <2> DEFINE f == L[0]
  <2>1. f = [i \in 1..Len(s) |-> f[i]]
    BY <1>2
  <2> HIDE DEF f
  <2>2. IsSeq(f) /\ Len(f) = Len(s)
    BY <1>1, <2>1, SeqOfLength
  <2>. QED  BY <2>2 DEF f
<1>4. \A k \in 1..n : L[k] = NextLevel(L[k - 1])
  <2>. SUFFICES ASSUME NEW k \in 1..n PROVE L[k] = NextLevel(L[k - 1])
    OBVIOUS
  <2>1. k \in 0..n /\ k # 0
    OBVIOUS
  <2>. QED  BY <2>1 DEF Levels
<1> DEFINE S == {k \in 0..n : LevelIs(s, L, k)}
<1>5. 0 \in S
  BY <1>1, <1>3 DEF LevelIs
<1>6. ASSUME NEW k \in 1..n, k - 1 \in S
      PROVE  k \in S
  <2> DEFINE low == Len(L[k - 1])
  <2>1. LevelIs(s, L, k - 1)
    BY <1>6
  <2>2. L[k] = NextLevel(L[k - 1])
    BY <1>4
  <2>3. IsSeq(L[k]) /\ Len(L[k]) = Half(low) /\ Half(low) \in Nat \ {0}
    BY <2>1, <2>2, NextLevelIs DEF LevelIs
  <2>4. low \in Nat \ {0} /\ (low = 1 \/ low <= Len(s) - (k - 1))
    BY <2>1 DEF LevelIs
  <2> HIDE DEF low
  <2>5. Half(low) = 1 \/ Half(low) <= low - 1
    BY <2>4 DEF Half
  <2>6. low = 1 => Half(low) = 1
    BY DEF Half
  <2>7. Half(low) = 1 \/ Half(low) <= Len(s) - k
    BY <1>1, <2>3, <2>4, <2>5, <2>6
  <2>8. k \in 0..n
    OBVIOUS
  <2>. QED  BY <2>3, <2>7, <2>8 DEF LevelIs
<1>7. \A k \in 0..n : k \in S
  <2> HIDE DEF S
  <2>. QED  BY <1>5, <1>6, UpTo
<1>. QED  BY <1>1, <1>2, <1>3, <1>4, <1>7

(* A node above the leaves is the only child of the place below it or the  *)
(* hash of the two children there.                                         *)
HasChildren(L, k, i) ==
    LET below == L[k - 1]
    IN  /\ Len(below) \in Nat /\ 2 * i - 1 \in 1..Len(below)
        /\ Len(L[k]) = Half(Len(below))
        /\ \/ /\ 2 * i \in 1..Len(below)
              /\ L[k][i] = NodeHash(below[2 * i - 1], below[2 * i])
           \/ 2 * i - 1 = Len(below) /\ L[k][i] = below[2 * i - 1]

LEMMA Children ==
    ASSUME NEW s, IsSeq(s), Len(s) > 0, NEW n \in Nat, NEW L, Levels(s, n, L),
           NEW k \in 1..n, NEW i \in 1..Len(L[k])
    PROVE  HasChildren(L, k, i)
<1> DEFINE below == L[k - 1]
<1>1. /\ IsSeq(below) /\ Len(below) \in Nat \ {0}
      /\ L[k] = NextLevel(below)
  <2>1. k - 1 \in 0..n
    OBVIOUS
  <2>2. \A m \in 0..n : LevelIs(s, L, m)
    BY LevelsAre
  <2>3. L[k] = NextLevel(L[k - 1])
    <3>1. k \in 0..n /\ k # 0
      OBVIOUS
    <3>. QED  BY <3>1 DEF Levels
  <2>. QED  BY <2>1, <2>2, <2>3 DEF LevelIs
<1> HIDE DEF below
<1>2. /\ Len(L[k]) = Half(Len(below)) /\ Half(Len(below)) \in Nat
      /\ L[k][i] = IF 2 * i <= Len(below)
                   THEN NodeHash(below[2 * i - 1], below[2 * i])
                   ELSE below[2 * i - 1]
  BY <1>1, NextLevelIs, SMTT(20)
<1>3. 2 * i - 1 \in 1..Len(below) /\ (~(2 * i <= Len(below)) => 2 * i - 1 = Len(below))
  BY <1>1, <1>2 DEF Half
<1>4. 2 * i <= Len(below) => 2 * i \in 1..Len(below)
  BY <1>1, <1>2, <1>3
<1>. QED  BY <1>1, <1>2, <1>3, <1>4 DEF HasChildren, below

-----------------------------------------------------------------------------
(* The leaves under the i-th node of level k are the ones from F[k][i] up  *)
(* to but not including F[k][i + 1].                                       *)
Spans(s, n, L, F) ==
    F = [k \in 0..n |->
            IF k = 0 THEN [i \in 1..Len(s) + 1 |-> i]
            ELSE [i \in 1..Len(L[k]) + 1 |->
                     F[k - 1][IF i <= Len(L[k]) THEN 2 * i - 1
                              ELSE Len(L[k - 1]) + 1]]]

LEMMA SpansExist ==
    ASSUME NEW s, NEW L, NEW n \in Nat
    PROVE  \E F : Spans(s, n, L, F)
<1> DEFINE T == {m \in Nat : ~\E F : Spans(s, m, L, F)}
           Up(k, below) == [i \in 1..Len(L[k]) + 1 |->
                               below[IF i <= Len(L[k]) THEN 2 * i - 1
                                     ELSE Len(L[k - 1]) + 1]]
<1>1. SUFFICES ASSUME T # {} PROVE FALSE
  OBVIOUS
<1>2. PICK m \in T : \A y \in T : m <= y
  BY <1>1, LeastNat
<1>3. m # 0
  <2>. SUFFICES ASSUME m = 0 PROVE FALSE
    OBVIOUS
  <2> DEFINE F == [k \in 0..0 |-> [i \in 1..Len(s) + 1 |-> i]]
  <2>1. Spans(s, 0, L, F)
    BY DEF Spans
  <2>. QED  BY <1>2, <2>1
<1>4. m - 1 \in Nat /\ m - 1 \notin T
  BY <1>2, <1>3
<1>5. PICK G : Spans(s, m - 1, L, G)
  BY <1>4
<1> DEFINE F == [k \in 0..m |-> IF k = m THEN Up(k, G[m - 1]) ELSE G[k]]
<1> HIDE DEF Up
<1>6. F = [k \in 0..m |-> IF k = 0 THEN [i \in 1..Len(s) + 1 |-> i]
                          ELSE Up(k, F[k - 1])]
  <2>1. ASSUME NEW k \in 0..m
        PROVE  F[k] = IF k = 0 THEN [i \in 1..Len(s) + 1 |-> i]
                      ELSE Up(k, F[k - 1])
    <3>1. CASE k = m
      BY <1>2, <1>3, <3>1
    <3>2. CASE k # m
      <4>1. k \in 0..m - 1
        BY <1>2, <3>2
      <4>2. G[k] = IF k = 0 THEN [i \in 1..Len(s) + 1 |-> i]
                   ELSE Up(k, G[k - 1])
        BY <1>5, <4>1 DEF Spans, Up
      <4>3. k # 0 => F[k - 1] = G[k - 1]
        BY <1>2, <4>1
      <4>. QED  BY <1>2, <3>2, <4>2, <4>3
    <3>. QED  BY <3>1, <3>2
  <2>2. F = [k \in 0..m |-> F[k]]
    OBVIOUS
  <2> HIDE DEF F
  <2>. QED  BY <2>1, <2>2
<1>7. Spans(s, m, L, F)
  <2> HIDE DEF F
  <2>. QED  BY <1>6 DEF Spans, Up
<1>. QED  BY <1>2, <1>7

(* The span of a node is not empty and is made of the spans of the places  *)
(* below it; all leaves are in the span of a single node.                  *)
SpansAt(s, L, F, k) ==
    /\ F[k][1] = 1 /\ F[k][Len(L[k]) + 1] = Len(s) + 1
    /\ \A i \in 1..Len(L[k]) + 1 : F[k][i] \in 1..Len(s) + 1
    /\ \A i \in 1..Len(L[k]) : F[k][i] < F[k][i + 1]

SpanSplits(L, F, k, i) ==
    /\ F[k][i] = F[k - 1][2 * i - 1]
    /\ F[k][i + 1] = F[k - 1][IF 2 * i <= Len(L[k - 1]) THEN 2 * i + 1 ELSE 2 * i]

LEMMA SpansAre ==
    ASSUME NEW s, IsSeq(s), Len(s) > 0, NEW n \in Nat, NEW L, Levels(s, n, L),
           NEW F, Spans(s, n, L, F)
    PROVE  /\ \A i \in 1..Len(s) : F[0][i] = i /\ F[0][i + 1] = i + 1
           /\ \A k \in 0..n : SpansAt(s, L, F, k)
           /\ \A k \in 1..n : \A i \in 1..Len(L[k]) : SpanSplits(L, F, k, i)
<1>1. /\ Len(L[0]) = Len(s) /\ Len(s) \in Nat
      /\ \A k \in 0..n : Len(L[k]) \in Nat \ {0}
  BY LevelsAre DEF LevelIs
<1>2. F[0] = [i \in 1..Len(s) + 1 |-> i]
  BY DEF Spans
<1>3. ASSUME NEW k \in 1..n, NEW i \in 1..Len(L[k]) + 1
      PROVE  F[k][i] = F[k - 1][IF i <= Len(L[k]) THEN 2 * i - 1
                               ELSE Len(L[k - 1]) + 1]
  <2>1. k \in 0..n /\ k # 0
    OBVIOUS
  <2>2. F[k] = [j \in 1..Len(L[k]) + 1 |->
                   F[k - 1][IF j <= Len(L[k]) THEN 2 * j - 1
                            ELSE Len(L[k - 1]) + 1]]
    BY <2>1 DEF Spans
  <2>. QED  BY <2>2
<1>4. ASSUME NEW k \in 1..n, NEW i \in 1..Len(L[k])
      PROVE  SpanSplits(L, F, k, i)
  <2> DEFINE low  == Len(L[k - 1])
             high == Len(L[k])
  <2>1. /\ low \in Nat /\ high = Half(low)
        /\ 2 * i <= low \/ 2 * i - 1 = low
    <3>1. HasChildren(L, k, i)
      BY Children
    <3>. QED  BY <3>1 DEF HasChildren
  <2>2. high \in Nat
    BY <1>1
  <2>3. i \in 1..high + 1 /\ i + 1 \in 1..high + 1 /\ i <= high
    BY <2>2
  <2>4. F[k][i] = F[k - 1][2 * i - 1]
    BY <1>3, <2>3
  <2>5. F[k][i + 1] = F[k - 1][IF i + 1 <= high THEN 2 * (i + 1) - 1 ELSE low + 1]
    BY <1>3, <2>3
  <2> HIDE DEF low, high
  <2>6. (IF i + 1 <= high THEN 2 * (i + 1) - 1 ELSE low + 1)
          = IF 2 * i <= low THEN 2 * i + 1 ELSE 2 * i
    BY <2>1, <2>2, <2>3 DEF Half
  <2>. QED  BY <2>4, <2>5, <2>6 DEF SpanSplits, low
<1> DEFINE S == {k \in 0..n : SpansAt(s, L, F, k)}
<1>5. 0 \in S
  <2>1. /\ \A i \in 1..Len(s) + 1 : F[0][i] = i
        /\ 0 \in 0..n /\ 1 \in 1..Len(s) + 1 /\ Len(s) + 1 \in 1..Len(s) + 1
        /\ \A i \in 1..Len(s) : i \in 1..Len(s) + 1 /\ i + 1 \in 1..Len(s) + 1
    BY <1>1, <1>2
  <2>2. SpansAt(s, L, F, 0)
    BY <1>1, <2>1 DEF SpansAt
  <2>. QED  BY <2>1, <2>2
<1>6. ASSUME NEW k \in 1..n, k - 1 \in S
      PROVE  k \in S
  <2> DEFINE low  == Len(L[k - 1])
             high == Len(L[k])
             f    == F[k - 1]
  <2>1. /\ f[1] = 1 /\ f[low + 1] = Len(s) + 1
        /\ \A i \in 1..low + 1 : f[i] \in 1..Len(s) + 1
        /\ \A i \in 1..low : f[i] < f[i + 1]
    BY <1>6 DEF SpansAt
  <2>2. low \in Nat \ {0} /\ high \in Nat \ {0} /\ k \in 0..n
    <3>1. k \in 0..n /\ k - 1 \in 0..n
      OBVIOUS
    <3>. QED  BY <1>1, <3>1
  <2>3. F[k][high + 1] = f[low + 1]
    <3>1. high + 1 \in 1..high + 1 /\ ~(high + 1 <= high)
      BY <2>2
    <3>. QED  BY <1>3, <3>1
  <2>4. ASSUME NEW i \in 1..high
        PROVE  /\ 2 * i - 1 \in 1..low /\ (2 * i \in 1..low \/ 2 * i - 1 = low)
               /\ F[k][i] = f[2 * i - 1]
               /\ F[k][i + 1] = f[IF 2 * i <= low THEN 2 * i + 1 ELSE 2 * i]
    <3>1. HasChildren(L, k, i) /\ SpanSplits(L, F, k, i)
      BY <1>4, Children
    <3>. QED  BY <3>1 DEF HasChildren, SpanSplits
  <2> HIDE DEF low, high, f
  <2>5. F[k][1] = 1
    <3>1. 1 \in 1..high /\ 2 * 1 - 1 = 1
      BY <2>2
    <3>2. F[k][1] = f[2 * 1 - 1]
      BY <2>4, <3>1
    <3>. QED  BY <2>1, <3>1, <3>2
  <2>6. ASSUME NEW i \in 1..high
        PROVE  F[k][i] \in 1..Len(s) + 1 /\ F[k][i] < F[k][i + 1]
    <3>1. CASE 2 * i \in 1..low
      <4>1. /\ 2 * i - 1 \in 1..low /\ 2 * i \in 1..low + 1
            /\ 2 * i + 1 \in 1..low + 1 /\ (2 * i - 1) + 1 = 2 * i
            /\ 2 * i - 1 \in 1..low + 1
        BY <2>2, <2>4, <3>1
      <4>2. f[2 * i - 1] < f[2 * i] /\ f[2 * i] < f[2 * i + 1]
        BY <2>1, <3>1, <4>1
      <4>3. /\ f[2 * i - 1] \in 1..Len(s) + 1 /\ f[2 * i] \in 1..Len(s) + 1
            /\ f[2 * i + 1] \in 1..Len(s) + 1
        BY <2>1, <4>1
      <4>4. F[k][i] = f[2 * i - 1] /\ F[k][i + 1] = f[2 * i + 1]
        BY <2>4, <3>1
      <4>. QED  BY <1>1, <4>2, <4>3, <4>4
    <3>2. CASE 2 * i - 1 = low
      <4>1. /\ 2 * i - 1 \in 1..low + 1 /\ (2 * i - 1) + 1 = 2 * i
            /\ ~(2 * i <= low)
        BY <2>2, <2>4, <3>2
      <4>2. F[k][i] = f[2 * i - 1] /\ F[k][i + 1] = f[2 * i]
        BY <2>4, <4>1
      <4>. QED  BY <2>1, <2>4, <4>1, <4>2
    <3>. QED  BY <2>4, <3>1, <3>2
  <2>7. \A i \in 1..high + 1 : F[k][i] \in 1..Len(s) + 1
    <3>1. \A i \in 1..high + 1 : i \in 1..high \/ i = high + 1
      BY <2>2
    <3>2. Len(s) + 1 \in 1..Len(s) + 1
      BY <1>1
    <3>. QED  BY <2>1, <2>3, <2>6, <3>1, <3>2
  <2>. QED  BY <2>1, <2>2, <2>3, <2>5, <2>6, <2>7 DEF SpansAt, high
<1>7. \A k \in 0..n : k \in S
  <2> HIDE DEF S
  <2>. QED  BY <1>5, <1>6, UpTo
<1>8. \A i \in 1..Len(s) : F[0][i] = i /\ F[0][i + 1] = i + 1
  BY <1>1, <1>2
<1>. QED  BY <1>4, <1>7, <1>8

-----------------------------------------------------------------------------
(* Equal nodes of two trees stand for equal runs of leaves: a leaf is not  *)
(* a node, a node has one pair of children, and promotion changes neither. *)
SameRun(s, f, g, t, u, v) ==
    g - f = v - u /\ \A d \in 0..g - f - 1 : s[f + d] = t[u + d]

LEMMA RunsJoin ==
    ASSUME NEW s, NEW t, NEW f \in Int, NEW g \in Int, NEW h \in Int,
           NEW u \in Int, NEW v \in Int, NEW w \in Int,
           SameRun(s, f, g, t, u, v), SameRun(s, g, h, t, v, w)
    PROVE  SameRun(s, f, h, t, u, w)
<1>1. g - f = v - u /\ h - g = w - v /\ h - f = w - u
  BY DEF SameRun
<1>2. ASSUME NEW d \in 0..h - f - 1
      PROVE  s[f + d] = t[u + d]
  <2>1. CASE d < g - f
    <3>1. d \in 0..g - f - 1
      BY <2>1
    <3>. QED  BY <3>1 DEF SameRun
  <2>2. CASE ~(d < g - f)
    <3> DEFINE e == d - (g - f)
    <3>1. e \in 0..h - g - 1 /\ g + e = f + d /\ v + e = u + d
      BY <1>1, <2>2
    <3> HIDE DEF e
    <3>2. s[g + e] = t[v + e]
      BY <3>1 DEF SameRun
    <3>. QED  BY <3>1, <3>2
  <2>. QED  BY <2>1, <2>2
<1>. QED  BY <1>1, <1>2 DEF SameRun

(* A leaf of a tree and a node are told apart, and so are two nodes.       *)
LEMMA Injective ==
    /\ \A x, y : LeafHash(x) = LeafHash(y) => x = y
    /\ \A x, a, b : LeafHash(x) # NodeHash(a, b)
    /\ \A a, b, c, d : NodeHash(a, b) = NodeHash(c, d) => a = c /\ b = d
BY DEF LeafHash, NodeHash

(* What is known of a tree: its levels and spans.                          *)
Tree(s, n, L, F) ==
    /\ IsSeq(s) /\ Len(s) > 0 /\ n \in Nat
    /\ Levels(s, n, L) /\ Spans(s, n, L, F)

(* A place of a tree, and the two kinds of places above the leaves.        *)
Place(n, L, k, i) == k \in 0..n /\ i \in 1..Len(L[k])

LEMMA PlaceFacts ==
    ASSUME NEW s, NEW n, NEW L, NEW F, Tree(s, n, L, F), NEW k, NEW i, Place(n, L, k, i)
    PROVE  /\ k \in Nat /\ i \in Nat /\ F[k][i] \in Nat /\ F[k][i + 1] \in Nat
           /\ 1 <= F[k][i] /\ F[k][i] < F[k][i + 1] /\ F[k][i + 1] <= Len(s) + 1
           /\ k = 0 => /\ L[0][i] = LeafHash(s[i]) /\ F[0][i] = i
                       /\ F[0][i + 1] = i + 1 /\ i \in 1..Len(s)
<1>. USE DEF Tree
<1>1. k \in 0..n /\ i \in 1..Len(L[k])
  BY DEF Place
<1>2. LevelIs(s, L, k) /\ Len(s) \in Nat
  BY <1>1, LevelsAre
<1>3. SpansAt(s, L, F, k)
  BY <1>1, SpansAre
<1>4. i \in 1..Len(L[k]) + 1 /\ i + 1 \in 1..Len(L[k]) + 1
  BY <1>1, <1>2 DEF LevelIs
<1>5. /\ F[k][i] \in 1..Len(s) + 1 /\ F[k][i + 1] \in 1..Len(s) + 1
      /\ F[k][i] < F[k][i + 1]
  BY <1>1, <1>3, <1>4 DEF SpansAt
<1>6. k = 0 => /\ L[0][i] = LeafHash(s[i]) /\ F[0][i] = i
               /\ F[0][i + 1] = i + 1 /\ i \in 1..Len(s)
  <2>1. L[0] = [j \in 1..Len(s) |-> LeafHash(s[j])] /\ Len(L[0]) = Len(s)
    BY LevelsAre
  <2>2. \A j \in 1..Len(s) : F[0][j] = j /\ F[0][j + 1] = j + 1
    BY SpansAre
  <2>. QED  BY <1>1, <2>1, <2>2
<1>. QED  BY <1>1, <1>2, <1>5, <1>6

Promotes(n, L, F, k, i) ==
    /\ Place(n, L, k - 1, 2 * i - 1) /\ 2 * i - 1 = Len(L[k - 1])
    /\ L[k][i] = L[k - 1][2 * i - 1]
    /\ F[k][i] = F[k - 1][2 * i - 1] /\ F[k][i + 1] = F[k - 1][2 * i]

Pairs(n, L, F, k, i) ==
    /\ Place(n, L, k - 1, 2 * i - 1) /\ Place(n, L, k - 1, 2 * i)
    /\ L[k][i] = NodeHash(L[k - 1][2 * i - 1], L[k - 1][2 * i])
    /\ F[k][i] = F[k - 1][2 * i - 1] /\ F[k][i + 1] = F[k - 1][2 * i + 1]

LEMMA PlacesBelow ==
    ASSUME NEW s, NEW n, NEW L, NEW F, Tree(s, n, L, F), NEW k, NEW i,
           Place(n, L, k, i), k # 0
    PROVE  Promotes(n, L, F, k, i) \/ Pairs(n, L, F, k, i)
<1>. USE DEF Tree
<1>1. k \in 1..n /\ k - 1 \in 0..n /\ i \in 1..Len(L[k])
  BY DEF Place
<1>2. HasChildren(L, k, i)
  BY <1>1, Children
<1>3. SpanSplits(L, F, k, i)
  BY <1>1, SpansAre
<1> DEFINE below == L[k - 1]
           f     == F[k - 1]
<1>4. /\ Len(below) \in Nat /\ 2 * i - 1 \in 1..Len(below)
      /\ \/ /\ 2 * i \in 1..Len(below)
            /\ L[k][i] = NodeHash(below[2 * i - 1], below[2 * i])
         \/ 2 * i - 1 = Len(below) /\ L[k][i] = below[2 * i - 1]
      /\ F[k][i] = f[2 * i - 1]
      /\ F[k][i + 1] = f[IF 2 * i <= Len(below) THEN 2 * i + 1 ELSE 2 * i]
  BY <1>2, <1>3 DEF HasChildren, SpanSplits
<1>5. Place(n, L, k - 1, 2 * i - 1)
  BY <1>1, <1>4 DEF Place
<1>6. 2 * i \in 1..Len(below) => 2 * i <= Len(below) /\ Place(n, L, k - 1, 2 * i)
  BY <1>1, <1>4 DEF Place
<1>7. 2 * i - 1 = Len(below) => ~(2 * i <= Len(below))
  BY <1>1, <1>4
<1>. HIDE DEF below, f
<1>8. CASE 2 * i \in 1..Len(below) /\ L[k][i] = NodeHash(below[2 * i - 1], below[2 * i])
  BY <1>4, <1>5, <1>6, <1>8 DEF Pairs, below, f
<1>9. CASE 2 * i - 1 = Len(below) /\ L[k][i] = below[2 * i - 1]
  BY <1>4, <1>5, <1>7, <1>9 DEF Promotes, below, f
<1>. QED  BY <1>4, <1>8, <1>9

(* Equal nodes, equal runs: for a least pair of levels where it fails, one *)
(* step down leads to a lower pair.                                        *)
LEMMA SameNodesSameRuns ==
    ASSUME NEW s, NEW n, NEW L, NEW F, Tree(s, n, L, F),
           NEW t, NEW m, NEW K, NEW G, Tree(t, m, K, G)
    PROVE  \A k, i, r, j :
              Place(n, L, k, i) /\ Place(m, K, r, j) /\ L[k][i] = K[r][j]
                => SameRun(s, F[k][i], F[k][i + 1], t, G[r][j], G[r][j + 1])
<1> DEFINE Bad(k, i, r, j) ==
              /\ Place(n, L, k, i) /\ Place(m, K, r, j) /\ L[k][i] = K[r][j]
              /\ ~SameRun(s, F[k][i], F[k][i + 1], t, G[r][j], G[r][j + 1])
           T == {d \in Nat : \E k, i, r, j : Bad(k, i, r, j) /\ d = k + r}
<1>1. SUFFICES ASSUME T # {} PROVE FALSE
  <2>1. ASSUME NEW k, NEW i, NEW r, NEW j, Bad(k, i, r, j)
        PROVE  k + r \in T
    <3>1. k + r \in Nat
      BY <2>1, PlaceFacts
    <3> HIDE DEF Bad
    <3>. QED  BY <2>1, <3>1
  <2>2. ~\E k, i, r, j : Bad(k, i, r, j)
    <3> HIDE DEF Bad, T
    <3>. QED  BY <1>1, <2>1
  <2>. QED  BY <2>2
<1>2. PICK d \in T : \A e \in T : d <= e
  <2>1. T \subseteq Nat
    OBVIOUS
  <2> HIDE DEF T
  <2>. QED  BY <1>1, <2>1, LeastNat
<1>3. PICK k, i, r, j : Bad(k, i, r, j) /\ d = k + r
  <2> HIDE DEF Bad
  <2>. QED  BY <1>2
<1>4. /\ k \in Nat /\ r \in Nat /\ Place(n, L, k, i) /\ Place(m, K, r, j)
      /\ L[k][i] = K[r][j]
  BY <1>3, PlaceFacts
<1>5. ASSUME NEW a \in Nat, NEW b, NEW e \in Nat, NEW c, a + e < k + r,
             Place(n, L, a, b), Place(m, K, e, c), L[a][b] = K[e][c]
      PROVE  SameRun(s, F[a][b], F[a][b + 1], t, G[e][c], G[e][c + 1])
  <2>1. SUFFICES ASSUME Bad(a, b, e, c) PROVE FALSE
    BY <1>5
  <2>2. a + e \in T
    <3>1. a + e \in Nat
      OBVIOUS
    <3> HIDE DEF Bad
    <3>. QED  BY <2>1, <3>1
  <2>. HIDE DEF T, Bad
  <2>. QED  BY <1>2, <1>3, <1>4, <1>5, <2>2
<1>6. ~SameRun(s, F[k][i], F[k][i + 1], t, G[r][j], G[r][j + 1])
  BY <1>3
<1>. HIDE DEF Bad, T
<1>7. CASE k # 0 /\ Promotes(n, L, F, k, i)
  <2>1. k - 1 \in Nat /\ (k - 1) + r < k + r /\ (2 * i - 1) + 1 = 2 * i
    BY <1>4, <1>7, PlaceFacts
  <2>2. SameRun(s, F[k - 1][2 * i - 1], F[k - 1][(2 * i - 1) + 1],
                t, G[r][j], G[r][j + 1])
    BY <1>4, <1>5, <1>7, <2>1 DEF Promotes
  <2>. QED  BY <1>6, <1>7, <2>1, <2>2 DEF Promotes
<1>8. CASE r # 0 /\ Promotes(m, K, G, r, j)
  <2>1. r - 1 \in Nat /\ k + (r - 1) < k + r /\ (2 * j - 1) + 1 = 2 * j
    BY <1>4, <1>8, PlaceFacts
  <2>2. SameRun(s, F[k][i], F[k][i + 1],
                t, G[r - 1][2 * j - 1], G[r - 1][(2 * j - 1) + 1])
    BY <1>4, <1>5, <1>8, <2>1 DEF Promotes
  <2>. QED  BY <1>6, <1>8, <2>1, <2>2 DEF Promotes
<1>9. CASE k = 0 /\ r = 0
  <2>1. /\ L[0][i] = LeafHash(s[i]) /\ F[0][i] = i /\ F[0][i + 1] = i + 1
        /\ K[0][j] = LeafHash(t[j]) /\ G[0][j] = j /\ G[0][j + 1] = j + 1
        /\ i \in Nat /\ j \in Nat
    BY <1>4, <1>9, PlaceFacts
  <2>2. s[i] = t[j]
    BY <1>4, <1>9, <2>1, Injective
  <2>3. SameRun(s, i, i + 1, t, j, j + 1)
    <3>1. (i + 1) - i = 1 /\ (j + 1) - j = 1
      BY <2>1
    <3>2. \A o \in 0..1 - 1 : i + o = i /\ j + o = j
      BY <2>1
    <3>. QED  BY <2>2, <3>1, <3>2 DEF SameRun
  <2>. QED  BY <1>6, <1>9, <2>1, <2>3
<1>10. CASE k = 0 /\ r # 0 /\ Pairs(m, K, G, r, j)
  BY <1>4, <1>10, PlaceFacts, Injective DEF Pairs
<1>11. CASE r = 0 /\ k # 0 /\ Pairs(n, L, F, k, i)
  BY <1>4, <1>11, PlaceFacts, Injective DEF Pairs
<1>12. CASE k # 0 /\ r # 0 /\ Pairs(n, L, F, k, i) /\ Pairs(m, K, G, r, j)
  <2> DEFINE x == 2 * i - 1
             y == 2 * j - 1
  <2>1. /\ k - 1 \in Nat /\ r - 1 \in Nat /\ (k - 1) + (r - 1) < k + r
        /\ i \in Nat /\ j \in Nat
        /\ x + 1 = 2 * i /\ y + 1 = 2 * j
        /\ 2 * i + 1 = (2 * i) + 1 /\ 2 * j + 1 = (2 * j) + 1
    BY <1>4, <1>12, PlaceFacts
  <2>2. /\ Place(n, L, k - 1, x) /\ Place(n, L, k - 1, 2 * i)
        /\ Place(m, K, r - 1, y) /\ Place(m, K, r - 1, 2 * j)
        /\ L[k - 1][x] = K[r - 1][y] /\ L[k - 1][2 * i] = K[r - 1][2 * j]
    <3>1. NodeHash(L[k - 1][x], L[k - 1][2 * i])
            = NodeHash(K[r - 1][y], K[r - 1][2 * j])
      BY <1>4, <1>12 DEF Pairs
    <3>2. L[k - 1][x] = K[r - 1][y] /\ L[k - 1][2 * i] = K[r - 1][2 * j]
      BY <3>1, Injective
    <3>. QED  BY <1>12, <3>2 DEF Pairs
  <2>. HIDE DEF x, y
  <2>3. SameRun(s, F[k - 1][x], F[k - 1][x + 1], t, G[r - 1][y], G[r - 1][y + 1])
    BY <1>5, <2>1, <2>2
  <2>4. SameRun(s, F[k - 1][2 * i], F[k - 1][2 * i + 1],
                t, G[r - 1][2 * j], G[r - 1][2 * j + 1])
    BY <1>5, <2>1, <2>2
  <2>5. /\ F[k - 1][x] \in Nat /\ F[k - 1][2 * i] \in Nat
        /\ F[k - 1][2 * i + 1] \in Nat
        /\ G[r - 1][y] \in Nat /\ G[r - 1][2 * j] \in Nat
        /\ G[r - 1][2 * j + 1] \in Nat
    BY <2>2, PlaceFacts
  <2>6. SameRun(s, F[k - 1][x], F[k - 1][2 * i + 1],
                t, G[r - 1][y], G[r - 1][2 * j + 1])
    BY <2>1, <2>3, <2>4, <2>5, RunsJoin
  <2>. QED  BY <1>6, <1>12, <2>6 DEF Pairs, x, y
<1>. QED  BY <1>4, <1>7, <1>8, <1>9, <1>10, <1>11, <1>12, PlacesBelow

(* The tree of a batch with its root at the top.                           *)
LEMMA TreeOfBatch ==
    ASSUME NEW s, IsSeq(s), Len(s) > 0
    PROVE  \E L, F : /\ Tree(s, Len(s), L, F) /\ Place(Len(s), L, Len(s), 1)
                     /\ compute_batch_root(s) = L[Len(s)][1]
                     /\ F[Len(s)][1] = 1 /\ F[Len(s)][2] = Len(s) + 1
<1> DEFINE n == Len(s)
<1>1. n \in Nat
  BY SeqDomain
<1>2. PICK L : Levels(s, n, L) /\ compute_batch_root(s) = L[n][1]
  BY <1>1, RootOfLevels
<1>3. PICK F : Spans(s, n, L, F)
  BY <1>1, SpansExist
<1>4. Tree(s, n, L, F) /\ n \in 0..n
  BY <1>1, <1>2, <1>3 DEF Tree
<1>5. \A k \in 0..n : LevelIs(s, L, k) /\ SpansAt(s, L, F, k)
  BY <1>1, <1>2, <1>3, LevelsAre, SpansAre
<1>6. Len(L[n]) = 1
  BY <1>1, <1>4, <1>5 DEF LevelIs
<1>7. F[n][1] = 1 /\ F[n][1 + 1] = n + 1
  BY <1>4, <1>5, <1>6 DEF SpansAt
<1>8. Place(n, L, n, 1)
  BY <1>4, <1>6 DEF Place
<1>. QED  BY <1>2, <1>4, <1>7, <1>8

(* compute_batch_root is injective: one root, one batch, whatever the      *)
(* number of its receipts, with promoted nodes or without.  An anchored    *)
(* root thus stands for one sequence of receipt hashes (merkle.py:13-14,   *)
(* 44-55; two digests are equal only if they were computed from equal      *)
(* inputs).                                                                *)
THEOREM RootBindsBatch ==
    ASSUME NEW s, NEW t, IsSeq(s), IsSeq(t), Len(s) > 0, Len(t) > 0,
           compute_batch_root(s) = compute_batch_root(t)
    PROVE  s = t
<1>1. PICK L, F : /\ Tree(s, Len(s), L, F) /\ Place(Len(s), L, Len(s), 1)
                  /\ compute_batch_root(s) = L[Len(s)][1]
                  /\ F[Len(s)][1] = 1 /\ F[Len(s)][2] = Len(s) + 1
  BY TreeOfBatch
<1>2. PICK K, G : /\ Tree(t, Len(t), K, G) /\ Place(Len(t), K, Len(t), 1)
                  /\ compute_batch_root(t) = K[Len(t)][1]
                  /\ G[Len(t)][1] = 1 /\ G[Len(t)][2] = Len(t) + 1
  BY TreeOfBatch
<1>3. SameRun(s, F[Len(s)][1], F[Len(s)][1 + 1], t, G[Len(t)][1], G[Len(t)][1 + 1])
  BY <1>1, <1>2, SameNodesSameRuns
<1>4. SameRun(s, 1, Len(s) + 1, t, 1, Len(t) + 1)
  BY <1>1, <1>2, <1>3
<1>5. /\ Len(s) \in Nat /\ Len(t) \in Nat
      /\ DOMAIN s = 1..Len(s) /\ DOMAIN t = 1..Len(t)
  BY SeqDomain
<1>6. Len(s) = Len(t) /\ \A d \in 0..Len(s) - 1 : s[1 + d] = t[1 + d]
  BY <1>4, <1>5 DEF SameRun
<1>7. \A i \in 1..Len(s) : s[i] = t[i]
  <2>. SUFFICES ASSUME NEW i \in 1..Len(s) PROVE s[i] = t[i]
    OBVIOUS
  <2>1. i - 1 \in 0..Len(s) - 1 /\ 1 + (i - 1) = i
    BY <1>5
  <2>. QED  BY <1>6, <2>1
<1>8. s = [i \in 1..Len(s) |-> s[i]] /\ t = [i \in 1..Len(t) |-> t[i]]
  BY <1>5 DEF IsSeq
<1>. QED  BY <1>6, <1>7, <1>8

-----------------------------------------------------------------------------
(* The walk of verify_merkle_proof with a batch size, as the function of   *)
(* its rounds.                                                             *)
Walk(start, path, n, w) ==
    w = [k \in 0..n |-> IF k = 0 THEN start ELSE WalkStep(w[k - 1], path)]

LEMMA WalkExists ==
    ASSUME NEW start, NEW path, NEW n \in Nat
    PROVE  \E w : Walk(start, path, n, w)
<1> DEFINE T == {m \in Nat : ~\E w : Walk(start, path, m, w)}
<1>1. SUFFICES ASSUME T # {} PROVE FALSE
  OBVIOUS
<1>2. PICK m \in T : \A y \in T : m <= y
  BY <1>1, LeastNat
<1>3. m # 0
  <2>. SUFFICES ASSUME m = 0 PROVE FALSE
    OBVIOUS
  <2> DEFINE w == [k \in 0..0 |-> start]
  <2>1. Walk(start, path, 0, w)
    BY DEF Walk
  <2>. QED  BY <1>2, <2>1
<1>4. m - 1 \in Nat /\ m - 1 \notin T
  BY <1>2, <1>3
<1>5. PICK g : Walk(start, path, m - 1, g)
  BY <1>4
<1> DEFINE w == [k \in 0..m |-> IF k = m THEN WalkStep(g[m - 1], path) ELSE g[k]]
<1>6. Walk(start, path, m, w)
  <2>1. ASSUME NEW k \in 0..m
        PROVE  w[k] = IF k = 0 THEN start ELSE WalkStep(w[k - 1], path)
    <3>1. CASE k = m
      BY <1>2, <1>3, <3>1
    <3>2. CASE k # m
      <4>1. k \in 0..m - 1
        BY <1>2, <3>2
      <4>2. g[k] = IF k = 0 THEN start ELSE WalkStep(g[k - 1], path)
        BY <1>5, <4>1 DEF Walk
      <4>3. k # 0 => w[k - 1] = g[k - 1]
        BY <1>2, <4>1
      <4>. QED  BY <1>2, <3>2, <4>2, <4>3
    <3>. QED  BY <3>1, <3>2
  <2>2. w = [k \in 0..m |-> w[k]]
    OBVIOUS
  <2> HIDE DEF w
  <2>. QED  BY <2>1, <2>2 DEF Walk
<1>. QED  BY <1>2, <1>6

StartAt(hash, index, size) ==
    [current |-> LeafHash(hash), index |-> index, size |-> size, used |-> 0,
     valid |-> TRUE]

VerifiedBy(hash, x, path, root, size, w) ==
    verify_merkle_proof(hash, x, path, root, size)
      <=> /\ IsHex(hash) /\ x \in 0..size - 1
          /\ w[size].valid /\ w[size].used = Len(path)
          /\ w[size].current = root

LEMMA VerifyIsWalk ==
    ASSUME NEW hash, NEW x, NEW path, NEW root, NEW size \in Nat
    PROVE  \E w : /\ Walk(StartAt(StripPrefix(hash), x, size), path, size, w)
                  /\ VerifiedBy(hash, x, path, root, size, w)
<1> DEFINE start == StartAt(StripPrefix(hash), x, size)
           walk  == CHOOSE w : Walk(start, path, size, w)
<1>1. Walk(start, path, size, walk)
  BY WalkExists
<1>2. VerifiedBy(hash, x, path, root, size, walk)
  BY DEF verify_merkle_proof, Walk, StartAt, VerifiedBy
<1>. QED  BY <1>1, <1>2

(* At the root, or after a step that was refused, nothing changes.         *)
LEMMA WalkStays ==
    ASSUME NEW start, NEW path, NEW n \in Nat, NEW w, Walk(start, path, n, w),
           NEW k \in 0..n, w[k].size <= 1 \/ ~w[k].valid
    PROVE  w[n] = w[k]
<1> DEFINE S == {j \in 0..n - k : w[k + j] = w[k]}
<1>1. n - k \in Nat /\ k \in Nat /\ k <= n
  OBVIOUS
<1>2. 0 \in S
  BY <1>1
<1>3. ASSUME NEW j \in 1..n - k, j - 1 \in S
      PROVE  j \in S
  <2>1. k + j \in 0..n /\ k + j # 0 /\ (k + j) - 1 = k + (j - 1) /\ j \in 0..n - k
    BY <1>1
  <2>2. w[k + j] = WalkStep(w[k + (j - 1)], path)
    BY <2>1 DEF Walk
  <2>3. w[k + (j - 1)] = w[k]
    BY <1>3
  <2>4. WalkStep(w[k], path) = w[k]
    BY DEF WalkStep
  <2>. QED  BY <2>1, <2>2, <2>3, <2>4
<1>4. \A j \in 0..n - k : j \in S
  <2> HIDE DEF S
  <2>. QED  BY <1>1, <1>2, <1>3, UpTo
<1>5. n - k \in 0..n - k /\ k + (n - k) = n
  BY <1>1
<1>. QED  BY <1>4, <1>5

(* A round of a walk goes up from a place of the tree of that size to the  *)
(* place above it: unchanged from a last node that is promoted, hashed on  *)
(* the left or on the right of something otherwise.                        *)
Rises(K, w, k) ==
    LET y == w[k - 1].index + 1
        j == w[k].index + 1
    IN  \/ /\ y = 2 * j - 1 /\ y = Len(K[k - 1])
           /\ w[k].current = w[k - 1].current
        \/ /\ y = 2 * j - 1 /\ 2 * j \in 1..Len(K[k - 1])
           /\ \E z : w[k].current = NodeHash(w[k - 1].current, z)
        \/ /\ y = 2 * j /\ 2 * j \in 1..Len(K[k - 1])
           /\ \E z : w[k].current = NodeHash(z, w[k - 1].current)

OnLevel(K, w, k) ==
    /\ w[k] = [current |-> w[k].current, index |-> w[k].index,
               size |-> w[k].size, used |-> w[k].used, valid |-> w[k].valid]
    /\ w[k].index \in Nat /\ w[k].index + 1 \in 1..Len(K[k])
    /\ w[k].size = Len(K[k])

LEMMA RoundRises ==
    ASSUME NEW t, IsSeq(t), Len(t) > 0, NEW n \in Nat, NEW K, Levels(t, n, K),
           NEW k \in 1..n, NEW w, NEW path,
           OnLevel(K, w, k - 1), w[k - 1].valid \in BOOLEAN,
           w[k] = WalkStep(w[k - 1], path)
    PROVE  /\ w[k].valid \in BOOLEAN
           /\ w[k].valid => /\ w[k - 1].valid /\ OnLevel(K, w, k)
                            /\ Rises(K, w, k)
<1> DEFINE v   == w[k - 1]
           low == Len(K[k - 1])
<1>1. low \in Nat \ {0} /\ Len(K[k]) = Half(low)
  <2>1. K[k] = NextLevel(K[k - 1])
    <3>1. k \in 0..n /\ k # 0
      OBVIOUS
    <3>. QED  BY <3>1 DEF Levels
  <2>2. k - 1 \in 0..n
    OBVIOUS
  <2>3. LevelIs(t, K, k - 1)
    BY <2>2, LevelsAre
  <2>. QED  BY <2>1, <2>3, NextLevelIs DEF LevelIs
<1>2. /\ v = [current |-> v.current, index |-> v.index, size |-> low,
              used |-> v.used, valid |-> v.valid]
      /\ v.index \in Nat /\ v.index < low /\ v.size = low
  BY <1>1 DEF OnLevel
<1> HIDE DEF v, low
<1>3. /\ v.index \div 2 \in Nat /\ v.index \div 2 + 1 \in 1..Half(low)
      /\ Half(low) \in Nat
  <2> DEFINE y == v.index
  <2>1. y \in Nat /\ low \in Nat /\ y < low
    BY <1>1, <1>2
  <2> HIDE DEF y
  <2>2. Half(low) \in Nat /\ y \div 2 \in Nat
    BY <2>1 DEF Half
  <2>3. y \div 2 + 1 <= Half(low)
    BY <2>1 DEF Half
  <2>. QED  BY <2>2, <2>3 DEF y
<1>4. CASE v.size <= 1 \/ ~v.valid
  <2>1. w[k] = v
    BY <1>4 DEF WalkStep, v
  <2>2. v.valid \in BOOLEAN
    BY DEF v
  <2>3. ASSUME v.valid
        PROVE  OnLevel(K, w, k) /\ Rises(K, w, k)
    <3>1. low = 1 /\ Half(low) = 1 /\ v.index = 0
      BY <1>1, <1>2, <1>4, <2>3 DEF Half
    <3>2. OnLevel(K, w, k)
      BY <1>1, <1>2, <2>1, <3>1 DEF OnLevel
    <3>3. Rises(K, w, k)
      BY <2>1, <3>1 DEF Rises, v, low
    <3>. QED  BY <3>2, <3>3
  <2>. QED  BY <2>1, <2>2, <2>3 DEF v
<1>5. CASE v.size > 1 /\ v.valid /\ Promoted(v)
  <2>1. w[k] = Ascend(v)
    BY <1>1, <1>2, <1>5 DEF WalkStep, v
  <2>2. w[k] = [current |-> v.current, index |-> v.index \div 2,
                size |-> Half(low), used |-> v.used, valid |-> v.valid]
    BY <1>2, <2>1 DEF Ascend
  <2>3. v.index = low - 1 /\ low % 2 = 1
    BY <1>2, <1>5 DEF Promoted
  <2>4. v.index + 1 = 2 * (v.index \div 2 + 1) - 1
    BY <1>1, <2>3
  <2>5. OnLevel(K, w, k)
    BY <1>1, <1>3, <2>2 DEF OnLevel
  <2>6. Rises(K, w, k)
    <3>1. w[k].index = v.index \div 2 /\ w[k].current = v.current
          /\ v.index + 1 = low
      BY <1>1, <2>2, <2>3
    <3>. QED  BY <2>4, <3>1 DEF Rises, v, low
  <2>. QED  BY <1>5, <2>2, <2>5, <2>6 DEF v
<1>6. CASE v.size > 1 /\ v.valid /\ ~Promoted(v)
  <2>1. CASE v.used < Len(path) /\ ValidStep(path[v.used + 1], v.index)
    <3> DEFINE step == path[v.used + 1]
    <3>1. w[k] = Ascend([v EXCEPT !.current = Combine(v, step), !.used = @ + 1])
      BY <1>1, <1>2, <1>6, <2>1 DEF WalkStep, v
    <3>2. w[k] = [current |-> Combine(v, step), index |-> v.index \div 2,
                  size |-> Half(low), used |-> v.used + 1, valid |-> v.valid]
      BY <1>2, <3>1 DEF Ascend
    <3>3. OnLevel(K, w, k)
      BY <1>1, <1>3, <3>2 DEF OnLevel
    <3>4. /\ w[k].index = v.index \div 2 /\ w[k].current = Combine(v, step)
          /\ w[k].valid = v.valid
      BY <3>2
    <3> HIDE DEF step
    <3>5. ~(v.index = low - 1 /\ low % 2 = 1)
      BY <1>2, <1>6 DEF Promoted
    <3>6. CASE v.index % 2 = 1
      <4>1. v.index + 1 = 2 * (v.index \div 2 + 1) /\ v.index + 1 \in 1..low
        BY <1>1, <1>2, <3>6
      <4>2. Combine(v, step) = NodeHash(Sibling(step), v.current)
        BY <3>6 DEF Combine
      <4>3. Rises(K, w, k)
        BY <3>4, <4>1, <4>2 DEF Rises, v, low
      <4>. QED  BY <1>6, <3>3, <3>4, <4>3 DEF v
    <3>7. CASE v.index % 2 # 1
      <4>1. /\ v.index + 1 = 2 * (v.index \div 2 + 1) - 1
            /\ 2 * (v.index \div 2 + 1) \in 1..low
        <5> DEFINE y == v.index
        <5>1. /\ y \in Nat /\ low \in Nat /\ y < low /\ y % 2 # 1
              /\ ~(y = low - 1 /\ low % 2 = 1)
          BY <1>1, <1>2, <3>5, <3>7
        <5> HIDE DEF y
        <5>2. y = 2 * (y \div 2)
          BY <5>1
        <5>3. y + 2 <= low
          BY <5>1
        <5> DEFINE q == y \div 2
        <5>4. q \in Nat /\ y = 2 * q
          BY <5>1, <5>2
        <5> HIDE DEF q
        <5>5. y + 1 = 2 * (q + 1) - 1 /\ 2 * (q + 1) \in 1..low
          BY <5>1, <5>3, <5>4
        <5>. QED  BY <5>5 DEF y, q
      <4>2. Combine(v, step) = NodeHash(v.current, Sibling(step))
        BY <3>7 DEF Combine
      <4>3. Rises(K, w, k)
        BY <3>4, <4>1, <4>2 DEF Rises, v, low
      <4>. QED  BY <1>6, <3>3, <3>4, <4>3 DEF v
    <3>. QED  BY <3>6, <3>7
  <2>2. CASE ~(v.used < Len(path) /\ ValidStep(path[v.used + 1], v.index))
    <3>1. w[k] = [v EXCEPT !.valid = FALSE]
      BY <1>1, <1>2, <1>6, <2>2 DEF WalkStep, v
    <3>2. w[k].valid = FALSE
      BY <1>2, <3>1
    <3>. QED  BY <3>2
  <2>. QED  BY <2>1, <2>2
<1>. QED  BY <1>1, <1>2, <1>4, <1>5, <1>6

(* An accepted proof rises from its index to the top of a tree of its      *)
(* size, and from the leaf to the root.                                    *)
RisesTo(K, size, w, hash, x, root) ==
    /\ w[0].index = x /\ w[0].current = LeafHash(hash)
    /\ \A k \in 0..size : OnLevel(K, w, k)
    /\ \A k \in 1..size : Rises(K, w, k)
    /\ w[size].current = root

LEMMA AcceptedRises ==
    ASSUME NEW t, IsSeq(t), Len(t) > 0, NEW K, Levels(t, Len(t), K),
           NEW hash, NEW x, NEW path, NEW root,
           verify_merkle_proof(hash, x, path, root, Len(t))
    PROVE  \E w : RisesTo(K, Len(t), w, StripPrefix(hash), x, root)
<1> DEFINE n == Len(t)
<1>1. n \in Nat \ {0} /\ Len(K[0]) = n
  <2>1. Len(t) \in Nat
    BY SeqDomain
  <2>2. Len(K[0]) = Len(t)
    BY <2>1, LevelsAre
  <2>. QED  BY <2>1, <2>2
<1>2. PICK w : /\ Walk(StartAt(StripPrefix(hash), x, n), path, n, w)
               /\ x \in 0..n - 1 /\ w[n].valid /\ w[n].current = root
  BY <1>1, VerifyIsWalk DEF VerifiedBy
<1>3. w[0] = StartAt(StripPrefix(hash), x, n)
  BY <1>1, <1>2 DEF Walk
<1>4. \A k \in 1..n : w[k] = WalkStep(w[k - 1], path)
  <2>. SUFFICES ASSUME NEW k \in 1..n PROVE w[k] = WalkStep(w[k - 1], path)
    OBVIOUS
  <2>1. k \in 0..n /\ k # 0
    OBVIOUS
  <2>. QED  BY <1>2, <2>1 DEF Walk
<1> DEFINE S == {k \in 0..n : /\ w[k].valid \in BOOLEAN
                              /\ w[k].valid => /\ \A r \in 0..k : OnLevel(K, w, r)
                                               /\ \A r \in 1..k : Rises(K, w, r)}
<1>5. 0 \in S
  <2>1. OnLevel(K, w, 0) /\ w[0].valid = TRUE
    BY <1>1, <1>2, <1>3 DEF StartAt, OnLevel
  <2>2. 0 \in 0..n /\ 0..0 = {0} /\ 1..0 = {}
    BY <1>1
  <2>. QED  BY <2>1, <2>2
<1>6. ASSUME NEW k \in 1..n, k - 1 \in S
      PROVE  k \in S
  <2>1. k \in 0..n /\ w[k - 1].valid \in BOOLEAN
    BY <1>6
  <2>2. CASE w[k - 1].valid
    <3>1. OnLevel(K, w, k - 1)
      BY <1>6, <2>2
    <3>2. /\ w[k].valid \in BOOLEAN
          /\ w[k].valid => OnLevel(K, w, k) /\ Rises(K, w, k)
      BY <1>1, <1>4, <2>1, <3>1, RoundRises
    <3>3. /\ \A r \in 0..k : r \in 0..k - 1 \/ r = k
          /\ \A r \in 1..k : r \in 1..k - 1 \/ r = k
      OBVIOUS
    <3>4. /\ \A r \in 0..k - 1 : OnLevel(K, w, r)
          /\ \A r \in 1..k - 1 : Rises(K, w, r)
      BY <1>6, <2>2
    <3>. QED  BY <2>1, <3>2, <3>3, <3>4
  <2>3. CASE ~w[k - 1].valid
    <3>1. w[k] = w[k - 1]
      BY <1>4, <2>3 DEF WalkStep
    <3>. QED  BY <2>1, <2>3, <3>1
  <2>. QED  BY <2>2, <2>3
<1>7. n \in S
  <2>1. \A k \in 0..n : k \in S
    <3> HIDE DEF S
    <3>. QED  BY <1>1, <1>5, <1>6, UpTo
  <2>. QED  BY <1>1, <2>1
<1>8. w[0].index = x /\ w[0].current = LeafHash(StripPrefix(hash))
  BY <1>3 DEF StartAt
<1>. QED  BY <1>2, <1>7, <1>8 DEF RisesTo

-----------------------------------------------------------------------------
Distinct(s) == \A a, b \in DOMAIN s : s[a] = s[b] => a = b

(* A walk that meets a node of the batch's tree began under it, when no    *)
(* two hashes of the batch are equal.                                      *)
LEMMA MeetsAboveItself ==
    ASSUME NEW s, NEW n, NEW L, NEW F, Tree(s, n, L, F), Distinct(s),
           NEW size \in Nat, NEW K, NEW w, NEW m \in DOMAIN s, NEW x, NEW root,
           RisesTo(K, size, w, s[m], x, root)
    PROVE  \A k, i, r :
              Place(n, L, k, i) /\ r \in 0..size /\ w[r].current = L[k][i]
                => F[k][i] <= m /\ m < F[k][i + 1]
<1> DEFINE Bad(k, i, r) ==
              /\ Place(n, L, k, i) /\ r \in 0..size /\ w[r].current = L[k][i]
              /\ ~(F[k][i] <= m /\ m < F[k][i + 1])
           T == {d \in Nat : \E k, i, r : Bad(k, i, r) /\ d = k + r}
<1>0. m \in Nat /\ IsSeq(s) /\ DOMAIN s = 1..Len(s)
  BY SeqDomain DEF Tree
<1>1. SUFFICES ASSUME T # {} PROVE FALSE
  <2>1. ASSUME NEW k, NEW i, NEW r, Bad(k, i, r)
        PROVE  k + r \in T
    <3>1. k \in Nat /\ r \in Nat
      BY <2>1, PlaceFacts
    <3>2. k + r \in Nat
      BY <3>1
    <3> HIDE DEF Bad
    <3>. QED  BY <2>1, <3>2
  <2>2. ~\E k, i, r : Bad(k, i, r)
    <3> HIDE DEF Bad, T
    <3>. QED  BY <1>1, <2>1
  <2>. QED  BY <2>2
<1>2. PICK d \in T : \A e \in T : d <= e
  <2>1. T \subseteq Nat
    OBVIOUS
  <2> HIDE DEF T
  <2>. QED  BY <1>1, <2>1, LeastNat
<1>3. PICK k, i, r : Bad(k, i, r) /\ d = k + r
  <2> HIDE DEF Bad
  <2>. QED  BY <1>2
<1>4. /\ k \in Nat /\ r \in Nat /\ r \in 0..size /\ Place(n, L, k, i)
      /\ w[r].current = L[k][i]
  BY <1>3, PlaceFacts
<1>5. ASSUME NEW a \in Nat, NEW b, NEW e \in Nat, a + e < k + r,
             Place(n, L, a, b), e \in 0..size, w[e].current = L[a][b]
      PROVE  F[a][b] <= m /\ m < F[a][b + 1]
  <2>1. SUFFICES ASSUME Bad(a, b, e) PROVE FALSE
    BY <1>5
  <2>2. a + e \in T
    <3>1. a + e \in Nat
      OBVIOUS
    <3> HIDE DEF Bad
    <3>. QED  BY <2>1, <3>1
  <2>. HIDE DEF T, Bad
  <2>. QED  BY <1>2, <1>3, <1>4, <1>5, <2>2
<1>6. ~(F[k][i] <= m /\ m < F[k][i + 1])
  BY <1>3
<1>. HIDE DEF Bad, T
<1>7. ASSUME r # 0
      PROVE  r - 1 \in Nat /\ r - 1 \in 0..size /\ k + (r - 1) < k + r /\ r \in 1..size
  BY <1>4, <1>7
<1>8. CASE k # 0 /\ Promotes(n, L, F, k, i)
  <2>1. k - 1 \in Nat /\ (k - 1) + r < k + r /\ (2 * i - 1) + 1 = 2 * i
    BY <1>4, <1>8, PlaceFacts
  <2>2. F[k - 1][2 * i - 1] <= m /\ m < F[k - 1][(2 * i - 1) + 1]
    BY <1>4, <1>5, <1>8, <2>1 DEF Promotes
  <2>. QED  BY <1>6, <1>8, <2>1, <2>2 DEF Promotes
<1>9. CASE r # 0 /\ w[r].current = w[r - 1].current
  BY <1>4, <1>5, <1>6, <1>7, <1>9
<1>10. CASE r # 0 /\ \E z : \/ w[r].current = NodeHash(w[r - 1].current, z)
                             \/ w[r].current = NodeHash(z, w[r - 1].current)
  <2>1. PICK z : \/ w[r].current = NodeHash(w[r - 1].current, z)
                 \/ w[r].current = NodeHash(z, w[r - 1].current)
    BY <1>10
  <2>2. CASE k = 0
    BY <1>4, <2>1, <2>2, PlaceFacts, Injective
  <2>3. CASE k # 0 /\ Pairs(n, L, F, k, i)
    <3> DEFINE y == 2 * i - 1
    <3>1. /\ k - 1 \in Nat /\ (k - 1) + (r - 1) < k + r /\ i \in Nat
          /\ y + 1 = 2 * i /\ 2 * i + 1 = (2 * i) + 1
      BY <1>4, <2>3, PlaceFacts
    <3> HIDE DEF y
    <3>2. /\ Place(n, L, k - 1, y) /\ Place(n, L, k - 1, 2 * i)
          /\ L[k][i] = NodeHash(L[k - 1][y], L[k - 1][2 * i])
          /\ F[k][i] = F[k - 1][y] /\ F[k][i + 1] = F[k - 1][2 * i + 1]
      BY <2>3 DEF Pairs, y
    <3>3. w[r - 1].current = L[k - 1][y] \/ w[r - 1].current = L[k - 1][2 * i]
      BY <1>4, <2>1, <3>2, Injective
    <3>4. /\ F[k - 1][y] \in Nat /\ F[k - 1][2 * i] \in Nat
          /\ F[k - 1][2 * i + 1] \in Nat
          /\ F[k - 1][y] < F[k - 1][2 * i] /\ F[k - 1][2 * i] < F[k - 1][2 * i + 1]
      <4>1. F[k - 1][y] \in Nat /\ F[k - 1][y] < F[k - 1][y + 1]
        BY <1>4, <3>2, PlaceFacts
      <4>2. /\ F[k - 1][2 * i] \in Nat /\ F[k - 1][2 * i + 1] \in Nat
            /\ F[k - 1][2 * i] < F[k - 1][2 * i + 1]
        BY <1>4, <3>2, PlaceFacts
      <4>. QED  BY <3>1, <4>1, <4>2
    <3>5. w[r - 1].current = L[k - 1][y]
            => F[k - 1][y] <= m /\ m < F[k - 1][y + 1]
      BY <1>5, <1>7, <1>10, <3>1, <3>2
    <3>6. w[r - 1].current = L[k - 1][2 * i]
            => F[k - 1][2 * i] <= m /\ m < F[k - 1][2 * i + 1]
      BY <1>5, <1>7, <1>10, <3>1, <3>2
    <3>. QED  BY <1>0, <1>6, <3>1, <3>2, <3>3, <3>4, <3>5, <3>6
  <2>. QED  BY <1>4, <1>8, <2>2, <2>3, PlacesBelow
<1>11. CASE r = 0
  <2>1. w[0].current = LeafHash(s[m])
    BY DEF RisesTo
  <2>2. CASE k = 0
    <3>1. /\ L[0][i] = LeafHash(s[i]) /\ F[0][i] = i /\ F[0][i + 1] = i + 1
          /\ i \in 1..Len(s)
      BY <1>4, <2>2, PlaceFacts
    <3>2. s[i] = s[m]
      BY <1>4, <1>11, <2>1, <2>2, <3>1, Injective
    <3>3. i = m
      BY <1>0, <3>1, <3>2 DEF Distinct
    <3>. QED  BY <1>0, <1>6, <2>2, <3>1, <3>3
  <2>3. CASE k # 0 /\ Pairs(n, L, F, k, i)
    BY <1>4, <1>11, <2>1, <2>3, Injective DEF Pairs
  <2>. QED  BY <1>4, <1>8, <2>2, <2>3, PlacesBelow
<1>12. r # 0 => Rises(K, w, r)
  BY <1>7 DEF RisesTo
<1>. QED  BY <1>9, <1>10, <1>11, <1>12 DEF Rises

(* When the walks of all leaves under a node meet it at one place of the   *)
(* tree they believe in, the two places have equally many leaves under     *)
(* them, in the same order.                                                *)
Span(F, k, i) == F[k][i]..F[k][i + 1] - 1

Meet(L, F, k, i, W, r, j) ==
    \A m \in Span(F, k, i) : W[m][r].index + 1 = j /\ W[m][r].current = L[k][i]

SamePlaces(F, k, i, X, G, r, j) ==
    /\ G[r][j + 1] - G[r][j] = F[k][i + 1] - F[k][i]
    /\ \A m \in Span(F, k, i) : X[m] + 1 = G[r][j] + (m - F[k][i])

(* All leaves of a batch of different hashes have walks in a tree of one   *)
(* size: L and F are the tree of the batch, K and G the other one.         *)
AllProven(s, n, L, F, t, K, G, X, W) ==
    /\ Tree(s, n, L, F) /\ Tree(t, Len(t), K, G) /\ Distinct(s)
    /\ \A m \in DOMAIN s :
          RisesTo(K, Len(t), W[m], s[m], X[m], L[n][1])

(* A step down on both sides.                                              *)
LEMMA MeetBelow ==
    ASSUME NEW s, NEW n, NEW L, NEW F, NEW t, NEW K, NEW G, NEW X, NEW W,
           AllProven(s, n, L, F, t, K, G, X, W),
           NEW k, NEW i, NEW r, NEW j,
           Place(n, L, k, i), Place(Len(t), K, r, j), r # 0,
           Meet(L, F, k, i, W, r, j)
    PROVE  /\ Promotes(Len(t), K, G, r, j) =>
                 Meet(L, F, k, i, W, r - 1, 2 * j - 1)
           /\ Pairs(Len(t), K, G, r, j) /\ k # 0 /\ Pairs(n, L, F, k, i) =>
                 /\ Meet(L, F, k - 1, 2 * i - 1, W, r - 1, 2 * j - 1)
                 /\ Meet(L, F, k - 1, 2 * i, W, r - 1, 2 * j)
           /\ Pairs(Len(t), K, G, r, j) => k # 0
<1>0. /\ k \in Nat /\ r \in Nat /\ i \in Nat /\ j \in Nat
      /\ F[k][i] \in Nat /\ F[k][i + 1] \in Nat
      /\ F[k][i] < F[k][i + 1] /\ 1 <= F[k][i] /\ F[k][i + 1] <= Len(s) + 1
      /\ Len(s) \in Nat /\ DOMAIN s = 1..Len(s) /\ Len(t) \in Nat
  BY PlaceFacts, SeqDomain DEF AllProven, Tree
<1>1. ASSUME NEW m \in Span(F, k, i)
      PROVE  /\ m \in DOMAIN s /\ m \in Nat /\ F[k][i] <= m /\ m < F[k][i + 1]
             /\ RisesTo(K, Len(t), W[m], s[m], X[m], L[n][1])
             /\ Rises(K, W[m], r) /\ OnLevel(K, W[m], r - 1)
             /\ W[m][r].index + 1 = j /\ W[m][r].current = L[k][i]
  <2>1. m \in DOMAIN s /\ m \in Nat /\ F[k][i] <= m /\ m < F[k][i + 1]
    <3> DEFINE a == F[k][i]
               b == F[k][i + 1]
    <3>1. /\ a \in Nat /\ b \in Nat /\ 1 <= a /\ b <= Len(s) + 1
          /\ Len(s) \in Nat /\ m \in a..b - 1
      BY <1>0 DEF Span
    <3> HIDE DEF a, b
    <3>2. m \in 1..Len(s) /\ m \in Nat /\ a <= m /\ m < b
      BY <3>1
    <3>. QED  BY <1>0, <3>2 DEF a, b
  <2>2. RisesTo(K, Len(t), W[m], s[m], X[m], L[n][1])
    BY <2>1 DEF AllProven
  <2>3. r \in 1..Len(t) /\ r - 1 \in 0..Len(t)
    BY <1>0 DEF Place
  <2>. QED  BY <2>1, <2>2, <2>3 DEF RisesTo, Meet
<1>2. ASSUME Promotes(Len(t), K, G, r, j)
      PROVE  Meet(L, F, k, i, W, r - 1, 2 * j - 1)
  <2>. SUFFICES ASSUME NEW m \in Span(F, k, i)
                PROVE  /\ W[m][r - 1].index + 1 = 2 * j - 1
                       /\ W[m][r - 1].current = L[k][i]
    BY DEF Meet
  <2>1. 2 * j - 1 = Len(K[r - 1]) /\ 2 * j \notin 1..Len(K[r - 1])
    BY <1>0, <1>2 DEF Promotes
  <2>. QED  BY <1>1, <2>1 DEF Rises
<1>3. ASSUME Pairs(Len(t), K, G, r, j)
      PROVE  \A m \in Span(F, k, i) :
                \E z : \/ /\ W[m][r - 1].index + 1 = 2 * j - 1
                          /\ L[k][i] = NodeHash(W[m][r - 1].current, z)
                       \/ /\ W[m][r - 1].index + 1 = 2 * j
                          /\ L[k][i] = NodeHash(z, W[m][r - 1].current)
  <2>1. 2 * j - 1 # Len(K[r - 1])
    <3>1. 2 * j \in 1..Len(K[r - 1])
      BY <1>3 DEF Pairs, Place
    <3>. QED  BY <1>0, <3>1
  <2>. QED  BY <1>1, <2>1 DEF Rises
<1>4. ASSUME Pairs(Len(t), K, G, r, j)
      PROVE  k # 0
  <2>. SUFFICES ASSUME k = 0 PROVE FALSE
    OBVIOUS
  <2>1. L[0][i] = LeafHash(s[i])
    BY PlaceFacts DEF AllProven
  <2>2. F[k][i] \in Span(F, k, i)
    BY <1>0 DEF Span
  <2>. QED  BY <1>3, <1>4, <2>1, <2>2, Injective
<1>5. ASSUME Pairs(Len(t), K, G, r, j), k # 0, Pairs(n, L, F, k, i)
      PROVE  /\ Meet(L, F, k - 1, 2 * i - 1, W, r - 1, 2 * j - 1)
             /\ Meet(L, F, k - 1, 2 * i, W, r - 1, 2 * j)
  <2> DEFINE y == 2 * i - 1
             f == F[k - 1]
             l == L[k - 1]
  <2>1. /\ y + 1 = 2 * i /\ 2 * i + 1 = (2 * i) + 1
        /\ r - 1 \in 0..Len(t)
    <3>1. r \in 0..Len(t)
      BY DEF Place
    <3>. QED  BY <1>0, <3>1
  <2> HIDE DEF y
  <2>2. /\ Place(n, L, k - 1, y) /\ Place(n, L, k - 1, 2 * i)
        /\ L[k][i] = NodeHash(l[y], l[2 * i])
        /\ F[k][i] = f[y] /\ F[k][i + 1] = f[2 * i + 1]
    BY <1>5 DEF Pairs, y
  <2>3. /\ f[y] \in Nat /\ f[2 * i] \in Nat /\ f[2 * i + 1] \in Nat
        /\ f[y] < f[2 * i] /\ f[2 * i] < f[2 * i + 1]
    <3>0. Tree(s, n, L, F)
      BY DEF AllProven
    <3>1. f[y] \in Nat /\ f[y + 1] \in Nat /\ f[y] < f[y + 1]
      BY <2>2, <3>0, PlaceFacts
    <3>2. f[2 * i] \in Nat /\ f[2 * i + 1] \in Nat /\ f[2 * i] < f[2 * i + 1]
      BY <2>2, <3>0, PlaceFacts
    <3>. QED  BY <2>1, <3>1, <3>2
  <2>4. ASSUME NEW m \in Span(F, k, i)
        PROVE  /\ W[m][r - 1].current = l[y] => f[y] <= m /\ m < f[2 * i]
               /\ W[m][r - 1].current = l[2 * i] => f[2 * i] <= m /\ m < f[2 * i + 1]
    <3>1. /\ Tree(s, n, L, F) /\ m \in DOMAIN s /\ Distinct(s)
          /\ RisesTo(K, Len(t), W[m], s[m], X[m], L[n][1])
      BY <1>1 DEF AllProven
    <3>2. \A a, b, e : Place(n, L, a, b) /\ e \in 0..Len(t) /\ W[m][e].current = L[a][b]
                          => F[a][b] <= m /\ m < F[a][b + 1]
      BY <1>0, <3>1, MeetsAboveItself
    <3>. QED  BY <2>1, <2>2, <3>2
  <2>5. ASSUME NEW m \in Span(F, k, i)
        PROVE  /\ m \in Nat
               /\ \/ /\ W[m][r - 1].index + 1 = 2 * j - 1
                     /\ W[m][r - 1].current = l[y] /\ f[y] <= m /\ m < f[2 * i]
                  \/ /\ W[m][r - 1].index + 1 = 2 * j
                     /\ W[m][r - 1].current = l[2 * i]
                     /\ f[2 * i] <= m /\ m < f[2 * i + 1]
    <3>1. PICK z : \/ /\ W[m][r - 1].index + 1 = 2 * j - 1
                      /\ L[k][i] = NodeHash(W[m][r - 1].current, z)
                   \/ /\ W[m][r - 1].index + 1 = 2 * j
                      /\ L[k][i] = NodeHash(z, W[m][r - 1].current)
      BY <1>3, <1>5
    <3>2. \/ W[m][r - 1].index + 1 = 2 * j - 1 /\ W[m][r - 1].current = l[y]
          \/ W[m][r - 1].index + 1 = 2 * j /\ W[m][r - 1].current = l[2 * i]
      BY <2>2, <3>1, Injective
    <3>. QED  BY <1>1, <2>4, <3>2
  <2>6. ASSUME NEW m \in Span(F, k - 1, y)
        PROVE  /\ m \in Span(F, k, i)
               /\ W[m][r - 1].index + 1 = 2 * j - 1 /\ W[m][r - 1].current = l[y]
    <3>1. m \in f[y]..f[2 * i] - 1
      BY <2>1 DEF Span
    <3>2. m \in Span(F, k, i) /\ ~(f[2 * i] <= m)
      BY <2>2, <2>3, <3>1 DEF Span
    <3>. QED  BY <2>5, <3>2
  <2>7. ASSUME NEW m \in Span(F, k - 1, 2 * i)
        PROVE  /\ m \in Span(F, k, i)
               /\ W[m][r - 1].index + 1 = 2 * j /\ W[m][r - 1].current = l[2 * i]
    <3>1. m \in f[2 * i]..f[2 * i + 1] - 1
      BY <2>1 DEF Span
    <3>2. m \in Span(F, k, i) /\ ~(m < f[2 * i])
      BY <2>2, <2>3, <3>1 DEF Span
    <3>. QED  BY <2>5, <3>2
  <2>. QED  BY <2>6, <2>7 DEF Meet, y, l
<1>. QED  BY <1>2, <1>3, <1>4, <1>5

LEMMA MeetSamePlaces ==
    ASSUME NEW s, NEW n, NEW L, NEW F, NEW t, NEW K, NEW G, NEW X, NEW W,
           AllProven(s, n, L, F, t, K, G, X, W)
    PROVE  \A k, i, r, j :
              /\ Place(n, L, k, i) /\ Place(Len(t), K, r, j)
              /\ Meet(L, F, k, i, W, r, j)
              => SamePlaces(F, k, i, X, G, r, j)
<1> DEFINE Bad(k, i, r, j) ==
              /\ Place(n, L, k, i) /\ Place(Len(t), K, r, j)
              /\ Meet(L, F, k, i, W, r, j) /\ ~SamePlaces(F, k, i, X, G, r, j)
           T == {d \in Nat : \E k, i, r, j : Bad(k, i, r, j) /\ d = k + r}
<1>0. Tree(s, n, L, F) /\ Tree(t, Len(t), K, G)
  BY DEF AllProven
<1>1. SUFFICES ASSUME T # {} PROVE FALSE
  <2>1. ASSUME NEW k, NEW i, NEW r, NEW j, Bad(k, i, r, j)
        PROVE  k + r \in T
    <3>1. k \in Nat /\ r \in Nat
      BY <1>0, <2>1, PlaceFacts
    <3>2. k + r \in Nat
      BY <3>1
    <3> HIDE DEF Bad
    <3>. QED  BY <2>1, <3>2
  <2>2. ~\E k, i, r, j : Bad(k, i, r, j)
    <3> HIDE DEF Bad, T
    <3>. QED  BY <1>1, <2>1
  <2>. QED  BY <2>2
<1>2. PICK d \in T : \A e \in T : d <= e
  <2>1. T \subseteq Nat
    OBVIOUS
  <2> HIDE DEF T
  <2>. QED  BY <1>1, <2>1, LeastNat
<1>3. PICK k, i, r, j : Bad(k, i, r, j) /\ d = k + r
  <2> HIDE DEF Bad
  <2>. QED  BY <1>2
<1>4. /\ Place(n, L, k, i) /\ Place(Len(t), K, r, j)
      /\ Meet(L, F, k, i, W, r, j)
  BY <1>3
<1>5. /\ k \in Nat /\ r \in Nat /\ i \in Nat /\ j \in Nat
      /\ F[k][i] \in Nat /\ F[k][i + 1] \in Nat /\ F[k][i] < F[k][i + 1]
      /\ G[r][j] \in Nat /\ G[r][j + 1] \in Nat
      /\ F[k][i + 1] <= Len(s) + 1 /\ 1 <= F[k][i]
  <2>1. /\ k \in Nat /\ i \in Nat /\ F[k][i] \in Nat /\ F[k][i + 1] \in Nat
        /\ F[k][i] < F[k][i + 1] /\ F[k][i + 1] <= Len(s) + 1 /\ 1 <= F[k][i]
    BY <1>0, <1>4, PlaceFacts
  <2>2. r \in Nat /\ j \in Nat /\ G[r][j] \in Nat /\ G[r][j + 1] \in Nat
    BY <1>0, <1>4, PlaceFacts
  <2>. QED  BY <2>1, <2>2
<1>6. ASSUME NEW a \in Nat, NEW b, NEW e \in Nat, NEW c, a + e < k + r,
             Place(n, L, a, b), Place(Len(t), K, e, c), Meet(L, F, a, b, W, e, c)
      PROVE  SamePlaces(F, a, b, X, G, e, c)
  <2>1. SUFFICES ASSUME Bad(a, b, e, c) PROVE FALSE
    BY <1>6
  <2>2. a + e \in T
    <3>1. a + e \in Nat
      OBVIOUS
    <3> HIDE DEF Bad
    <3>. QED  BY <2>1, <3>1
  <2>. HIDE DEF T, Bad
  <2>. QED  BY <1>2, <1>3, <1>5, <1>6, <2>2
<1>7. ~SamePlaces(F, k, i, X, G, r, j)
  BY <1>3
<1>. HIDE DEF Bad, T
<1>8. CASE k # 0 /\ Promotes(n, L, F, k, i)
  <2> DEFINE y == 2 * i - 1
  <2>1. k - 1 \in Nat /\ (k - 1) + r < k + r /\ y + 1 = 2 * i
    BY <1>5, <1>8
  <2>2. /\ Place(n, L, k - 1, y) /\ L[k][i] = L[k - 1][y]
        /\ F[k][i] = F[k - 1][y] /\ F[k][i + 1] = F[k - 1][2 * i]
    BY <1>8 DEF Promotes
  <2> HIDE DEF y
  <2>3. Span(F, k - 1, y) = Span(F, k, i)
    BY <2>1, <2>2 DEF Span
  <2>4. Meet(L, F, k - 1, y, W, r, j)
    BY <1>4, <2>2, <2>3 DEF Meet
  <2>5. SamePlaces(F, k - 1, y, X, G, r, j)
    BY <1>4, <1>5, <1>6, <2>1, <2>2, <2>4
  <2>. QED  BY <1>7, <2>1, <2>2, <2>3, <2>5 DEF SamePlaces
<1>9. CASE r # 0 /\ Promotes(Len(t), K, G, r, j)
  <2> DEFINE y == 2 * j - 1
  <2>1. r - 1 \in Nat /\ k + (r - 1) < k + r /\ y + 1 = 2 * j
    BY <1>5, <1>9
  <2>2. /\ Place(Len(t), K, r - 1, y)
        /\ G[r][j] = G[r - 1][y] /\ G[r][j + 1] = G[r - 1][2 * j]
    BY <1>9 DEF Promotes
  <2>3. Meet(L, F, k, i, W, r - 1, y)
    BY <1>4, <1>9, MeetBelow
  <2> HIDE DEF y
  <2>4. SamePlaces(F, k, i, X, G, r - 1, y)
    BY <1>4, <1>5, <1>6, <2>1, <2>2, <2>3
  <2>. QED  BY <1>7, <2>1, <2>2, <2>4 DEF SamePlaces
<1>10. CASE k = 0 /\ r = 0
  <2>1. /\ F[0][i] = i /\ F[0][i + 1] = i + 1 /\ i \in 1..Len(s)
        /\ G[0][j] = j /\ G[0][j + 1] = j + 1
    BY <1>0, <1>4, <1>10, PlaceFacts
  <2>2. Span(F, 0, i) = {i}
    BY <1>5, <2>1 DEF Span
  <2>3. X[i] + 1 = j
    <3>1. W[i][0].index + 1 = j
      BY <1>4, <1>10, <2>2 DEF Meet
    <3>2. i \in DOMAIN s
      BY <1>0, <2>1, SeqDomain DEF Tree
    <3>3. RisesTo(K, Len(t), W[i], s[i], X[i], L[n][1])
      BY <3>2 DEF AllProven
    <3>. QED  BY <3>1, <3>3 DEF RisesTo
  <2>4. SamePlaces(F, 0, i, X, G, 0, j)
    <3>1. (i + 1) - i = (j + 1) - j /\ j + (i - i) = j
      BY <1>5
    <3>. QED  BY <2>1, <2>2, <2>3, <3>1 DEF SamePlaces
  <2>. QED  BY <1>7, <1>10, <2>4
<1>11. CASE r # 0 /\ Pairs(Len(t), K, G, r, j) /\ k # 0 /\ Pairs(n, L, F, k, i)
  <2> DEFINE x == 2 * i - 1
             y == 2 * j - 1
             f == F[k - 1]
             g == G[r - 1]
  <2>1. /\ k - 1 \in Nat /\ r - 1 \in Nat /\ (k - 1) + (r - 1) < k + r
        /\ x + 1 = 2 * i /\ y + 1 = 2 * j
        /\ 2 * i + 1 = (2 * i) + 1 /\ 2 * j + 1 = (2 * j) + 1
    BY <1>5, <1>11
  <2>2. /\ Place(n, L, k - 1, x) /\ Place(n, L, k - 1, 2 * i)
        /\ F[k][i] = f[x] /\ F[k][i + 1] = f[2 * i + 1]
        /\ Place(Len(t), K, r - 1, y) /\ Place(Len(t), K, r - 1, 2 * j)
        /\ G[r][j] = g[y] /\ G[r][j + 1] = g[2 * j + 1]
    BY <1>11 DEF Pairs
  <2>3. /\ Meet(L, F, k - 1, x, W, r - 1, y)
        /\ Meet(L, F, k - 1, 2 * i, W, r - 1, 2 * j)
    BY <1>4, <1>11, MeetBelow
  <2> HIDE DEF x, y
  <2>4. SamePlaces(F, k - 1, x, X, G, r - 1, y)
    BY <1>6, <2>1, <2>2, <2>3
  <2>5. SamePlaces(F, k - 1, 2 * i, X, G, r - 1, 2 * j)
    BY <1>6, <2>1, <2>2, <2>3
  <2>6. /\ f[x] \in Nat /\ f[2 * i] \in Nat /\ f[2 * i + 1] \in Nat
        /\ f[x] < f[2 * i] /\ f[2 * i] < f[2 * i + 1]
    <3>1. f[x] \in Nat /\ f[x + 1] \in Nat /\ f[x] < f[x + 1]
      BY <1>0, <2>2, PlaceFacts
    <3>2. f[2 * i] \in Nat /\ f[2 * i + 1] \in Nat /\ f[2 * i] < f[2 * i + 1]
      BY <1>0, <2>2, PlaceFacts
    <3>. QED  BY <2>1, <3>1, <3>2
  <2>7. g[y] \in Nat /\ g[2 * j] \in Nat /\ g[2 * j + 1] \in Nat
    <3>1. g[y] \in Nat /\ g[y + 1] \in Nat
      BY <1>0, <2>2, PlaceFacts
    <3>2. g[2 * j] \in Nat /\ g[2 * j + 1] \in Nat
      BY <1>0, <2>2, PlaceFacts
    <3>. QED  BY <2>1, <3>1, <3>2
  <2>8. g[2 * j] - g[y] = f[2 * i] - f[x]
        /\ g[2 * j + 1] - g[2 * j] = f[2 * i + 1] - f[2 * i]
    BY <2>1, <2>4, <2>5 DEF SamePlaces
  <2>9. ASSUME NEW m \in Span(F, k, i)
        PROVE  X[m] + 1 = G[r][j] + (m - F[k][i])
    <3>1. m \in f[x]..f[2 * i + 1] - 1 /\ m \in Nat
      BY <2>2, <2>6 DEF Span
    <3>2. CASE m < f[2 * i]
      <4>1. m \in Span(F, k - 1, x)
        BY <2>1, <2>6, <3>1, <3>2 DEF Span
      <4>. QED  BY <2>2, <2>4, <4>1 DEF SamePlaces
    <3>3. CASE ~(m < f[2 * i])
      <4>1. m \in Span(F, k - 1, 2 * i)
        BY <2>1, <2>6, <3>1, <3>3 DEF Span
      <4>2. X[m] + 1 = g[2 * j] + (m - f[2 * i])
        BY <2>5, <4>1 DEF SamePlaces
      <4>3. g[2 * j] + (m - f[2 * i]) = g[y] + (m - f[x])
        BY <2>6, <2>7, <2>8, <3>1
      <4>. QED  BY <2>2, <4>2, <4>3
    <3>. QED  BY <3>2, <3>3
  <2>10. G[r][j + 1] - G[r][j] = F[k][i + 1] - F[k][i]
    <3>1. g[2 * j + 1] - g[y] = f[2 * i + 1] - f[x]
      BY <2>6, <2>7, <2>8
    <3>. QED  BY <2>2, <3>1
  <2>. QED  BY <1>7, <2>9, <2>10 DEF SamePlaces
<1>12. CASE r = 0 /\ k # 0 /\ Pairs(n, L, F, k, i)
  <2>1. F[k][i] \in Span(F, k, i) /\ F[k][i] \in DOMAIN s
    <3>1. DOMAIN s = 1..Len(s) /\ Len(s) \in Nat
      BY <1>0, SeqDomain DEF Tree
    <3>2. F[k][i] \in F[k][i]..F[k][i + 1] - 1
      BY <1>5
    <3>3. F[k][i] \in 1..Len(s)
      <4> DEFINE a == F[k][i]
                 b == F[k][i + 1]
      <4>1. a \in Nat /\ b \in Nat /\ a < b /\ b <= Len(s) + 1 /\ 1 <= a
        BY <1>5
      <4> HIDE DEF a, b
      <4>2. a \in 1..Len(s)
        BY <3>1, <4>1
      <4>. QED  BY <4>2 DEF a
    <3>. QED  BY <3>1, <3>2, <3>3 DEF Span
  <2>2. W[F[k][i]][0].current = L[k][i]
    BY <1>4, <1>12, <2>1 DEF Meet
  <2>3. W[F[k][i]][0].current = LeafHash(s[F[k][i]])
    BY <2>1 DEF AllProven, RisesTo
  <2>4. L[k][i] = NodeHash(L[k - 1][2 * i - 1], L[k - 1][2 * i])
    BY <1>12 DEF Pairs
  <2>5. LeafHash(s[F[k][i]])
           # NodeHash(L[k - 1][2 * i - 1], L[k - 1][2 * i])
    BY Injective
  <2>. QED  BY <2>2, <2>3, <2>4, <2>5
<1>13. r # 0 => Promotes(Len(t), K, G, r, j) \/ Pairs(Len(t), K, G, r, j)
  BY <1>0, <1>4, PlacesBelow
<1>14. k # 0 => Promotes(n, L, F, k, i) \/ Pairs(n, L, F, k, i)
  BY <1>0, <1>4, PlacesBelow
<1>15. r # 0 /\ Pairs(Len(t), K, G, r, j) => k # 0
  BY <1>4, MeetBelow
<1>. QED  BY <1>8, <1>9, <1>10, <1>11, <1>12, <1>13, <1>14, <1>15

(* Accepted proofs for all receipts of a batch, the m-th for a text H[m]   *)
(* of its hash, an index X[m] and a path P[m].                             *)
AllAccepted(s, size, H, X, P) ==
    \A m \in DOMAIN s :
        /\ StripPrefix(H[m]) = s[m]
        /\ verify_merkle_proof(H[m], X[m], P[m], compute_batch_root(s), size)

(* Inclusion proofs for all receipts of a batch of different ones, all of  *)
(* them accepted for one batch size, show that the size is the batch's and *)
(* that each receipt is at the place its proof says, although one accepted *)
(* proof alone may claim a wrong size and place: no two tree shapes have   *)
(* the same paths (merkle.py:58-138).                                      *)
THEOREM ProofsBindPlaces ==
    ASSUME NEW s, IsSeq(s), Len(s) > 0, Distinct(s), NEW size \in Nat \ {0},
           NEW H, NEW X, NEW P, AllAccepted(s, size, H, X, P)
    PROVE  size = Len(s) /\ \A m \in DOMAIN s : X[m] = m - 1
<1> DEFINE n == Len(s)
           t == [x \in 1..size |-> x]
<1>1. n \in Nat /\ DOMAIN s = 1..n
  BY SeqDomain
<1>2. IsSeq(t) /\ Len(t) = size
  <2>1. t = [x \in 1..size |-> t[x]]
    OBVIOUS
  <2> HIDE DEF t
  <2>. QED  BY <2>1, SeqOfLength
<1> HIDE DEF t
<1>3. PICK L, F : /\ Tree(s, n, L, F) /\ Place(n, L, n, 1)
                  /\ compute_batch_root(s) = L[n][1]
                  /\ F[n][1] = 1 /\ F[n][2] = n + 1
  BY TreeOfBatch
<1>4. PICK K, G : /\ Tree(t, size, K, G) /\ Place(size, K, size, 1)
                  /\ G[size][1] = 1 /\ G[size][2] = size + 1
  BY <1>2, TreeOfBatch
<1>5. \A m \in DOMAIN s : \E w : RisesTo(K, size, w, s[m], X[m], L[n][1])
  <2>. SUFFICES ASSUME NEW m \in DOMAIN s
                PROVE  \E w : RisesTo(K, size, w, s[m], X[m], L[n][1])
    OBVIOUS
  <2>1. /\ StripPrefix(H[m]) = s[m]
        /\ verify_merkle_proof(H[m], X[m], P[m], L[n][1], Len(t))
    BY <1>2, <1>3 DEF AllAccepted
  <2>2. Levels(t, Len(t), K)
    BY <1>2, <1>4 DEF Tree
  <2>3. \E w : RisesTo(K, Len(t), w, StripPrefix(H[m]), X[m], L[n][1])
    BY <1>2, <2>1, <2>2, AcceptedRises
  <2>. QED  BY <1>2, <2>1, <2>3
<1> DEFINE W == [m \in DOMAIN s |->
                    CHOOSE w : RisesTo(K, size, w, s[m], X[m], L[n][1])]
<1>6. \A m \in DOMAIN s : RisesTo(K, size, W[m], s[m], X[m], L[n][1])
  BY <1>5
<1> HIDE DEF W
<1>7. AllProven(s, n, L, F, t, K, G, X, W)
  BY <1>2, <1>3, <1>4, <1>6 DEF AllProven
<1>8. Len(K[size]) = 1
  <2>1. Levels(t, size, K) /\ size \in Nat /\ size \in 0..size /\ Len(t) > 0
    BY <1>2, <1>4 DEF Tree
  <2>2. LevelIs(t, K, size)
    BY <1>2, <2>1, LevelsAre
  <2>. QED  BY <1>2, <2>2 DEF LevelIs
<1>9. Span(F, n, 1) = 1..n
  BY <1>1, <1>3 DEF Span
<1>10. Meet(L, F, n, 1, W, size, 1)
  <2>. SUFFICES ASSUME NEW m \in 1..n
                PROVE  W[m][size].index + 1 = 1 /\ W[m][size].current = L[n][1]
    BY <1>9 DEF Meet
  <2>1. RisesTo(K, size, W[m], s[m], X[m], L[n][1])
    BY <1>1, <1>6
  <2>2. OnLevel(K, W[m], size)
    BY <2>1 DEF RisesTo
  <2>. QED  BY <1>8, <2>1, <2>2 DEF RisesTo, OnLevel
<1>11. SamePlaces(F, n, 1, X, G, size, 1)
  BY <1>2, <1>3, <1>4, <1>7, <1>10, MeetSamePlaces
<1>12. G[size][2] - G[size][1] = F[n][2] - F[n][1]
       /\ \A m \in 1..n : X[m] + 1 = 1 + (m - 1)
  BY <1>3, <1>4, <1>9, <1>11 DEF SamePlaces
<1>13. size = n
  BY <1>1, <1>3, <1>4, <1>12
<1>14. \A m \in 1..n : X[m] = m - 1
  <2>. SUFFICES ASSUME NEW m \in 1..n PROVE X[m] = m - 1
    OBVIOUS
  <2>1. X[m] \in Int
    <3>1. OnLevel(K, W[m], 0) /\ W[m][0].index = X[m]
      BY <1>1, <1>6 DEF RisesTo
    <3>. QED  BY <3>1 DEF OnLevel
  <2>. QED  BY <1>1, <1>12, <2>1
<1>. QED  BY <1>1, <1>13, <1>14

-----------------------------------------------------------------------------
(* The levels as the loop of compute_batch_root goes through them: each is *)
(* built from the one before, the last one has a single node.              *)
LevelSeq(s, lvls) ==
    /\ IsSeq(s) /\ Len(s) > 0
    /\ IsSeq(lvls) /\ Len(lvls) > 0 /\ Len(lvls) <= Len(s)
    /\ lvls[1] = [i \in DOMAIN s |-> LeafHash(s[i])]
    /\ \A h \in 1..Len(lvls) : IsSeq(lvls[h]) /\ Len(lvls[h]) > 0
    /\ \A h \in 1..Len(lvls) - 1 : lvls[h + 1] = NextLevel(lvls[h])
    /\ Len(lvls[Len(lvls)]) = 1

(* A level of one node is its own next level.                              *)
LEMMA OneStays ==
    ASSUME NEW level, IsSeq(level), Len(level) = 1
    PROVE  NextLevel(level) = level
<1>1. Half(1) = 1
  BY DEF Half
<1>2. NextLevel(level) = [i \in 1..1 |-> level[2 * i - 1]]
  BY <1>1 DEF NextLevel
<1>3. level = [i \in 1..1 |-> level[i]]
  BY DEF IsSeq
<1>4. \A i \in 1..1 : level[2 * i - 1] = level[i]
  OBVIOUS
<1>. QED  BY <1>2, <1>3, <1>4

(* compute_batch_root is what the loop ends with.                          *)
LEMMA LastIsRoot ==
    ASSUME NEW s, NEW lvls, LevelSeq(s, lvls)
    PROVE  compute_batch_root(s) = lvls[Len(lvls)][1]
<1> DEFINE n == Len(s)
           m == Len(lvls)
           now(k) == IF k < m THEN lvls[k + 1] ELSE lvls[m]
<1>1. n \in Nat /\ m \in Nat \ {0} /\ m <= n /\ DOMAIN s = 1..n
  BY SeqDomain DEF LevelSeq
<1>2. PICK L : Levels(s, n, L) /\ compute_batch_root(s) = L[n][1]
  BY <1>1, RootOfLevels
<1> DEFINE S == {k \in 0..n : L[k] = now(k)}
<1>3. 0 \in S
  <2>1. L[0] = lvls[1]
    BY <1>1, <1>2 DEF Levels, LevelSeq
  <2>. QED  BY <1>1, <2>1
<1>4. ASSUME NEW k \in 1..n, k - 1 \in S
      PROVE  k \in S
  <2>1. L[k] = NextLevel(now(k - 1))
    <3>1. k \in 0..n /\ k # 0
      BY <1>1
    <3>. QED  BY <1>2, <1>4, <3>1 DEF Levels
  <2>2. CASE k < m
    <3>1. k \in 1..m - 1 /\ now(k - 1) = lvls[k] /\ now(k) = lvls[k + 1]
      BY <1>1, <2>2
    <3>. QED  BY <1>1, <2>1, <3>1 DEF LevelSeq
  <2>3. CASE ~(k < m)
    <3>1. now(k - 1) = lvls[m] /\ now(k) = lvls[m] /\ m \in 1..m
      BY <1>1, <2>3
    <3>2. NextLevel(lvls[m]) = lvls[m]
      BY <3>1, OneStays DEF LevelSeq
    <3>. QED  BY <1>1, <2>1, <3>1, <3>2
  <2>. QED  BY <2>2, <2>3
<1>5. \A k \in 0..n : k \in S
  <2> HIDE DEF S
  <2>. QED  BY <1>1, <1>3, <1>4, UpTo
<1>6. L[n] = now(n) /\ now(n) = lvls[m]
  BY <1>1, <1>5
<1>. QED  BY <1>2, <1>6

(* The parent of the node i of a level, counted from 0.                    *)
ParentIs(level, i) ==
    LET parent == NextLevel(level)[i \div 2 + 1]
    IN  IF i = Len(level) - 1 /\ Len(level) % 2 = 1
        THEN parent = level[i + 1]
        ELSE parent = IF i % 2 = 1 THEN NodeHash(level[i], level[i + 1])
                      ELSE NodeHash(level[i + 1], level[i + 2])

LEMMA Parents ==
    ASSUME NEW level, IsSeq(level), NEW i \in Nat, i + 1 \in 1..Len(level)
    PROVE  /\ ParentIs(level, i) /\ i \div 2 \in Nat
           /\ i \div 2 + 1 \in 1..Len(NextLevel(level))
<1> DEFINE n == Len(level)
           k == i \div 2 + 1
<1>1. n \in Nat \ {0} /\ i <= n - 1
  BY SeqDomain
<1>2. /\ Len(NextLevel(level)) = Half(n)
      /\ \A j \in 1..Half(n) :
            NextLevel(level)[j] = IF 2 * j <= n
                                  THEN NodeHash(level[2 * j - 1], level[2 * j])
                                  ELSE level[2 * j - 1]
  BY <1>1, NextLevelIs
<1> HIDE DEF n
<1>3. /\ k \in 1..Half(n) /\ i \div 2 \in Nat
      /\ i % 2 = 1 => 2 * k = i + 1 /\ 2 * k - 1 = i
      /\ i % 2 # 1 => 2 * k = i + 2 /\ 2 * k - 1 = i + 1
  BY <1>1 DEF Half
<1>4. ASSUME i = n - 1 /\ n % 2 = 1
      PROVE  NextLevel(level)[k] = level[i + 1]
  <2>1. 2 * k - 1 = i + 1 /\ ~(2 * k <= n)
    BY <1>1, <1>3, <1>4
  <2> HIDE DEF k
  <2>. QED  BY <1>2, <1>3, <2>1
<1>5. ASSUME ~(i = n - 1 /\ n % 2 = 1)
      PROVE  NextLevel(level)[k] = IF i % 2 = 1 THEN NodeHash(level[i], level[i + 1])
                                   ELSE NodeHash(level[i + 1], level[i + 2])
  <2>1. 2 * k <= n
    BY <1>1, <1>3, <1>5
  <2> HIDE DEF k
  <2>. QED  BY <1>2, <1>3, <2>1
<1>. QED  BY <1>2, <1>3, <1>4, <1>5 DEF ParentIs, n

-----------------------------------------------------------------------------
(* What an honest operator goes through for a leaf: its ancestor's index   *)
(* at each level and the path so far.                                      *)
Ascents(lvls, x, n, at) ==
    at = [h \in 1..n |-> IF h = 1 THEN [index |-> x, path |-> <<>>]
                         ELSE Beside(lvls[h - 1], at[h - 1])]

LEMMA AscentsExist ==
    ASSUME NEW lvls, NEW x, NEW n \in Nat
    PROVE  \E at : Ascents(lvls, x, n, at)
<1> DEFINE T == {m \in Nat : ~\E at : Ascents(lvls, x, m, at)}
<1>1. SUFFICES ASSUME T # {} PROVE FALSE
  OBVIOUS
<1>2. PICK m \in T : \A y \in T : m <= y
  BY <1>1, LeastNat
<1>3. m # 0
  <2>. SUFFICES ASSUME m = 0 PROVE FALSE
    OBVIOUS
  <2> DEFINE at == [h \in 1..0 |-> <<>>]
  <2>1. Ascents(lvls, x, 0, at)
    BY DEF Ascents
  <2>. QED  BY <1>2, <2>1
<1>4. m - 1 \in Nat /\ m - 1 \notin T
  BY <1>2, <1>3
<1>5. PICK g : Ascents(lvls, x, m - 1, g)
  BY <1>4
<1> DEFINE at == [h \in 1..m |->
                     IF h < m THEN g[h]
                     ELSE IF h = 1 THEN [index |-> x, path |-> <<>>]
                     ELSE Beside(lvls[m - 1], g[m - 1])]
<1>6. Ascents(lvls, x, m, at)
  <2>1. ASSUME NEW h \in 1..m
        PROVE  at[h] = IF h = 1 THEN [index |-> x, path |-> <<>>]
                       ELSE Beside(lvls[h - 1], at[h - 1])
    <3>1. CASE h = m
      BY <1>2, <1>3, <3>1
    <3>2. CASE h # m
      <4>1. h \in 1..m - 1 /\ h < m
        BY <1>2, <3>2
      <4>2. g[h] = IF h = 1 THEN [index |-> x, path |-> <<>>]
                   ELSE Beside(lvls[h - 1], g[h - 1])
        BY <1>5, <4>1 DEF Ascents
      <4>3. h # 1 => at[h - 1] = g[h - 1]
        BY <1>2, <4>1
      <4>. QED  BY <4>1, <4>2, <4>3
    <3>. QED  BY <3>1, <3>2
  <2>2. at = [h \in 1..m |-> at[h]]
    OBVIOUS
  <2> HIDE DEF at
  <2>. QED  BY <2>1, <2>2 DEF Ascents
<1>. QED  BY <1>2, <1>6

(* Where the ascent is at a level, and how it goes on from there: its path *)
(* grows by a step unless its node is promoted.                            *)
Ascended(lvls, path, at, h) ==
    /\ at[h].index \in Nat /\ at[h].index + 1 \in 1..Len(lvls[h])
    /\ IsSeq(at[h].path) /\ Len(at[h].path) <= Len(path)
    /\ \A i \in 1..Len(at[h].path) : path[i] = at[h].path[i]

GoesUp(lvls, path, at, h) ==
    LET x == at[h].index
        n == Len(lvls[h])
    IN  /\ at[h + 1].index = x \div 2
        /\ IF x = n - 1 /\ n % 2 = 1
           THEN at[h + 1].path = at[h].path
           ELSE /\ SiblingOf(x) + 1 \in 1..n
                /\ Len(at[h + 1].path) = Len(at[h].path) + 1
                /\ Len(at[h].path) < Len(path)
                /\ path[Len(at[h].path) + 1] = StepBeside(lvls[h], x)

Ascent(lvls, x, at) ==
    LET path == HonestPath(lvls, x)
    IN  /\ at[1].index = x /\ at[1].path = <<>>
        /\ at[Len(lvls)].path = path /\ IsSeq(path)
        /\ \A h \in 1..Len(lvls) : Ascended(lvls, path, at, h)
        /\ \A h \in 1..Len(lvls) - 1 : GoesUp(lvls, path, at, h)

LEMMA PathAscends ==
    ASSUME NEW s, NEW lvls, LevelSeq(s, lvls), NEW x \in 0..Len(s) - 1
    PROVE  \E at : Ascent(lvls, x, at)
<1> DEFINE m    == Len(lvls)
           at   == CHOOSE a : Ascents(lvls, x, m, a)
           path == HonestPath(lvls, x)
           right(h) == /\ at[h].index \in Nat /\ at[h].index + 1 \in 1..Len(lvls[h])
                       /\ IsSeq(at[h].path)
           grows(h) ==
               /\ at[h + 1].index = at[h].index \div 2
               /\ at[h + 1].path =
                     IF SiblingOf(at[h].index) < Len(lvls[h])
                     THEN Append(at[h].path, StepBeside(lvls[h], at[h].index))
                     ELSE at[h].path
           long(h) == Len(at[h].path)
<1>1. /\ m \in Nat \ {0} /\ DOMAIN lvls = 1..m
      /\ \A h \in 1..m : IsSeq(lvls[h]) /\ Len(lvls[h]) \in Nat \ {0}
      /\ Len(lvls[1]) = Len(s)
  <2>1. m \in Nat \ {0} /\ DOMAIN lvls = 1..m
    BY SeqDomain DEF LevelSeq
  <2>2. \A h \in 1..m : IsSeq(lvls[h]) /\ Len(lvls[h]) \in Nat \ {0}
    BY SeqDomain DEF LevelSeq
  <2>3. Len(s) \in Nat /\ DOMAIN s = 1..Len(s)
    BY SeqDomain DEF LevelSeq
  <2>4. Len(lvls[1]) = Len(s)
    <3> DEFINE f == lvls[1]
    <3>1. f = [i \in 1..Len(s) |-> f[i]]
      BY <2>3 DEF LevelSeq
    <3> HIDE DEF f
    <3>2. Len(f) = Len(s)
      BY <2>3, <3>1, SeqOfLength
    <3>. QED  BY <3>2 DEF f
  <2>. QED  BY <2>1, <2>2, <2>4
<1>2. Ascents(lvls, x, m, at)
  BY <1>1, AscentsExist
<1>3. path = at[m].path
  BY <1>1 DEF HonestPath, Ascents
<1> HIDE DEF at, path
<1>4. at[1] = [index |-> x, path |-> <<>>]
  BY <1>1, <1>2 DEF Ascents
<1>5. ASSUME NEW h \in 1..m - 1 PROVE grows(h)
  <2>1. h + 1 \in 1..m /\ h + 1 # 1 /\ (h + 1) - 1 = h
    BY <1>1
  <2>2. at[h + 1] = Beside(lvls[h], at[h])
    BY <1>2, <2>1 DEF Ascents
  <2>. QED  BY <2>2 DEF Beside
<1> HIDE DEF m
<1>6. \A h \in 1..m : right(h)
  <2> DEFINE S == {k \in 0..m - 1 : right(k + 1)}
  <2>1. 0 \in S
    <3>1. IsSeq(<<>>)
      BY DEF IsSeq
    <3>2. x \in Nat /\ x + 1 \in 1..Len(lvls[1])
      <4>1. Len(lvls[1]) \in Nat
        BY <1>1
      <4>. QED  BY <1>1, <4>1
    <3>. QED  BY <1>1, <1>4, <3>1, <3>2
  <2>2. ASSUME NEW k \in 1..m - 1, k - 1 \in S
        PROVE  k \in S
    <3>1. right(k) /\ grows(k) /\ k \in 1..m /\ k + 1 \in 1..m /\ k \in 0..m - 1
      <4>1. (k - 1) + 1 = k
        OBVIOUS
      <4>2. right(k)
        BY <2>2, <4>1
      <4>. QED  BY <1>1, <1>5, <4>2
    <3>2. lvls[k + 1] = NextLevel(lvls[k])
      BY DEF LevelSeq, m
    <3>3. /\ at[k].index \div 2 \in Nat
          /\ at[k].index \div 2 + 1 \in 1..Len(lvls[k + 1])
      BY <1>1, <3>1, <3>2, Parents
    <3>4. IsSeq(at[k + 1].path)
      BY <3>1, Appended
    <3>. QED  BY <3>1, <3>3, <3>4
  <2>3. \A k \in 0..m - 1 : k \in S
    <3> HIDE DEF S
    <3>1. m - 1 \in Nat
      BY <1>1
    <3>. QED  BY <2>1, <2>2, <3>1, UpTo
  <2>4. ASSUME NEW h \in 1..m PROVE right(h)
    <3>1. h - 1 \in 0..m - 1 /\ (h - 1) + 1 = h
      BY <1>1
    <3>2. h - 1 \in S
      BY <2>3, <3>1
    <3>. QED  BY <3>1, <3>2
  <2>. QED  BY <2>4
<1>7. \A h \in 1..m : long(h) \in Nat
  BY <1>6, SeqDomain
<1>8. ASSUME NEW h \in 1..m - 1
      PROVE  /\ SiblingOf(at[h].index) < Len(lvls[h]) =>
                   /\ SiblingOf(at[h].index) + 1 \in 1..Len(lvls[h])
                   /\ long(h + 1) = long(h) + 1
                   /\ at[h + 1].path[long(h) + 1] = StepBeside(lvls[h], at[h].index)
             /\ ~(SiblingOf(at[h].index) < Len(lvls[h])) =>
                   at[h + 1].path = at[h].path
             /\ \A i \in 1..long(h) : at[h + 1].path[i] = at[h].path[i]
             /\ long(h) <= long(h + 1)
             /\ SiblingOf(at[h].index) < Len(lvls[h])
                  <=> ~(at[h].index = Len(lvls[h]) - 1 /\ Len(lvls[h]) % 2 = 1)
  <2>0. h \in 1..m
    BY <1>1
  <2>1. right(h) /\ grows(h) /\ long(h) \in Nat /\ Len(lvls[h]) \in Nat
    <3> HIDE DEF right, grows, long
    <3>. QED  BY <1>1, <1>5, <1>6, <1>7, <2>0
  <2> DEFINE y == at[h].index
             n == Len(lvls[h])
  <2>2. y \in Nat /\ y <= n - 1 /\ n \in Nat
    <3>1. y \in Nat /\ n \in Nat /\ y + 1 \in 1..n
      BY <2>1
    <3> HIDE DEF y, n
    <3>. QED  BY <3>1
  <2>3. /\ SiblingOf(y) < n <=> ~(y = n - 1 /\ n % 2 = 1)
        /\ SiblingOf(y) < n => SiblingOf(y) + 1 \in 1..n
    <3> HIDE DEF y, n
    <3>. QED  BY <2>2 DEF SiblingOf
  <2>4. CASE SiblingOf(y) < n
    <3>1. at[h + 1].path = Append(at[h].path, StepBeside(lvls[h], y))
      BY <2>1, <2>4
    <3>2. /\ long(h + 1) = long(h) + 1
          /\ \A i \in 1..long(h) : at[h + 1].path[i] = at[h].path[i]
          /\ at[h + 1].path[long(h) + 1] = StepBeside(lvls[h], y)
      <4> DEFINE p == at[h].path
                 q == at[h + 1].path
                 step == StepBeside(lvls[h], y)
      <4>1. IsSeq(p) /\ q = Append(p, step)
        BY <2>1, <3>1
      <4>2. long(h) = Len(p) /\ long(h + 1) = Len(q)
        OBVIOUS
      <4> HIDE DEF p, q, step, long
      <4>3. /\ Len(q) = Len(p) + 1 /\ q[Len(p) + 1] = step
            /\ \A i \in 1..Len(p) : q[i] = p[i]
        BY <4>1, Appended
      <4>4. /\ long(h + 1) = long(h) + 1 /\ q[long(h) + 1] = step
            /\ \A i \in 1..long(h) : q[i] = p[i]
        BY <4>2, <4>3
      <4>. QED  BY <4>4 DEF p, q, step
    <3>3. long(h) <= long(h + 1)
      BY <2>1, <3>2
    <3> HIDE DEF long
    <3>. QED  BY <2>3, <2>4, <3>2, <3>3
  <2>5. CASE ~(SiblingOf(y) < n)
    <3>1. at[h + 1].path = at[h].path
      BY <2>1, <2>5
    <3>2. long(h) <= long(h + 1)
      BY <2>1, <3>1
    <3> HIDE DEF long
    <3>. QED  BY <2>3, <2>5, <3>1, <3>2
  <2>. QED  BY <2>4, <2>5
<1> HIDE DEF long
<1> DEFINE begins(h) == /\ long(h) <= long(m)
                        /\ \A i \in 1..long(h) : at[m].path[i] = at[h].path[i]
<1>9. \A h \in 1..m : begins(h)
  <2> DEFINE S == {k \in 0..m - 1 : begins(m - k)}
  <2>1. 0 \in S
    <3>1. m - 0 = m /\ 0 \in 0..m - 1 /\ m \in 1..m
      BY <1>1
    <3>. QED  BY <1>7, <3>1
  <2>2. ASSUME NEW k \in 1..m - 1, k - 1 \in S
        PROVE  k \in S
    <3> DEFINE h == m - k
    <3>1. h \in 1..m - 1 /\ m - (k - 1) = h + 1 /\ h \in 1..m /\ h + 1 \in 1..m
      BY <1>1
    <3> HIDE DEF h
    <3>2. begins(h + 1)
      BY <2>2, <3>1
    <3>3. long(h) \in Nat /\ long(h + 1) \in Nat /\ long(m) \in Nat
      BY <1>1, <1>7, <3>1
    <3>4. /\ \A i \in 1..long(h) : at[h + 1].path[i] = at[h].path[i]
          /\ long(h) <= long(h + 1)
      BY <1>8, <3>1
    <3>5. \A i \in 1..long(h) : i \in 1..long(h + 1)
      BY <3>3, <3>4
    <3>6. begins(h)
      BY <3>2, <3>3, <3>4, <3>5
    <3>. QED  BY <3>6 DEF h
  <2>3. \A k \in 0..m - 1 : k \in S
    <3> HIDE DEF S
    <3>1. m - 1 \in Nat
      BY <1>1
    <3>. QED  BY <2>1, <2>2, <3>1, UpTo
  <2>4. ASSUME NEW h \in 1..m PROVE begins(h)
    <3>1. m - h \in 0..m - 1 /\ m - (m - h) = h
      BY <1>1
    <3>2. m - h \in S
      BY <2>3, <3>1
    <3>. QED  BY <3>1, <3>2
  <2>. QED  BY <2>4
<1>10. \A h \in 1..m : Ascended(lvls, path, at, h)
  BY <1>3, <1>6, <1>9 DEF Ascended, long
<1>11. ASSUME NEW h \in 1..m - 1
       PROVE  GoesUp(lvls, path, at, h)
  <2>1. /\ grows(h) /\ begins(h + 1) /\ h \in 1..m /\ h + 1 \in 1..m
        /\ long(h) \in Nat /\ long(h + 1) \in Nat /\ long(m) \in Nat
    <3>1. h \in 1..m /\ h + 1 \in 1..m /\ m \in 1..m
      BY <1>1
    <3>. QED  BY <1>5, <1>7, <1>9, <3>1
  <2>2. CASE SiblingOf(at[h].index) < Len(lvls[h])
    <3>1. /\ SiblingOf(at[h].index) + 1 \in 1..Len(lvls[h])
          /\ long(h + 1) = long(h) + 1
          /\ at[h + 1].path[long(h) + 1] = StepBeside(lvls[h], at[h].index)
          /\ ~(at[h].index = Len(lvls[h]) - 1 /\ Len(lvls[h]) % 2 = 1)
      BY <1>8, <2>2
    <3>2. long(h) + 1 \in 1..long(h + 1) /\ long(h) < long(m)
      BY <2>1, <3>1
    <3>. QED  BY <1>3, <2>1, <3>1, <3>2 DEF GoesUp, long
  <2>3. CASE ~(SiblingOf(at[h].index) < Len(lvls[h]))
    <3>1. /\ at[h].index = Len(lvls[h]) - 1 /\ Len(lvls[h]) % 2 = 1
          /\ at[h + 1].path = at[h].path
      BY <1>8, <2>3
    <3>. QED  BY <2>1, <3>1 DEF GoesUp
  <2>. QED  BY <2>2, <2>3
<1>12. at[1].index = x /\ at[1].path = <<>> /\ IsSeq(at[m].path) /\ at[m].path = path
  <2>1. m \in 1..m
    BY <1>1
  <2>. QED  BY <1>3, <1>4, <1>6, <2>1
<1>. QED  BY <1>10, <1>11, <1>12 DEF Ascent, m, path

-----------------------------------------------------------------------------
(* The proof an honest operator gives is accepted.  A node of a tree is    *)
(* its own text: nothing is cut off it.                                    *)
Plain(v) == IsHash(v) /\ IsHex(v) /\ StripPrefix(v) = v

LEMMA HashesPlain ==
    ASSUME NEW a, NEW b
    PROVE  Plain(LeafHash(a)) /\ Plain(NodeHash(a, b))
<1>1. Plain(LeafHash(a))
  BY DEF Plain, IsHash, IsHex, StripPrefix, IsText, IsStr, HashKinds, LeafHash
<1>2. Plain(NodeHash(a, b))
  BY DEF Plain, IsHash, IsHex, StripPrefix, IsText, IsStr, HashKinds, NodeHash
<1>. QED  BY <1>1, <1>2

AllPlain(level) == \A i \in 1..Len(level) : Plain(level[i])

LEMMA NextPlain ==
    ASSUME NEW level, IsSeq(level), Len(level) > 0, AllPlain(level)
    PROVE  AllPlain(NextLevel(level))
<1> DEFINE n == Len(level)
<1>1. n \in Nat \ {0}
  BY SeqDomain
<1>2. /\ Len(NextLevel(level)) = Half(n)
      /\ \A i \in 1..Half(n) :
            NextLevel(level)[i] = IF 2 * i <= n
                                  THEN NodeHash(level[2 * i - 1], level[2 * i])
                                  ELSE level[2 * i - 1]
  BY <1>1, NextLevelIs
<1>3. ASSUME NEW i \in 1..Half(n) PROVE Plain(NextLevel(level)[i])
  <2>1. 2 * i - 1 \in 1..n
    <3> HIDE DEF n
    <3>. QED  BY <1>1 DEF Half
  <2>2. CASE 2 * i <= n
    <3>1. NextLevel(level)[i] = NodeHash(level[2 * i - 1], level[2 * i])
      BY <1>2, <2>2
    <3>. QED  BY <3>1, HashesPlain
  <2>3. CASE ~(2 * i <= n)
    <3>1. NextLevel(level)[i] = level[2 * i - 1]
      BY <1>2, <2>3
    <3>. QED  BY <2>1, <3>1 DEF AllPlain
  <2>. QED  BY <2>2, <2>3
<1>. QED  BY <1>2, <1>3 DEF AllPlain

(* The levels are sequences, as many as there are.                         *)
LEMMA LevelSeqFacts ==
    ASSUME NEW s, NEW lvls, LevelSeq(s, lvls)
    PROVE  /\ Len(lvls) \in Nat \ {0} /\ Len(s) \in Nat \ {0}
           /\ Len(lvls) <= Len(s) /\ DOMAIN s = 1..Len(s)
           /\ \A h \in 1..Len(lvls) : IsSeq(lvls[h]) /\ Len(lvls[h]) \in Nat \ {0}
           /\ Len(lvls[1]) = Len(s)
           /\ \A i \in 1..Len(s) : lvls[1][i] = LeafHash(s[i])
<1>1. /\ Len(lvls) \in Nat \ {0} /\ Len(s) \in Nat \ {0}
      /\ Len(lvls) <= Len(s) /\ DOMAIN s = 1..Len(s)
  BY SeqDomain DEF LevelSeq
<1>2. \A h \in 1..Len(lvls) : IsSeq(lvls[h]) /\ Len(lvls[h]) \in Nat \ {0}
  BY SeqDomain DEF LevelSeq
<1>3. Len(lvls[1]) = Len(s) /\ \A i \in 1..Len(s) : lvls[1][i] = LeafHash(s[i])
  <2> DEFINE f == lvls[1]
  <2>1. f = [i \in 1..Len(s) |-> LeafHash(s[i])]
    BY <1>1 DEF LevelSeq
  <2> HIDE DEF f
  <2>2. f = [i \in 1..Len(s) |-> f[i]]
    BY <2>1
  <2>3. Len(f) = Len(s)
    BY <1>1, <2>2, SeqOfLength
  <2>. QED  BY <2>1, <2>3 DEF f
<1>. QED  BY <1>1, <1>2, <1>3

LEMMA NodesPlain ==
    ASSUME NEW s, NEW lvls, LevelSeq(s, lvls)
    PROVE  \A h \in 1..Len(lvls) : AllPlain(lvls[h])
<1> DEFINE m == Len(lvls)
           S == {k \in 0..m - 1 : AllPlain(lvls[k + 1])}
<1>1. m - 1 \in Nat
  BY LevelSeqFacts
<1>2. 0 \in S
  <2>1. AllPlain(lvls[1])
    BY LevelSeqFacts, HashesPlain DEF AllPlain
  <2>. QED  BY <1>1, <2>1
<1>3. ASSUME NEW k \in 1..m - 1, k - 1 \in S
      PROVE  k \in S
  <2>1. (k - 1) + 1 = k /\ k \in 1..m /\ k \in 0..m - 1
    BY <1>1
  <2>2. AllPlain(lvls[k])
    BY <1>3, <2>1
  <2>3. IsSeq(lvls[k]) /\ Len(lvls[k]) > 0 /\ lvls[k + 1] = NextLevel(lvls[k])
    BY <2>1 DEF LevelSeq
  <2>4. AllPlain(lvls[k + 1])
    BY <2>2, <2>3, NextPlain
  <2>. QED  BY <2>1, <2>4
<1>4. \A k \in 0..m - 1 : k \in S
  <2> HIDE DEF S
  <2>. QED  BY <1>1, <1>2, <1>3, UpTo
<1>5. ASSUME NEW h \in 1..m PROVE AllPlain(lvls[h])
  <2>1. h - 1 \in 0..m - 1 /\ (h - 1) + 1 = h
    BY <1>1
  <2>2. h - 1 \in S
    BY <1>4, <2>1
  <2>. QED  BY <2>1, <2>2
<1>. QED  BY <1>5

(* A step made of a plain sibling is one that both modes take.             *)
LEMMA StepIsTaken ==
    ASSUME NEW level, NEW i, Plain(level[SiblingOf(i) + 1]), NEW c
    PROVE  LET step    == StepBeside(level, i)
               sibling == level[SiblingOf(i) + 1]
           IN  /\ ValidStep(step, i) /\ LegacyStep(step)
               /\ Sibling(step) = sibling
               /\ CombineAsTold(c, step) = IF i % 2 = 1 THEN NodeHash(sibling, c)
                                           ELSE NodeHash(c, sibling)
<1> DEFINE sibling == level[SiblingOf(i) + 1]
           side    == IF i % 2 = 1 THEN Text("left") ELSE Text("right")
           members == [position |-> side, hash |-> sibling]
           step    == StepBeside(level, i)
<1>1. step = Obj(members)
  BY DEF StepBeside
<1>2. Get(members, "hash") = sibling /\ Get(members, "position") = side
      /\ members["position"] = side
  <2> HIDE DEF sibling, side
  <2>. QED  BY DEF Get
<1> HIDE DEF members, step
<1>3. IsObj(step) /\ Members(step) = members
  BY <1>1 DEF IsObj, Members, Obj
<1>4. Text("left") # Text("right")
  BY DEF Text
<1> HIDE DEF sibling
<1>5. IsHex(sibling) /\ StripPrefix(sibling) = sibling
  BY DEF Plain, sibling
<1>6. ValidStep(step, i)
  BY <1>2, <1>3, <1>5 DEF ValidStep
<1>7. LegacyStep(step)
  BY <1>2, <1>3, <1>5 DEF LegacyStep
<1>8. Sibling(step) = sibling
  BY <1>2, <1>3, <1>5 DEF Sibling
<1>9. CombineAsTold(c, step) = IF i % 2 = 1 THEN NodeHash(sibling, c)
                               ELSE NodeHash(c, sibling)
  <2>1. CASE i % 2 = 1
    BY <1>2, <1>3, <1>8, <2>1 DEF CombineAsTold
  <2>2. CASE i % 2 # 1
    BY <1>2, <1>3, <1>4, <1>8, <2>2 DEF CombineAsTold
  <2>. QED  BY <2>1, <2>2
<1>. QED  BY <1>6, <1>7, <1>8, <1>9 DEF sibling, step

(* The leaf's ancestor at a level, and the step that leads to the next.    *)
Ancestor(lvls, at, h) == lvls[h][at[h].index + 1]

TakesStep(lvls, path, at, h) ==
    LET i    == at[h].index
        used == Len(at[h].path)
        step == path[used + 1]
        node == Ancestor(lvls, at, h)
    IN  /\ used < Len(path) /\ Len(at[h + 1].path) = used + 1
        /\ ValidStep(step, i) /\ LegacyStep(step)
        /\ Ancestor(lvls, at, h + 1) = CombineAsTold(node, step)
        /\ Ancestor(lvls, at, h + 1) = IF i % 2 = 1 THEN NodeHash(Sibling(step), node)
                                       ELSE NodeHash(node, Sibling(step))

IsPromoted(lvls, at, h) ==
    at[h].index = Len(lvls[h]) - 1 /\ Len(lvls[h]) % 2 = 1

LEMMA HonestRound ==
    ASSUME NEW s, NEW lvls, LevelSeq(s, lvls), NEW x, NEW at, Ascent(lvls, x, at),
           NEW h \in 1..Len(lvls) - 1
    PROVE  LET path == HonestPath(lvls, x)
           IN  /\ h \in 1..Len(lvls) /\ h + 1 \in 1..Len(lvls)
               /\ at[h + 1].index = at[h].index \div 2
               /\ Len(lvls[h + 1]) = Half(Len(lvls[h]))
               /\ IsPromoted(lvls, at, h) =>
                     /\ Len(at[h + 1].path) = Len(at[h].path)
                     /\ Ancestor(lvls, at, h + 1) = Ancestor(lvls, at, h)
               /\ ~IsPromoted(lvls, at, h) => TakesStep(lvls, path, at, h)
<1> DEFINE path  == HonestPath(lvls, x)
           i     == at[h].index
           level == lvls[h]
           n     == Len(level)
           node  == level[i + 1]
<1>1. h \in 1..Len(lvls) /\ h + 1 \in 1..Len(lvls)
  BY LevelSeqFacts
<1>2. Ascended(lvls, path, at, h) /\ GoesUp(lvls, path, at, h)
  BY <1>1 DEF Ascent
<1>3. IsSeq(level) /\ n \in Nat \ {0} /\ lvls[h + 1] = NextLevel(level)
  BY <1>1, LevelSeqFacts DEF LevelSeq
<1>4. i \in Nat /\ i + 1 \in 1..n
  BY <1>2 DEF Ascended
<1>5. Len(NextLevel(level)) = Half(n)
  BY <1>3, NextLevelIs
<1>6. at[h + 1].index = i \div 2
  BY <1>2 DEF GoesUp
<1>7. ParentIs(level, i)
  BY <1>3, <1>4, Parents
<1>8. /\ Ancestor(lvls, at, h + 1) = NextLevel(level)[i \div 2 + 1]
      /\ Ancestor(lvls, at, h) = node
  BY <1>3, <1>6 DEF Ancestor
<1>9. ASSUME IsPromoted(lvls, at, h)
      PROVE  /\ Len(at[h + 1].path) = Len(at[h].path)
             /\ Ancestor(lvls, at, h + 1) = Ancestor(lvls, at, h)
  <2>1. i = n - 1 /\ n % 2 = 1
    BY <1>9 DEF IsPromoted
  <2>2. at[h + 1].path = at[h].path
    BY <1>2, <2>1 DEF GoesUp
  <2>3. NextLevel(level)[i \div 2 + 1] = node
    BY <1>7, <2>1 DEF ParentIs
  <2>. QED  BY <1>8, <2>2, <2>3
<1>10. ASSUME ~IsPromoted(lvls, at, h)
       PROVE  TakesStep(lvls, path, at, h)
  <2> DEFINE used    == Len(at[h].path)
             step    == path[used + 1]
             sibling == level[SiblingOf(i) + 1]
  <2>1. ~(i = n - 1 /\ n % 2 = 1)
    BY <1>10 DEF IsPromoted
  <2>2. /\ SiblingOf(i) + 1 \in 1..n /\ Len(at[h + 1].path) = used + 1
        /\ used < Len(path) /\ step = StepBeside(level, i)
    BY <1>2, <2>1 DEF GoesUp
  <2>3. Plain(sibling)
    BY <1>1, <2>2, NodesPlain DEF AllPlain
  <2>4. /\ ValidStep(step, i) /\ LegacyStep(step) /\ Sibling(step) = sibling
        /\ CombineAsTold(node, step) = IF i % 2 = 1 THEN NodeHash(sibling, node)
                                       ELSE NodeHash(node, sibling)
    <3> HIDE DEF step, i, level
    <3>. QED  BY <2>2, <2>3, StepIsTaken
  <2>5. NextLevel(level)[i \div 2 + 1]
          = IF i % 2 = 1 THEN NodeHash(sibling, node) ELSE NodeHash(node, sibling)
    <3>1. NextLevel(level)[i \div 2 + 1]
            = IF i % 2 = 1 THEN NodeHash(level[i], level[i + 1])
              ELSE NodeHash(level[i + 1], level[i + 2])
      BY <1>7, <2>1 DEF ParentIs
    <3>2. SiblingOf(i) + 1 = IF i % 2 = 1 THEN i ELSE i + 2
      <4> HIDE DEF i
      <4>. QED  BY <1>4 DEF SiblingOf
    <3>. QED  BY <3>1, <3>2
  <2> HIDE DEF step, sibling
  <2>6. /\ Ancestor(lvls, at, h + 1) = CombineAsTold(node, step)
        /\ Ancestor(lvls, at, h + 1) = IF i % 2 = 1 THEN NodeHash(Sibling(step), node)
                                       ELSE NodeHash(node, Sibling(step))
    BY <1>8, <2>4, <2>5
  <2>. QED  BY <1>8, <2>2, <2>4, <2>6 DEF TakesStep, step
<1>. QED  BY <1>1, <1>3, <1>5, <1>6, <1>9, <1>10

(* A round of the walk takes it from the leaf's ancestor to the next one.  *)
HonestState(lvls, at, h) ==
    [current |-> Ancestor(lvls, at, h), index |-> at[h].index,
     size |-> Len(lvls[h]), used |-> Len(at[h].path), valid |-> TRUE]

LEMMA HonestStep ==
    ASSUME NEW s, NEW lvls, LevelSeq(s, lvls), NEW x, NEW at, Ascent(lvls, x, at),
           NEW h \in 1..Len(lvls) - 1
    PROVE  WalkStep(HonestState(lvls, at, h), HonestPath(lvls, x))
             = HonestState(lvls, at, h + 1)
<1> DEFINE path == HonestPath(lvls, x)
           u    == HonestState(lvls, at, h)
           node == Ancestor(lvls, at, h)
           i    == at[h].index
           n    == Len(lvls[h])
           used == Len(at[h].path)
           next == WalkStep(u, path)
<1>1. /\ at[h + 1].index = i \div 2 /\ Len(lvls[h + 1]) = Half(n)
      /\ IsPromoted(lvls, at, h) =>
            /\ Len(at[h + 1].path) = used
            /\ Ancestor(lvls, at, h + 1) = node
      /\ ~IsPromoted(lvls, at, h) => TakesStep(lvls, path, at, h)
  BY HonestRound
<1>2. n \in Nat \ {0} /\ i \in Nat /\ i + 1 \in 1..n /\ used \in Nat
  <2>1. h \in 1..Len(lvls)
    BY LevelSeqFacts
  <2>2. Ascended(lvls, path, at, h) /\ n \in Nat \ {0}
    BY <2>1, LevelSeqFacts DEF Ascent
  <2>3. used \in Nat
    BY <2>2, SeqDomain DEF Ascended
  <2>. QED  BY <2>2, <2>3 DEF Ascended
<1>3. u = [current |-> node, index |-> i, size |-> n, used |-> used, valid |-> TRUE]
  BY DEF HonestState
<1>4. HonestState(lvls, at, h + 1)
        = [current |-> Ancestor(lvls, at, h + 1), index |-> i \div 2,
           size |-> Half(n), used |-> Len(at[h + 1].path), valid |-> TRUE]
  BY <1>1 DEF HonestState
<1>5. Promoted(u) <=> IsPromoted(lvls, at, h)
  BY <1>3 DEF Promoted, IsPromoted
<1>6. next = WalkStep(u, path)
  OBVIOUS
<1>7. u.size = n /\ u.valid = TRUE /\ u.used = used /\ u.index = i /\ u.current = node
  BY <1>3
<1> HIDE DEF u, next, path, node
<1>8. CASE n <= 1
  <2>1. n = 1 /\ i = 0 /\ IsPromoted(lvls, at, h)
    <3>1. n = 1 /\ i = 0
      <4> HIDE DEF n, i
      <4>. QED  BY <1>2, <1>8
    <3>. QED  BY <3>1 DEF IsPromoted
  <2>2. Half(1) = 1 /\ 0 \div 2 = 0
    BY DEF Half
  <2>3. HonestState(lvls, at, h + 1) = u
    BY <1>1, <1>3, <1>4, <2>1, <2>2
  <2>4. next = u
    BY <1>6, <1>7, <1>8 DEF WalkStep
  <2>. QED  BY <2>3, <2>4 DEF next, path, u
<1>9. CASE n > 1 /\ IsPromoted(lvls, at, h)
  <2>1. next = Ascend(u)
    <3>1. ~(u.size <= 1 \/ ~u.valid)
      BY <1>2, <1>7, <1>9
    <3>. QED  BY <1>5, <1>6, <1>9, <3>1 DEF WalkStep
  <2>2. next = [current |-> node, index |-> i \div 2, size |-> Half(n),
                used |-> used, valid |-> TRUE]
    <3> HIDE DEF i, n, used
    <3>. QED  BY <1>3, <2>1 DEF Ascend
  <2>3. next = HonestState(lvls, at, h + 1)
    BY <1>1, <1>4, <1>9, <2>2
  <2>. QED  BY <2>3 DEF next, path, u
<1>10. CASE n > 1 /\ ~IsPromoted(lvls, at, h)
  <2> DEFINE step == path[used + 1]
             c    == Combine(u, step)
             v    == [u EXCEPT !.current = c, !.used = @ + 1]
  <2>1. /\ used < Len(path) /\ Len(at[h + 1].path) = used + 1
        /\ ValidStep(step, i)
        /\ Ancestor(lvls, at, h + 1) = IF i % 2 = 1 THEN NodeHash(Sibling(step), node)
                                       ELSE NodeHash(node, Sibling(step))
    BY <1>1, <1>10 DEF TakesStep, node
  <2>2. Ancestor(lvls, at, h + 1) = c
    BY <1>7, <2>1 DEF Combine
  <2>3. next = Ascend(v)
    <3>1. ~(u.size <= 1 \/ ~u.valid)
      BY <1>2, <1>7, <1>10
    <3>2. path[u.used + 1] = step
      BY <1>7
    <3>3. u.used < Len(path) /\ ValidStep(path[u.used + 1], u.index)
      BY <1>7, <2>1
    <3>4. v = [u EXCEPT !.current = Combine(u, path[u.used + 1]), !.used = @ + 1]
      BY <3>2
    <3> HIDE DEF v, c, step
    <3>. QED  BY <1>5, <1>6, <1>10, <3>1, <3>3, <3>4 DEF WalkStep
  <2>4. v = [u EXCEPT !.current = c, !.used = @ + 1]
    OBVIOUS
  <2> HIDE DEF v, c
  <2> DEFINE o == used + 1
  <2>5. v = [current |-> c, index |-> i, size |-> n, used |-> o, valid |-> TRUE]
    <3> HIDE DEF i, n
    <3>. QED  BY <1>3, <2>4
  <2>6. next = [current |-> c, index |-> i \div 2, size |-> Half(n),
                used |-> o, valid |-> TRUE]
    <3> HIDE DEF i, n, o
    <3>1. next = Ascend([current |-> c, index |-> i, size |-> n, used |-> o,
                         valid |-> TRUE])
      BY <2>3, <2>5
    <3>. QED  BY <3>1 DEF Ascend
  <2>7. next = HonestState(lvls, at, h + 1)
    BY <1>4, <2>1, <2>2, <2>6
  <2>. QED  BY <2>7 DEF next, path, u
<1>. QED
  <2> HIDE DEF n
  <2>. QED  BY <1>2, <1>8, <1>9, <1>10

(* merkle.py accepts the path made of the nodes beside a leaf's ancestors  *)
(* for every leaf of a batch of any size, against the root that            *)
(* compute_batch_root computes.                                            *)
LEMMA HonestVerifies ==
    ASSUME NEW s, NEW lvls, LevelSeq(s, lvls), NEW x \in 0..Len(s) - 1,
           NEW hash, IsHex(hash), StripPrefix(hash) = s[x + 1]
    PROVE  verify_merkle_proof(hash, x, HonestPath(lvls, x),
                               compute_batch_root(s), Len(s))
<1> DEFINE path == HonestPath(lvls, x)
           n    == Len(s)
           m    == Len(lvls)
           root == lvls[m][1]
<1>1. /\ m \in Nat \ {0} /\ n \in Nat \ {0} /\ m <= n
      /\ Len(lvls[1]) = n /\ \A i \in 1..n : lvls[1][i] = LeafHash(s[i])
      /\ Len(lvls[m]) = 1
  BY LevelSeqFacts DEF LevelSeq
<1>2. PICK at : Ascent(lvls, x, at)
  BY PathAscends
<1>3. PICK w : /\ Walk(StartAt(StripPrefix(hash), x, n), path, n, w)
               /\ VerifiedBy(hash, x, path, root, n, w)
  BY <1>1, VerifyIsWalk
<1> DEFINE state(h) == HonestState(lvls, at, h)
           S        == {k \in 0..m - 1 : w[k] = state(k + 1)}
<1> HIDE DEF path, root
<1>4. 0 \in S
  <2>1. x + 1 \in 1..n
    <3>1. n \in Nat /\ x \in 0..n - 1
      BY <1>1
    <3> HIDE DEF n
    <3>. QED  BY <3>1
  <2>2. at[1].index = x /\ Len(at[1].path) = 0
    BY <1>2 DEF Ascent
  <2>3. Ancestor(lvls, at, 1) = LeafHash(s[x + 1])
    BY <1>1, <2>1, <2>2 DEF Ancestor
  <2>4. state(1) = StartAt(StripPrefix(hash), x, n)
    BY <1>1, <2>2, <2>3 DEF HonestState, StartAt
  <2>5. w[0] = StartAt(StripPrefix(hash), x, n)
    BY <1>1, <1>3 DEF Walk
  <2>. QED  BY <1>1, <2>4, <2>5
<1>5. ASSUME NEW k \in 1..m - 1, k - 1 \in S
      PROVE  k \in S
  <2>1. k \in 1..n /\ k \in 0..n /\ k # 0 /\ (k - 1) + 1 = k /\ k \in 0..m - 1
    BY <1>1
  <2>2. w[k - 1] = state(k)
    BY <1>5, <2>1
  <2>3. w[k] = WalkStep(state(k), path)
    BY <1>3, <2>1, <2>2 DEF Walk
  <2>4. WalkStep(state(k), path) = state(k + 1)
    BY <1>2, HonestStep DEF path
  <2>. QED  BY <2>1, <2>3, <2>4
<1>6. w[m - 1] = state(m) /\ m - 1 \in 0..n
  <2>1. m - 1 \in Nat /\ m - 1 \in 0..m - 1 /\ (m - 1) + 1 = m /\ m - 1 \in 0..n
    BY <1>1
  <2>2. \A k \in 0..m - 1 : k \in S
    <3> HIDE DEF S
    <3>. QED  BY <1>4, <1>5, <2>1, UpTo
  <2>. QED  BY <2>1, <2>2
<1>7. /\ state(m).size = 1 /\ state(m).valid /\ state(m).used = Len(path)
      /\ state(m).current = root
  <2>1. m \in 1..m
    BY <1>1
  <2>2. Ascended(lvls, path, at, m) /\ at[m].path = path
    BY <1>2, <2>1 DEF Ascent, path
  <2>3. at[m].index = 0
    <3>1. at[m].index \in Nat /\ at[m].index + 1 \in 1..1
      BY <1>1, <2>2 DEF Ascended
    <3>. QED  BY <3>1
  <2>4. Ancestor(lvls, at, m) = root
    BY <2>3 DEF Ancestor, root
  <2>. QED  BY <1>1, <2>2, <2>4 DEF HonestState
<1> HIDE DEF state
<1>8. w[n] = w[m - 1]
  <2> DEFINE k     == m - 1
             start == StartAt(StripPrefix(hash), x, n)
  <2>1. w[k].size <= 1 /\ k \in 0..n /\ n \in Nat /\ Walk(start, path, n, w)
    BY <1>1, <1>3, <1>6, <1>7
  <2> HIDE DEF k, start, n
  <2>2. w[n] = w[k]
    BY <2>1, WalkStays
  <2>. QED  BY <2>2 DEF k
<1>9. verify_merkle_proof(hash, x, path, root, n)
  BY <1>3, <1>6, <1>7, <1>8 DEF VerifiedBy
<1>. QED  BY <1>9, LastIsRoot DEF path, root
=============================================================================
