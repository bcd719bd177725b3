----------------------------- MODULE Recursion -----------------------------
(***************************************************************************)
(* Definition by recursion over data: a function whose value at x is given *)
(* by its values at what has a smaller rank than x exists.  A definition   *)
(* f[x \in D] == Body(f, x) then means what it says; an instance of this   *)
(* module with that Body gives the fact to the proofs about f.             *)
(***************************************************************************)
EXTENDS Integers, WellFoundedInduction, TLAPS

CONSTANTS D,            \* what f is defined on
          Rank,         \* the depth of the recursion
          Body(_, _)    \* what f[x] is, as an operator of f and x

(* The value at x depends on the values below x only.                      *)
Local ==
    \A f, g : \A x \in D :
        (\A y \in D : Rank[y] < Rank[x] => f[y] = g[y]) => Body(f, x) = Body(g, x)

Solves(f, n) == \A x \in D : Rank[x] < n => f[x] = Body(f, x)

(* A set of ranks has a least one.                                         *)
LEMMA LeastRank ==
    ASSUME NEW T, T \subseteq Nat, T # {}
    PROVE  \E m \in T : \A y \in T : m <= y
<1>1. PICK m \in T : \A y \in T : ~(<<y, m>> \in OpToRel(<, Nat))
  BY NatLessThanWellFounded, WFMin
<1>2. \A y \in T : ~(y < m)
  BY <1>1, Zenon DEF OpToRel
<1>. QED  BY <1>2

(* Induction over the ranks, with a set that stands for a property.        *)
LEMMA Induction ==
    ASSUME Rank \in [D -> Nat], NEW S,
           \A x \in D : (\A y \in D : Rank[y] < Rank[x] => y \in S) => x \in S
    PROVE  D \subseteq S
<1> DEFINE T == {r \in Nat : \E x \in D : Rank[x] = r /\ x \notin S}
<1>1. SUFFICES ASSUME T # {} PROVE FALSE
  OBVIOUS
<1>2. PICK r \in T : \A s \in T : r <= s
  <2>1. T \subseteq Nat
    OBVIOUS
  <2> HIDE DEF T
  <2>. QED  BY <1>1, <2>1, LeastRank
<1>3. PICK x \in D : Rank[x] = r /\ x \notin S
  OBVIOUS
<1>4. \A y \in D : Rank[y] < Rank[x] => y \in S
  BY <1>2, <1>3
<1>. QED  BY <1>3, <1>4

(* Two functions that solve the equation below a rank agree there.         *)
LEMMA Unique ==
    ASSUME Local, Rank \in [D -> Nat], NEW n \in Nat, NEW f, NEW g,
           Solves(f, n), Solves(g, n)
    PROVE  \A x \in D : Rank[x] < n => f[x] = g[x]
<1> DEFINE T == {r \in Nat : r < n /\ \E x \in D : Rank[x] = r /\ f[x] # g[x]}
<1>1. SUFFICES ASSUME T # {} PROVE FALSE
  OBVIOUS
<1>2. PICK r \in T : \A s \in T : r <= s
  <2>1. T \subseteq Nat
    OBVIOUS
  <2> HIDE DEF T
  <2>. QED  BY <1>1, <2>1, LeastRank
<1>3. PICK x \in D : Rank[x] = r /\ r < n /\ f[x] # g[x]
  OBVIOUS
<1>4. \A y \in D : Rank[y] < Rank[x] => f[y] = g[y]
  BY <1>2, <1>3
<1>5. Body(f, x) = Body(g, x)
  BY <1>4 DEF Local
<1>6. f[x] = Body(f, x) /\ g[x] = Body(g, x)
  BY <1>3 DEF Solves
<1>. QED  BY <1>3, <1>5, <1>6

(* Below every rank there is a function that solves it.                    *)
LEMMA Approximation ==
    ASSUME Local, Rank \in [D -> Nat], NEW n \in Nat
    PROVE  \E f : Solves(f, n)
<1> DEFINE T == {m \in Nat : ~\E f : Solves(f, m)}
<1>1. SUFFICES ASSUME T # {} PROVE FALSE
  OBVIOUS
<1>2. PICK m \in T : \A y \in T : m <= y
  <2>1. T \subseteq Nat
    OBVIOUS
  <2> HIDE DEF T
  <2>. QED  BY <1>1, <2>1, LeastRank
<1>3. m # 0
  <2>1. Solves(<<>>, 0)
    BY DEF Solves
  <2>. QED  BY <2>1
<1>4. m - 1 \in Nat /\ m - 1 \notin T
  BY <1>2, <1>3
<1>5. PICK f : Solves(f, m - 1)
  BY <1>4
<1> DEFINE g == [x \in D |-> Body(f, x)]
<1>6. \A x \in D : Rank[x] < m - 1 => g[x] = f[x]
  BY <1>5 DEF Solves
<1>7. \A x \in D : Rank[x] < m => Body(g, x) = Body(f, x)
  <2>. SUFFICES ASSUME NEW x \in D, Rank[x] < m PROVE Body(g, x) = Body(f, x)
    OBVIOUS
  <2>1. \A y \in D : Rank[y] < Rank[x] => g[y] = f[y]
    BY <1>6
  <2> HIDE DEF g
  <2>. QED  BY <2>1 DEF Local
<1>8. Solves(g, m)
  <2>1. \A x \in D : g[x] = Body(f, x)
    OBVIOUS
  <2> HIDE DEF g
  <2>. QED  BY <1>7, <2>1 DEF Solves
<1>. QED  BY <1>8

(* The function that the definition f[x \in D] == Body(f, x) chooses.      *)
THEOREM Recursion ==
    ASSUME Local, Rank \in [D -> Nat]
    PROVE  \E f : f = [x \in D |-> Body(f, x)]
<1> DEFINE sol(n) == CHOOSE f : Solves(f, n)
           F == [x \in D |-> sol(Rank[x] + 1)[x]]
<1>1. \A n \in Nat : Solves(sol(n), n)
  BY Approximation
<1>2. ASSUME NEW x \in D PROVE F[x] = Body(F, x)
  <2> DEFINE f == sol(Rank[x] + 1)
  <2>1. Solves(f, Rank[x] + 1) /\ Rank[x] \in Nat
    BY <1>1
  <2>2. f[x] = Body(f, x)
    BY <2>1 DEF Solves
  <2>3. ASSUME NEW y \in D, Rank[y] < Rank[x] PROVE F[y] = f[y]
    <3> DEFINE g == sol(Rank[y] + 1)
    <3>1. Solves(g, Rank[y] + 1) /\ Rank[y] \in Nat
      BY <1>1
    <3>2. Solves(f, Rank[y] + 1)
      BY <2>1, <2>3, <3>1 DEF Solves
    <3>3. F[y] = g[y]
      OBVIOUS
    <3> HIDE DEF g, F, f
    <3>4. g[y] = f[y]
      BY <3>1, <3>2, Unique
    <3>. QED  BY <3>3, <3>4
  <2>4. F[x] = f[x]
    OBVIOUS
  <2> HIDE DEF F, f
  <2>5. Body(F, x) = Body(f, x)
    BY <2>3 DEF Local
  <2>. QED  BY <2>2, <2>4, <2>5
<1>3. F = [x \in D |-> F[x]]
  OBVIOUS
<1> HIDE DEF F
<1>4. [x \in D |-> F[x]] = [x \in D |-> Body(F, x)]
  BY <1>2
<1>. QED  BY <1>3, <1>4
=============================================================================
