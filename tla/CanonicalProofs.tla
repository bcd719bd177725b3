-------------------------- MODULE CanonicalProofs --------------------------
(***************************************************************************)
(* The canonical forms of canonical.py and of main.go, for bodies of every *)
(* size and depth: the two are one text, and the text identifies the body. *)
(***************************************************************************)
EXTENDS GoCanonicalCheck, FiniteSetTheorems, TLAPS

(* The recursive definitions, as operators of the function that they       *)
(* define and its argument.                                                *)
SerializeBody(f, v) ==
    CASE v[1] = "null"  -> <<110, 117, 108, 108>>
      [] v[1] = "bool"  -> IF v[2] THEN <<116, 114, 117, 101>>
                           ELSE <<102, 97, 108, 115, 101>>
      [] v[1] = "int"   -> Digits[v[2]]
      [] v[1] = "float" -> <<48>>
      [] v[1] = "str"   -> serialize_string(v[2])
      [] v[1] = "list"  ->
           <<91>> \o Listed([i \in DOMAIN v[2] |-> f[v[2][i]]]) \o <<93>>
      [] OTHER ->
           LET order == sorted_keys_jcs(v[2])
               pairs == [i \in DOMAIN order |->
                            serialize_string(v[2][order[i]][1]) \o <<58>>
                              \o f[v[2][order[i]][2]]]
           IN  <<123>> \o Listed(pairs) \o <<125>>

(* serializeValue.                                                         *)
GoBody(f, v) ==
    CASE v[1] \in {"null", "bool"} -> serialize[v]
      [] v[1] \in {"int", "float"} -> Digits[Tenths(v) \div 10]
      [] v[1] = "str"  -> serializeString(Decoded(v[2]))
      [] v[1] = "list" ->
           <<91>> \o Listed([i \in DOMAIN v[2] |-> f[v[2][i]]]) \o <<93>>
      [] OTHER ->
           LET keys  == sortKeysJCS(Names(v[2]))
               pairs == [i \in DOMAIN keys |->
                            serializeString(keys[i]) \o <<58>>
                              \o f[ValueAt(v[2], keys[i])]]
           IN  <<123>> \o Listed(pairs) \o <<125>>

(* Inside.                                                                 *)
InsideBody(f, v) ==
    {v} \cup
    (CASE v[1] = "list" -> UNION {f[v[2][i]] : i \in DOMAIN v[2]}
       [] v[1] = "dict" ->
            UNION {f[v[2][i][2]] \cup {JString(v[2][i][1])} :
                      i \in DOMAIN v[2]}
       [] OTHER -> {})

(* Content.                                                                *)
ContentBody(f, v) ==
    CASE v[1] = "list" -> <<"list", [i \in DOMAIN v[2] |-> f[v[2][i]]]>>
      [] v[1] = "dict" -> <<"dict", {<<v[2][i][1], f[v[2][i][2]]>> :
                                        i \in DOMAIN v[2]}>>
      [] OTHER -> v

(* Digits.                                                                 *)
DigitsBody(f, n) ==
    IF n < 0 THEN <<45>> \o f[-n]
    ELSE IF n < 10 THEN <<48 + n>>
    ELSE f[n \div 10] \o <<48 + (n % 10)>>

(* How many steps the digits of a number take at most, and one for the     *)
(* sign.                                                                   *)
Size == [n \in Int |-> IF n < 0 THEN 1 - n ELSE n]

Serialize == INSTANCE Recursion WITH D <- Values, Rank <- Nesting, Body <- SerializeBody
GoSerialize == INSTANCE Recursion WITH D <- Values, Rank <- Nesting, Body <- GoBody
Insides == INSTANCE Recursion WITH D <- Values, Rank <- Nesting, Body <- InsideBody
Contents == INSTANCE Recursion WITH D <- Values, Rank <- Nesting, Body <- ContentBody
Numerals == INSTANCE Recursion WITH D <- Int, Rank <- Size, Body <- DigitsBody

-----------------------------------------------------------------------------
(* Induction over the numbers, with a set that stands for a property.      *)
LEMMA Counting ==
    ASSUME NEW S, 0 \in S, \A n \in Nat : n \in S => n + 1 \in S
    PROVE  Nat \subseteq S
<1> DEFINE T == Nat \ S
<1>1. SUFFICES ASSUME T # {} PROVE FALSE
  OBVIOUS
<1>2. PICK m \in T : \A y \in T : m <= y
  <2>1. T \subseteq Nat
    OBVIOUS
  <2> HIDE DEF T
  <2>. QED  BY <1>1, <2>1, Serialize!LeastRank
<1>3. m # 0 /\ m \in Nat
  OBVIOUS
<1>4. m - 1 \in Nat /\ m - 1 \in S
  BY <1>2, <1>3
<1>5. m - 1 + 1 \in S
  BY <1>4
<1>. QED  BY <1>3, <1>5

(* What the first parts of a list make, one after the other.               *)
Joins(c, f) ==
    /\ f \in [0..Len(c) -> Seq(Int)]
    /\ f[0] = <<>>
    /\ \A i \in 1..Len(c) : f[i] = f[i - 1] \o c[i]

(* The local function of FlattenSeq, for the first n texts.                *)
JoinsTo(c, n, g) ==
    g = [i \in 1..n |-> IF i = 1 THEN c[i] ELSE g[i - 1] \o c[i]]

(* The local function of FlattenSeq exists.                                *)
LEMMA JoinExists ==
    ASSUME NEW c, NEW n \in Nat, n > 0
    PROVE  \E g : JoinsTo(c, n, g)
<1> DEFINE S == {m \in Nat : \E g : JoinsTo(c, m + 1, g)}
<1>1. 0 \in S
  <2> DEFINE g == [i \in 1..1 |-> c[i]]
  <2>1. g = [i \in 1..1 |-> IF i = 1 THEN c[i] ELSE g[i - 1] \o c[i]]
    OBVIOUS
  <2> HIDE DEF g
  <2>2. JoinsTo(c, 1, g)
    BY <2>1 DEF JoinsTo
  <2>. QED  BY <2>2
<1>2. ASSUME NEW m \in Nat, m \in S PROVE m + 1 \in S
  <2>1. PICK g : JoinsTo(c, m + 1, g)
    BY <1>2
  <2> DEFINE h == [i \in 1..m + 2 |-> IF i <= m + 1 THEN g[i] ELSE g[m + 1] \o c[i]]
  <2>2. \A j \in 1..m + 1 : g[j] = IF j = 1 THEN c[j] ELSE g[j - 1] \o c[j]
    BY <2>1 DEF JoinsTo
  <2>3. ASSUME NEW i \in 1..m + 2
        PROVE  h[i] = IF i = 1 THEN c[i] ELSE h[i - 1] \o c[i]
    <3>1. CASE i <= m + 1
      <4>1. h[i] = g[i] /\ i \in 1..m + 1
        BY <3>1
      <4>2. i # 1 => h[i - 1] = g[i - 1]
        BY <3>1
      <4> HIDE DEF h
      <4>. QED  BY <2>2, <4>1, <4>2
    <3>2. CASE i = m + 2
      <4>1. h[i] = g[m + 1] \o c[i]
        <5>1. ~(i <= m + 1)
          BY <3>2
        <5>. QED  BY <5>1
      <4>2. h[m + 1] = g[m + 1]
        OBVIOUS
      <4>3. i # 1 /\ i - 1 = m + 1
        BY <3>2
      <4> HIDE DEF h
      <4>. QED  BY <4>1, <4>2, <4>3
    <3>. QED  BY <3>1, <3>2
  <2>4. h = [i \in 1..m + 2 |-> h[i]]
    OBVIOUS
  <2> HIDE DEF h
  <2>5. JoinsTo(c, m + 2, h)
    BY <2>3, <2>4 DEF JoinsTo
  <2>6. m + 1 \in Nat /\ m + 1 + 1 = m + 2
    OBVIOUS
  <2>. QED  BY <2>5, <2>6
<1> HIDE DEF S
<1>3. n - 1 \in Nat /\ n - 1 \in S
  BY <1>1, <1>2, Counting
<1>4. n - 1 + 1 = n
  OBVIOUS
<1>. QED  BY <1>3, <1>4 DEF S

(* FlattenSeq joins the parts.                                             *)
LEMMA Flattening ==
    ASSUME NEW c \in Seq(Seq(Int))
    PROVE  \E f : Joins(c, f) /\ FlattenSeq(c) = f[Len(c)]
<1>1. CASE Len(c) = 0
  <2>1. c = <<>> /\ FlattenSeq(c) = c
    BY <1>1 DEF FlattenSeq
  <2> DEFINE f == [i \in 0..Len(c) |-> <<>>]
  <2>2. Joins(c, f)
    BY <1>1 DEF Joins
  <2>. QED  BY <1>1, <2>1, <2>2
<1>2. CASE Len(c) > 0
  <2> DEFINE n == Len(c)
             g == CHOOSE g : JoinsTo(c, n, g)
  <2>1. JoinsTo(c, n, g)
    <3>1. n \in Nat /\ n > 0
      BY <1>2
    <3>2. \E h : JoinsTo(c, n, h)
      BY <3>1, JoinExists
    <3>. QED  BY <3>2
  <2>2. FlattenSeq(c) = g[n]
    BY <1>2 DEF FlattenSeq, JoinsTo
  <2> HIDE DEF g
  <2> DEFINE f == [i \in 0..n |-> IF i = 0 THEN <<>> ELSE g[i]]
  <2>3. \A i \in 1..n : g[i] = IF i = 1 THEN c[i] ELSE g[i - 1] \o c[i]
    BY <2>1 DEF JoinsTo
  <2>4. \A i \in 1..n : c[i] \in Seq(Int)
    OBVIOUS
  <2>5. \A i \in 1..n : f[i] = f[i - 1] \o c[i]
    <3>. TAKE i \in 1..n
    <3>1. CASE i = 1
      <4>1. f[i] = c[i] /\ f[i - 1] = <<>>
        BY <3>1, <2>3
      <4>2. <<>> \o c[i] = c[i]
        BY <2>4
      <4> HIDE DEF f
      <4>. QED  BY <4>1, <4>2
    <3>2. CASE i # 1
      <4>1. f[i] = g[i] /\ f[i - 1] = g[i - 1]
        BY <3>2
      <4> HIDE DEF f
      <4>. QED  BY <2>3, <3>2, <4>1
    <3>. QED  BY <3>1, <3>2
  <2>6. f[0] = <<>>
    OBVIOUS
  <2> DEFINE U == {i \in Nat : i <= n => f[i] \in Seq(Int)}
  <2>7. Nat \subseteq U
    <3>1. 0 \in U
      BY <2>6
    <3>2. ASSUME NEW i \in Nat, i \in U PROVE i + 1 \in U
      <4>. SUFFICES ASSUME i + 1 <= n PROVE f[i + 1] \in Seq(Int)
        OBVIOUS
      <4>1. f[i] \in Seq(Int) /\ i + 1 \in 1..n
        BY <3>2
      <4>2. f[i + 1] = f[i] \o c[i + 1]
        BY <4>1, <2>5
      <4>3. c[i + 1] \in Seq(Int)
        BY <4>1, <2>4
      <4> HIDE DEF f
      <4>. QED  BY <4>1, <4>2, <4>3
    <3> HIDE DEF U
    <3>. QED  BY <3>1, <3>2, Counting
  <2>8. f \in [0..n -> Seq(Int)]
    <3>1. \A i \in 0..n : i \in U /\ i \in Nat /\ i <= n
      <4> HIDE DEF U
      <4>. QED  BY <2>7
    <3>2. \A i \in 0..n : f[i] \in Seq(Int)
      BY <3>1
    <3>. QED  BY <3>2
  <2>9. f[n] = g[n]
    BY <1>2
  <2> HIDE DEF f
  <2>. QED  BY <2>2, <2>5, <2>6, <2>8, <2>9 DEF Joins
<1>. QED  BY <1>1, <1>2

(* Two texts in a row.                                                     *)
LEMMA InARow ==
    ASSUME NEW s \in Seq(Int), NEW t \in Seq(Int)
    PROVE  /\ s \o t \in Seq(Int)
           /\ Len(s) \in Nat /\ Len(t) \in Nat
           /\ Len(s \o t) = Len(s) + Len(t)
           /\ \A j \in 1..Len(s) : (s \o t)[j] = s[j]
           /\ \A j \in 1..Len(t) : (s \o t)[Len(s) + j] = t[j]
OBVIOUS

(* One part more.                                                          *)
LEMMA OnePartMore ==
    ASSUME NEW c \in Seq(Seq(Int)), NEW f, Joins(c, f),
           NEW n \in 1..Len(c), NEW k, k = n - 1
    PROVE  /\ f[k] \in Seq(Int) /\ c[n] \in Seq(Int)
           /\ f[n] = f[k] \o c[n]
<1>1. k \in 0..Len(c)
  OBVIOUS
<1>2. f[k] \in Seq(Int)
  BY <1>1 DEF Joins
<1>3. c[n] \in Seq(Int)
  OBVIOUS
<1>4. f[n] = f[n - 1] \o c[n]
  BY Zenon DEF Joins
<1>. QED  BY <1>2, <1>3, <1>4

(* A text begins with another one.                                         *)
Begins(r, s) == Len(r) <= Len(s) /\ \A j \in 1..Len(r) : s[j] = r[j]

(* What begins a text begins every longer one.                             *)
LEMMA BeginningKept ==
    ASSUME NEW s \in Seq(Int), NEW t \in Seq(Int), NEW r \in Seq(Int), Begins(r, s)
    PROVE  Begins(r, s \o t)
BY DEF Begins

(* What is joined keeps the beginnings.                                    *)
LEMMA JoinPrefix ==
    ASSUME NEW c \in Seq(Seq(Int)), NEW f, Joins(c, f),
           NEW k \in 0..Len(c), NEW n \in 0..Len(c), k <= n
    PROVE  Begins(f[k], f[n])
<1> DEFINE S == {m \in Nat : k <= m /\ m <= Len(c) => Begins(f[k], f[m])}
<1>1. /\ f[k] \in Seq(Int) /\ f[n] \in Seq(Int)
      /\ Len(c) \in Nat /\ k \in Nat /\ n \in Nat /\ n <= Len(c)
  BY DEF Joins
<1>2. Begins(f[k], f[k])
  BY <1>1 DEF Begins
<1>3. 0 \in S
  <2>1. k <= 0 => k = 0
    BY <1>1
  <2>. QED  BY <1>2, <2>1
<1>4. ASSUME NEW m \in Nat, m \in S PROVE m + 1 \in S
  <2>. SUFFICES ASSUME k <= m + 1, m + 1 <= Len(c), k # m + 1
                PROVE  Begins(f[k], f[m + 1])
    BY <1>2
  <2>1. k <= m /\ m <= Len(c)
    BY <1>1
  <2>2. Begins(f[k], f[m])
    BY <1>4, <2>1
  <2>3. PICK h : h = m + 1
    OBVIOUS
  <2>4. h \in 1..Len(c) /\ m = h - 1
    BY <1>1, <2>3
  <2>5. f[m] \in Seq(Int) /\ c[h] \in Seq(Int) /\ f[h] = f[m] \o c[h]
    BY <2>4, OnePartMore
  <2>6. Begins(f[k], f[m] \o c[h])
    BY <1>1, <2>2, <2>5, BeginningKept
  <2>. QED  BY <2>3, <2>5, <2>6
<1>5. n \in S
  <2> HIDE DEF S
  <2>. QED  BY <1>1, <1>3, <1>4, Counting
<1>. QED  BY <1>1, <1>5

(* Two texts agree as far as both go.                                      *)
Agree(x, y) == \A j \in DOMAIN x \cap DOMAIN y : x[j] = y[j]

(* Parts that are not empty, none of which begins with the terminator.     *)
PartsBefore(c, e) ==
    /\ c \in Seq(Seq(Int))
    /\ \A i \in DOMAIN c : c[i] # <<>> /\ c[i][1] # e

(* Behind n characters of a text another one follows, and more.            *)
Follows(F, n, t) ==
    n + Len(t) < Len(F) /\ \A j \in 1..Len(t) : F[n + j] = t[j]

(* What a text begins with is followed in it by its next part.             *)
LEMMA PartInText ==
    ASSUME NEW s \in Seq(Int), NEW t \in Seq(Int), NEW w \in Seq(Int), NEW e \in Int,
           Begins(s \o t, w)
    PROVE  Follows(w \o <<e>>, Len(s), t)
<1>1. Len(s \o t) = Len(s) + Len(t) /\ Len(s) \in Nat /\ Len(t) \in Nat
  OBVIOUS
<1>2. Len(w \o <<e>>) = Len(w) + 1 /\ Len(w) \in Nat
  OBVIOUS
<1>3. Len(s) + Len(t) < Len(w \o <<e>>)
  BY <1>1, <1>2 DEF Begins
<1>4. ASSUME NEW j \in 1..Len(t) PROVE (w \o <<e>>)[Len(s) + j] = t[j]
  <2>1. PICK i : i = Len(s) + j
    OBVIOUS
  <2>2. i \in 1..Len(w) /\ i \in 1..Len(s \o t)
    BY <1>1, <1>2, <2>1, SMTT(30) DEF Begins
  <2>3. (w \o <<e>>)[i] = w[i]
    BY <2>2
  <2>4. (s \o t)[i] = t[j]
    BY <2>1
  <2>. QED  BY <2>1, <2>2, <2>3, <2>4 DEF Begins
<1>. QED  BY <1>3, <1>4 DEF Follows

(* The part behind the first k, or the terminator behind the last.         *)
Continues(F, c, f, k, n, e) ==
    /\ f[k] \in Seq(Int) /\ F \in Seq(Int)
    /\ k < Len(c) =>
          /\ c[n] \in Seq(Int) /\ Len(c[n]) > 0 /\ c[n][1] # e
          /\ f[n] = f[k] \o c[n]
          /\ Follows(F, Len(f[k]), c[n])
    /\ k = Len(c) => Len(F) = Len(f[k]) + 1 /\ F[Len(f[k]) + 1] = e

(* Each part that is left continues the text; behind the last is e.        *)
LEMMA NextPart ==
    ASSUME NEW e \in Int, NEW c, PartsBefore(c, e), NEW f, Joins(c, f),
           NEW k \in 0..Len(c), NEW n, n = k + 1,
           NEW F, F = f[Len(c)] \o <<e>>
    PROVE  Continues(F, c, f, k, n, e)
<1>1. c \in Seq(Seq(Int)) /\ Len(c) \in Nat /\ Len(c) \in 0..Len(c)
  BY DEF PartsBefore
<1>2. f[k] \in Seq(Int) /\ f[Len(c)] \in Seq(Int)
  BY <1>1 DEF Joins
<1>3. ASSUME k < Len(c)
      PROVE  /\ c[n] \in Seq(Int) /\ Len(c[n]) > 0 /\ c[n][1] # e
             /\ f[n] = f[k] \o c[n]
             /\ Follows(F, Len(f[k]), c[n])
  <2>1. n \in 1..Len(c) /\ n \in 0..Len(c) /\ k = n - 1 /\ n <= Len(c)
    BY <1>1, <1>3
  <2>2. c[n] \in Seq(Int) /\ c[n] # <<>> /\ c[n][1] # e
    BY <1>1, <2>1 DEF PartsBefore
  <2>3. Len(c[n]) > 0
    BY <2>2
  <2>4. f[n] = f[k] \o c[n]
    BY <1>1, <2>1, OnePartMore
  <2>5. Begins(f[n], f[Len(c)])
    BY <1>1, <2>1, JoinPrefix
  <2>6. Follows(f[Len(c)] \o <<e>>, Len(f[k]), c[n])
    BY <1>2, <2>2, <2>4, <2>5, PartInText
  <2>. QED  BY <2>2, <2>3, <2>4, <2>6
<1>4. k = Len(c) => Len(F) = Len(f[k]) + 1 /\ F[Len(f[k]) + 1] = e
  BY <1>2
<1>5. F \in Seq(Int)
  BY <1>2
<1>. QED  BY <1>2, <1>3, <1>4, <1>5 DEF Continues

(* The first character of what follows.                                    *)
LEMMA FirstFollows ==
    ASSUME NEW F \in Seq(Int), NEW n \in Nat, NEW t \in Seq(Int), Len(t) > 0,
           Follows(F, n, t)
    PROVE  n + 1 \in DOMAIN F /\ F[n + 1] = t[1]
<1>1. Len(F) \in Nat /\ DOMAIN F = 1..Len(F) /\ Len(t) \in Nat /\ 1 \in 1..Len(t)
  OBVIOUS
<1>2. n + Len(t) < Len(F) /\ F[n + 1] = t[1]
  BY <1>1 DEF Follows
<1>. QED  BY <1>1, <1>2

(* The parts that follow in two texts that agree agree.                    *)
LEMMA PartsAgree ==
    ASSUME NEW F \in Seq(Int), NEW G \in Seq(Int), Agree(F, G), NEW n \in Nat,
           NEW s \in Seq(Int), NEW t \in Seq(Int), Follows(F, n, s), Follows(G, n, t)
    PROVE  Agree(s, t)
<1>. SUFFICES ASSUME NEW j \in DOMAIN s, j \in DOMAIN t PROVE s[j] = t[j]
  BY DEF Agree
<1>1. PICK i : i = n + j
  OBVIOUS
<1>2. /\ DOMAIN s = 1..Len(s) /\ DOMAIN t = 1..Len(t)
      /\ DOMAIN F = 1..Len(F) /\ DOMAIN G = 1..Len(G)
      /\ Len(s) \in Nat /\ Len(t) \in Nat /\ Len(F) \in Nat /\ Len(G) \in Nat
  OBVIOUS
<1>3. j \in 1..Len(s) /\ j \in 1..Len(t)
  BY <1>2
<1>4. F[n + j] = s[j] /\ G[n + j] = t[j]
  BY <1>3 DEF Follows
<1>5. n + Len(s) < Len(F) /\ n + Len(t) < Len(G)
  BY DEF Follows
<1>6. i \in DOMAIN F /\ i \in DOMAIN G
  <2>1. j \in Nat /\ 1 <= j /\ j <= Len(s) /\ j <= Len(t)
    BY <1>2, <1>3
  <2>2. \A x, y, z \in Nat : j <= x /\ j <= y /\ n + x < z => n + j \in 1..z
    BY <2>1, SMTT(30)
  <2>3. n + j \in 1..Len(F) /\ n + j \in 1..Len(G)
    BY <1>2, <1>5, <2>1, <2>2
  <2>. QED  BY <1>1, <1>2, <2>3
<1>. QED  BY <1>1, <1>4, <1>6 DEF Agree

(* Parts at one place that agree as far as both go are one part.           *)
OneContinues(c, d) ==
    \A i \in DOMAIN c \cap DOMAIN d : Agree(c[i], d[i]) => c[i] = d[i]

(* Behind the parts that two texts share, they are at the end together or  *)
(* go on with one part.                                                    *)
LEMMA SameNext ==
    ASSUME NEW e \in Int, NEW c, PartsBefore(c, e), NEW d, PartsBefore(d, e),
           NEW f, Joins(c, f), NEW g, Joins(d, g), OneContinues(c, d),
           Agree(f[Len(c)] \o <<e>>, g[Len(d)] \o <<e>>),
           NEW k \in 0..Len(c), k \in 0..Len(d), f[k] = g[k], NEW n, n = k + 1
    PROVE  \/ k = Len(c) /\ k = Len(d)
           \/ k < Len(c) /\ k < Len(d) /\ c[n] = d[n] /\ f[n] = g[n]
<1>1. PICK F : F = f[Len(c)] \o <<e>>
  OBVIOUS
<1>2. PICK G : G = g[Len(d)] \o <<e>>
  OBVIOUS
<1>3. Continues(F, c, f, k, n, e)
  BY <1>1, NextPart
<1>4. Continues(G, d, g, k, n, e)
  BY <1>2, NextPart
<1>5. Agree(F, G)
  BY <1>1, <1>2
<1>6. Len(c) \in Nat /\ Len(d) \in Nat
  BY DEF PartsBefore
<1>7. PICK p : p = Len(f[k])
  OBVIOUS
<1>8. p \in Nat /\ F \in Seq(Int) /\ G \in Seq(Int)
  BY <1>3, <1>4, <1>7 DEF Continues
<1>9. ASSUME k < Len(c)
      PROVE  /\ c[n] \in Seq(Int) /\ Follows(F, p, c[n]) /\ f[n] = f[k] \o c[n]
             /\ p + 1 \in DOMAIN F /\ F[p + 1] # e
  <2>1. /\ c[n] \in Seq(Int) /\ Len(c[n]) > 0 /\ c[n][1] # e
        /\ f[n] = f[k] \o c[n] /\ Follows(F, p, c[n])
    BY <1>3, <1>7, <1>9 DEF Continues
  <2>. QED  BY <1>8, <2>1, FirstFollows
<1>10. ASSUME k < Len(d)
       PROVE  /\ d[n] \in Seq(Int) /\ Follows(G, p, d[n]) /\ g[n] = f[k] \o d[n]
              /\ p + 1 \in DOMAIN G /\ G[p + 1] # e
  <2>1. /\ d[n] \in Seq(Int) /\ Len(d[n]) > 0 /\ d[n][1] # e
        /\ g[n] = f[k] \o d[n] /\ Follows(G, p, d[n])
    BY <1>4, <1>7, <1>10 DEF Continues
  <2>. QED  BY <1>8, <2>1, FirstFollows
<1>11. k = Len(c) => p + 1 \in DOMAIN F /\ F[p + 1] = e
  BY <1>3, <1>7, <1>8 DEF Continues
<1>12. k = Len(d) => p + 1 \in DOMAIN G /\ G[p + 1] = e
  BY <1>4, <1>7, <1>8 DEF Continues
<1>13. p + 1 \in DOMAIN F /\ p + 1 \in DOMAIN G => F[p + 1] = G[p + 1]
  BY <1>5 DEF Agree
<1>14. ASSUME k < Len(c), k < Len(d) PROVE c[n] = d[n] /\ f[n] = g[n]
  <2>1. Agree(c[n], d[n])
    BY <1>5, <1>8, <1>9, <1>10, <1>14, PartsAgree
  <2>2. n \in DOMAIN c /\ n \in DOMAIN d
    BY <1>6, <1>14 DEF PartsBefore
  <2>3. c[n] = d[n]
    BY <2>1, <2>2 DEF OneContinues
  <2>. QED  BY <1>9, <1>10, <1>14, <2>3
<1>15. ~(k < Len(c) /\ k = Len(d)) /\ ~(k = Len(c) /\ k < Len(d))
  BY <1>9, <1>10, <1>11, <1>12, <1>13
<1>. QED  BY <1>6, <1>14, <1>15

(* Texts made of such parts that agree have the same parts.                *)
LEMMA UniqueParts ==
    ASSUME NEW e \in Int, NEW c, PartsBefore(c, e), NEW d, PartsBefore(d, e),
           OneContinues(c, d),
           Agree(FlattenSeq(c) \o <<e>>, FlattenSeq(d) \o <<e>>)
    PROVE  c = d
<1>1. c \in Seq(Seq(Int)) /\ d \in Seq(Seq(Int)) /\ Len(c) \in Nat /\ Len(d) \in Nat
  BY DEF PartsBefore
<1>2. PICK f : Joins(c, f) /\ FlattenSeq(c) = f[Len(c)]
  BY <1>1, Flattening
<1>3. PICK g : Joins(d, g) /\ FlattenSeq(d) = g[Len(d)]
  BY <1>1, Flattening
<1>4. Agree(f[Len(c)] \o <<e>>, g[Len(d)] \o <<e>>)
  BY <1>2, <1>3
<1> DEFINE S == {k \in Nat : k <= Len(c) =>
                    /\ k <= Len(d) /\ f[k] = g[k]
                    /\ \A i \in 1..k : c[i] = d[i]}
<1>5. 0 \in S
  BY <1>1, <1>2, <1>3 DEF Joins
<1>6. ASSUME NEW k \in Nat, k \in S PROVE k + 1 \in S
  <2>. SUFFICES ASSUME k + 1 <= Len(c)
                PROVE  /\ k + 1 <= Len(d) /\ f[k + 1] = g[k + 1]
                       /\ \A i \in 1..k + 1 : c[i] = d[i]
    OBVIOUS
  <2>1. /\ k < Len(c) /\ k \in 0..Len(c) /\ k \in 0..Len(d) /\ f[k] = g[k]
        /\ \A i \in 1..k : c[i] = d[i]
    BY <1>1, <1>6
  <2>2. PICK n : n = k + 1
    OBVIOUS
  <2>3. k < Len(d) /\ c[n] = d[n] /\ f[n] = g[n]
    BY <1>1, <1>2, <1>3, <1>4, <2>1, <2>2, SameNext
  <2>4. \A i \in 1..n : c[i] = d[i]
    BY <2>1, <2>2, <2>3
  <2>5. n <= Len(d)
    BY <1>1, <2>2, <2>3
  <2>. QED  BY <2>2, <2>3, <2>4, <2>5
<1>7. Len(c) \in S
  <2> HIDE DEF S
  <2>. QED  BY <1>1, <1>5, <1>6, Counting
<1>8. /\ Len(c) <= Len(d) /\ f[Len(c)] = g[Len(c)]
      /\ \A i \in 1..Len(c) : c[i] = d[i]
  BY <1>1, <1>7
<1>9. Len(c) = Len(d)
  <2>1. PICK n : n = Len(c) + 1
    OBVIOUS
  <2>2. Len(c) \in 0..Len(c) /\ Len(c) \in 0..Len(d)
    BY <1>1, <1>8
  <2>3. \/ Len(c) = Len(c) /\ Len(c) = Len(d)
        \/ Len(c) < Len(c)
    BY <1>2, <1>3, <1>4, <1>8, <2>1, <2>2, SameNext
  <2>. QED  BY <1>1, <2>3
<1>10. DOMAIN c = 1..Len(c) /\ DOMAIN d = 1..Len(d)
  BY <1>1
<1>11. c = [i \in DOMAIN c |-> c[i]] /\ d = [i \in DOMAIN d |-> d[i]]
  BY <1>1
<1>. QED  BY <1>8, <1>9, <1>10, <1>11

-----------------------------------------------------------------------------
(* A text spelled character by character has one reading if no character's *)
(* spelling begins another's or is begun with the terminator.              *)
Spelling(code, U, e) ==
    /\ code \in [U -> Seq(Int)]
    /\ \A x \in U : code[x] # <<>> /\ code[x][1] # e
    /\ \A x, y \in U : Agree(code[x], code[y]) => x = y

(* The texts of the elements of s.                                         *)
Spelled(c, code, s) == c = [i \in DOMAIN s |-> code[s[i]]]

(* Two strings whose spelled texts agree are the same string.              *)
LEMMA OneReading ==
    ASSUME NEW e \in Int, NEW U, NEW code, Spelling(code, U, e),
           NEW s \in Seq(U), NEW t \in Seq(U), NEW c, NEW d,
           Spelled(c, code, s), Spelled(d, code, t),
           Agree(FlattenSeq(c) \o <<e>>, FlattenSeq(d) \o <<e>>)
    PROVE  s = t
<1>1. /\ DOMAIN s = 1..Len(s) /\ DOMAIN t = 1..Len(t)
      /\ Len(s) \in Nat /\ Len(t) \in Nat
      /\ \A i \in DOMAIN s : s[i] \in U
      /\ \A i \in DOMAIN t : t[i] \in U
  OBVIOUS
<1> USE DEF Spelled
<1>2. PartsBefore(c, e)
  <2>1. \A i \in 1..Len(s) : c[i] \in Seq(Int) /\ c[i] # <<>> /\ c[i][1] # e
    BY <1>1 DEF Spelling
  <2>2. c \in Seq(Seq(Int)) /\ DOMAIN c = 1..Len(s)
    BY <1>1, <2>1
  <2>. QED  BY <2>1, <2>2 DEF PartsBefore
<1>3. PartsBefore(d, e)
  <2>1. \A i \in 1..Len(t) : d[i] \in Seq(Int) /\ d[i] # <<>> /\ d[i][1] # e
    BY <1>1 DEF Spelling
  <2>2. d \in Seq(Seq(Int)) /\ DOMAIN d = 1..Len(t)
    BY <1>1, <2>1
  <2>. QED  BY <2>1, <2>2 DEF PartsBefore
<1>4. \A i \in DOMAIN s \cap DOMAIN t : Agree(c[i], d[i]) => s[i] = t[i]
  BY <1>1 DEF Spelling
<1>5. OneContinues(c, d)
  BY <1>4 DEF OneContinues
<1>6. c = d
  BY <1>2, <1>3, <1>5, UniqueParts
<1>7. DOMAIN s = DOMAIN t
  BY <1>6
<1>8. \A i \in DOMAIN s : Agree(c[i], d[i])
  BY <1>6 DEF Agree
<1>9. \A i \in DOMAIN s : s[i] = t[i]
  BY <1>4, <1>7, <1>8
<1>10. s = [i \in DOMAIN s |-> s[i]] /\ t = [i \in DOMAIN t |-> t[i]]
  OBVIOUS
<1>. QED  BY <1>7, <1>9, <1>10

(* The code units of one code point.                                       *)
UnitsOf(cp) ==
    IF cp <= 65535 THEN <<cp>>
    ELSE <<55296 + ((cp - 65536) \div 1024), 56320 + ((cp - 65536) % 1024)>>

(* The code points that can be encoded.                                    *)
PlainUnicode == {cp \in Unicode : ~IsSurrogate(cp)}

(* Where a code point behind the basic plane lies among the others.        *)
HighPart(cp) == (cp - 65536) \div 1024
LowPart(cp)  == (cp - 65536) % 1024

(* q and r are the two halves of n.                                        *)
TenBitParts(n, q, r) ==
    q \in Nat /\ q <= 1023 /\ r \in Nat /\ n = 1024 * q + r

(* A number below 2^20 is its two halves of ten bits.                      *)
LEMMA TenBits ==
    ASSUME NEW n \in Int, n >= 0, n <= 1048575
    PROVE  TenBitParts(n, n \div 1024, n % 1024)
BY SMT DEF TenBitParts

(* Code points are integers in their range.                                *)
LEMMA CodePointRange ==
    ASSUME NEW x \in Unicode
    PROVE  x \in Int /\ x >= 0 /\ x <= 1114111
<1>1. LastCodePoint \in Int /\ LastCodePoint <= 1114111
  BY SMT DEF LastCodePoint
<1>2. x \in Int /\ x >= 0 /\ x <= LastCodePoint
  <2>1. LastCodePoint \in Int
    BY <1>1
  <2>. QED  BY <2>1, SMT DEF Unicode
<1>. QED  BY <1>1, <1>2, SMT

(* A code point has one unit, that is no surrogate, or a pair of them.     *)
LEMMA UnitsCases ==
    ASSUME NEW x \in PlainUnicode
    PROVE  /\ x \in Int
           /\ x <= 65535 => UnitsOf(x) = <<x>> /\ x >= 0 /\ ~(55296 <= x /\ x <= 57343)
           /\ ~(x <= 65535) =>
                 /\ UnitsOf(x) = <<55296 + HighPart(x), 56320 + LowPart(x)>>
                 /\ HighPart(x) \in Nat /\ HighPart(x) <= 1023 /\ LowPart(x) \in Nat
                 /\ x = 65536 + (1024 * HighPart(x) + LowPart(x))
<1>1. x \in Unicode /\ x \notin 55296..57343
  BY SMT DEF PlainUnicode, IsSurrogate
<1>2. x \in Int /\ x >= 0 /\ x <= 1114111
  BY <1>1, CodePointRange, SMT
<1>3. ~(55296 <= x /\ x <= 57343)
  BY <1>1, <1>2, SMT
<1>4. x <= 65535 => UnitsOf(x) = <<x>>
  BY SMT DEF UnitsOf
<1>5. ~(x <= 65535) => UnitsOf(x) = <<55296 + HighPart(x), 56320 + LowPart(x)>>
  BY SMT DEF UnitsOf, HighPart, LowPart
<1>6. ASSUME ~(x <= 65535)
      PROVE  /\ HighPart(x) \in Nat /\ HighPart(x) <= 1023 /\ LowPart(x) \in Nat
             /\ x = 65536 + (1024 * HighPart(x) + LowPart(x))
  <2>1. PICK n \in Int : n = x - 65536 /\ n >= 0 /\ n <= 1048575
    BY <1>2, <1>6, SMT
  <2>2. TenBitParts(n, n \div 1024, n % 1024)
    BY <2>1, TenBits, SMT
  <2>4. HighPart(x) = n \div 1024 /\ LowPart(x) = n % 1024
    BY <2>1, SMT DEF HighPart, LowPart
  <2>5. x = 65536 + n
    BY <1>2, <2>1, SMT
  <2>. QED  BY <2>2, <2>4, <2>5, SMT DEF TenBitParts
<1>. QED  BY <1>2, <1>3, <1>4, <1>5, <1>6, SMT

(* UTF-16 spells code points that are not surrogates: the units of one     *)
(* never begin the units of another.                                       *)
LEMMA UnitsSpell == Spelling([cp \in PlainUnicode |-> UnitsOf(cp)], PlainUnicode, -1)
<1>1. ASSUME NEW x \in PlainUnicode
      PROVE  UnitsOf(x) \in Seq(Int) /\ UnitsOf(x) # <<>> /\ UnitsOf(x)[1] # -1
  <2>1. CASE x <= 65535
    <3>1. UnitsOf(x) = <<x>> /\ x \in Int /\ x >= 0
      BY <2>1, UnitsCases, SMT
    <3>. QED  BY <3>1, SMT
  <2>2. CASE ~(x <= 65535)
    <3>1. /\ UnitsOf(x) = <<55296 + HighPart(x), 56320 + LowPart(x)>>
          /\ HighPart(x) \in Nat /\ HighPart(x) <= 1023 /\ LowPart(x) \in Nat
      BY <2>2, UnitsCases, SMT
    <3>. QED  BY <3>1, SMT
  <2>. QED  BY <2>1, <2>2
<1>2. ASSUME NEW x \in PlainUnicode, NEW y \in PlainUnicode, Agree(UnitsOf(x), UnitsOf(y))
      PROVE  x = y
  <2>1. UnitsOf(x)[1] = UnitsOf(y)[1]
    <3>1. 1 \in DOMAIN UnitsOf(x) /\ 1 \in DOMAIN UnitsOf(y)
      BY <1>1, SMT
    <3>. QED  BY <1>2, <3>1 DEF Agree
  <2>2. CASE x <= 65535 /\ y <= 65535
    BY <2>1, <2>2, UnitsCases, SMT
  <2>3. CASE ~(x <= 65535) /\ ~(y <= 65535)
    <3>1. /\ UnitsOf(x) = <<55296 + HighPart(x), 56320 + LowPart(x)>>
          /\ UnitsOf(y) = <<55296 + HighPart(y), 56320 + LowPart(y)>>
          /\ HighPart(x) \in Nat /\ HighPart(x) <= 1023 /\ LowPart(x) \in Nat
          /\ HighPart(y) \in Nat /\ HighPart(y) <= 1023 /\ LowPart(y) \in Nat
          /\ x = 65536 + (1024 * HighPart(x) + LowPart(x))
          /\ y = 65536 + (1024 * HighPart(y) + LowPart(y))
      BY <2>3, UnitsCases, SMT
    <3>2. UnitsOf(x)[2] = UnitsOf(y)[2]
      <4>1. 2 \in DOMAIN UnitsOf(x) /\ 2 \in DOMAIN UnitsOf(y)
        BY <3>1, SMT
      <4>. QED  BY <1>2, <4>1 DEF Agree
    <3>3. HighPart(x) = HighPart(y) /\ LowPart(x) = LowPart(y)
      <4>1. 55296 + HighPart(x) = 55296 + HighPart(y)
        BY <2>1, <3>1, SMT
      <4>2. 56320 + LowPart(x) = 56320 + LowPart(y)
        BY <3>1, <3>2, SMT
      <4>3. \A a, b, n \in Int : n + a = n + b => a = b
        OBVIOUS
      <4>4. HighPart(x) \in Int /\ LowPart(x) \in Int /\ HighPart(y) \in Int /\ LowPart(y) \in Int
        BY <3>1, SMT
      <4>. QED  BY <4>1, <4>2, <4>3, <4>4, SMT
    <3>. QED  BY <3>1, <3>3, SMT
  <2>4. CASE x <= 65535 /\ ~(y <= 65535)
    BY <2>1, <2>4, UnitsCases, SMT
  <2>5. CASE ~(x <= 65535) /\ y <= 65535
    BY <2>1, <2>5, UnitsCases, SMT
  <2>. QED  BY <2>2, <2>3, <2>4, <2>5, SMT
<1> DEFINE code == [cp \in PlainUnicode |-> UnitsOf(cp)]
<1>3. \A x \in PlainUnicode : code[x] = UnitsOf(x)
  OBVIOUS
<1>4. code \in [PlainUnicode -> Seq(Int)]
  BY <1>1
<1> HIDE DEF code
<1>5. Spelling(code, PlainUnicode, -1)
  BY <1>1, <1>2, <1>3, <1>4 DEF Spelling
<1>. QED  BY <1>5 DEF code

(* Without surrogates, names of the same units are the same.               *)
LEMMA UnitsIdentify ==
    ASSUME NEW s \in Seq(PlainUnicode), NEW t \in Seq(PlainUnicode),
           to_utf16_code_units(s) = to_utf16_code_units(t)
    PROVE  s = t
<1> DEFINE code == [cp \in PlainUnicode |-> UnitsOf(cp)]
           Parts(u) == [i \in DOMAIN u |-> code[u[i]]]
<1>1. ASSUME NEW u \in Seq(PlainUnicode)
      PROVE  FlattenSeq(Parts(u)) = to_utf16_code_units(u)
  <2>1. \A i \in DOMAIN u : code[u[i]] = UnitsOf(u[i])
    OBVIOUS
  <2> HIDE DEF code
  <2>2. Parts(u) = [i \in DOMAIN u |-> UnitsOf(u[i])]
    BY <2>1
  <2>3. to_utf16_code_units(u) = FlattenSeq([i \in DOMAIN u |-> UnitsOf(u[i])])
    BY SMT DEF to_utf16_code_units, UnitsOf
  <2>. QED  BY <2>2, <2>3
<1>2. Spelling(code, PlainUnicode, -1)
  BY UnitsSpell
<1> HIDE DEF code
<1>3. Agree(FlattenSeq(Parts(s)) \o <<-1>>, FlattenSeq(Parts(t)) \o <<-1>>)
  BY <1>1 DEF Agree
<1> DEFINE c == Parts(s)
           d == Parts(t)
<1>4. Spelled(c, code, s) /\ Spelled(d, code, t)
  BY DEF Spelled
<1>5. Agree(FlattenSeq(c) \o <<-1>>, FlattenSeq(d) \o <<-1>>)
  BY <1>3
<1> HIDE DEF c, d
<1>6. PICK e \in Int : e = -1
  OBVIOUS
<1>7. Spelling(code, PlainUnicode, e) /\ Agree(FlattenSeq(c) \o <<e>>, FlattenSeq(d) \o <<e>>)
  BY <1>2, <1>5, <1>6
<1>. QED  BY <1>4, <1>7, OneReading

-----------------------------------------------------------------------------
(* The order of unit sequences.                                            *)
Before(u, w) ==
    \/ \E i \in DOMAIN u \cap DOMAIN w :
          u[i] < w[i] /\ \A j \in 1..i - 1 : u[j] = w[j]
    \/ Len(u) < Len(w) /\ \A i \in DOMAIN u : u[i] = w[i]

(* Where two sequences of units differ, as compare_keys_jcs finds it.      *)
Differ(u, w) == {i \in DOMAIN u \cap DOMAIN w : u[i] # w[i]}

FirstDiffer(u, w) == CHOOSE i \in Differ(u, w) : \A j \in Differ(u, w) : i <= j

(* What it returns.                                                        *)
Compared(u, w) ==
    IF Differ(u, w) # {} THEN u[FirstDiffer(u, w)] - w[FirstDiffer(u, w)]
    ELSE Len(u) - Len(w)

(* Where texts differ there is a first difference.                         *)
LEMMA FirstDifference ==
    ASSUME NEW u \in Seq(Int), NEW w \in Seq(Int), Differ(u, w) # {}
    PROVE  /\ FirstDiffer(u, w) \in Differ(u, w)
           /\ \A j \in Differ(u, w) : FirstDiffer(u, w) <= j
<1>1. Differ(u, w) \subseteq Nat
  BY DEF Differ
<1>2. \E i \in Differ(u, w) : \A j \in Differ(u, w) : i <= j
  BY <1>1, Serialize!LeastRank
<1>. QED  BY <1>2 DEF FirstDiffer

(* Names are compared in this order, in both directions alike.             *)
LEMMA ComparedIsBefore ==
    ASSUME NEW u \in Seq(Int), NEW w \in Seq(Int)
    PROVE  /\ Compared(u, w) \in Int
           /\ Compared(u, w) < 0 <=> Before(u, w)
           /\ Compared(u, w) = 0 <=> u = w
           /\ Compared(u, w) > 0 <=> Before(w, u)
<1>1. /\ DOMAIN u = 1..Len(u) /\ Len(u) \in Nat
      /\ DOMAIN w = 1..Len(w) /\ Len(w) \in Nat
      /\ \A i \in DOMAIN u : u[i] \in Int
      /\ \A i \in DOMAIN w : w[i] \in Int
  OBVIOUS
<1>2. CASE Differ(u, w) = {}
  <2>1. Compared(u, w) = Len(u) - Len(w)
    BY <1>2 DEF Compared
  <2>2. \A i \in DOMAIN u \cap DOMAIN w : u[i] = w[i]
    BY <1>2 DEF Differ
  <2>3. Len(u) < Len(w) => \A i \in DOMAIN u : u[i] = w[i]
    BY <1>1, <2>2
  <2>4. Len(w) < Len(u) => \A i \in DOMAIN w : w[i] = u[i]
    BY <1>1, <2>2
  <2>5. Before(u, w) <=> Len(u) < Len(w)
    <3>1. ~\E i \in DOMAIN u \cap DOMAIN w : u[i] < w[i]
      BY <1>1, <2>2
    <3>. QED  BY <2>3, <3>1 DEF Before
  <2>6. Before(w, u) <=> Len(w) < Len(u)
    <3>1. ~\E i \in DOMAIN w \cap DOMAIN u : w[i] < u[i]
      BY <1>1, <2>2
    <3>. QED  BY <2>4, <3>1 DEF Before
  <2>7. u = w <=> Len(u) = Len(w)
    <3>1. ASSUME Len(u) = Len(w) PROVE u = w
      <4>1. DOMAIN u = DOMAIN w /\ \A i \in DOMAIN u : u[i] = w[i]
        BY <1>1, <2>2, <3>1
      <4>2. u = [i \in DOMAIN u |-> u[i]] /\ w = [i \in DOMAIN w |-> w[i]]
        OBVIOUS
      <4>. QED  BY <4>1, <4>2
    <3>. QED  BY <3>1
  <2>8. \A a, b \in Nat : /\ a - b \in Int /\ (a - b < 0 <=> a < b)
                          /\ (a - b = 0 <=> a = b) /\ (a - b > 0 <=> b < a)
    OBVIOUS
  <2>9. Len(u) \in Nat /\ Len(w) \in Nat
    BY <1>1
  <2>. QED  BY <2>1, <2>5, <2>6, <2>7, <2>8, <2>9
<1>3. CASE Differ(u, w) # {}
  <2>1. PICK a : a = FirstDiffer(u, w)
    OBVIOUS
  <2>2. a \in Differ(u, w) /\ \A j \in Differ(u, w) : a <= j
    BY <1>3, <2>1, FirstDifference
  <2>3. Compared(u, w) = u[a] - w[a]
    BY <1>3, <2>1 DEF Compared
  <2>4. a \in DOMAIN u /\ a \in DOMAIN w /\ u[a] # w[a] /\ u[a] \in Int /\ w[a] \in Int
    BY <1>1, <2>2 DEF Differ
  <2>5. a \in Nat /\ a >= 1 /\ a <= Len(u) /\ a <= Len(w)
    BY <1>1, <2>4
  <2>6. \A j \in 1..a - 1 : u[j] = w[j]
    <3>. TAKE j \in 1..a - 1
    <3>1. j \in DOMAIN u /\ j \in DOMAIN w /\ ~(a <= j)
      BY <1>1, <2>5
    <3>. QED  BY <2>2, <3>1 DEF Differ
  <2>7. Before(u, w) <=> u[a] < w[a]
    <3>1. ASSUME u[a] < w[a] PROVE Before(u, w)
      BY <2>4, <2>6, <3>1 DEF Before
    <3>2. ASSUME Before(u, w) PROVE u[a] < w[a]
      <4>1. ~\A i \in DOMAIN u : u[i] = w[i]
        BY <2>4
      <4>2. PICK i \in DOMAIN u \cap DOMAIN w : u[i] < w[i] /\ \A j \in 1..i - 1 : u[j] = w[j]
        BY <3>2, <4>1 DEF Before
      <4>3. i \in Nat /\ u[i] \in Int /\ w[i] \in Int /\ u[i] # w[i]
        BY <1>1, <4>2
      <4>4. a <= i
        BY <2>2, <4>2, <4>3 DEF Differ
      <4>5. ~(a < i)
        BY <2>4, <2>5, <4>2, <4>3
      <4>6. a = i
        BY <2>5, <4>3, <4>4, <4>5
      <4>. QED  BY <4>2, <4>6
    <3>. QED  BY <3>1, <3>2
  <2>8. Before(w, u) <=> w[a] < u[a]
    <3>1. ASSUME w[a] < u[a] PROVE Before(w, u)
      <4>1. \A j \in 1..a - 1 : w[j] = u[j]
        BY <2>6
      <4>. QED  BY <2>4, <3>1, <4>1 DEF Before
    <3>2. ASSUME Before(w, u) PROVE w[a] < u[a]
      <4>1. ~\A i \in DOMAIN w : w[i] = u[i]
        BY <2>4
      <4>2. PICK i \in DOMAIN w \cap DOMAIN u : w[i] < u[i] /\ \A j \in 1..i - 1 : w[j] = u[j]
        BY <3>2, <4>1 DEF Before
      <4>3. i \in Nat /\ u[i] \in Int /\ w[i] \in Int /\ u[i] # w[i]
        BY <1>1, <4>2
      <4>4. a <= i
        BY <2>2, <4>2, <4>3 DEF Differ
      <4>5. ~(a < i)
        BY <2>4, <2>5, <4>2, <4>3
      <4>6. a = i
        BY <2>5, <4>3, <4>4, <4>5
      <4>. QED  BY <4>2, <4>6
    <3>. QED  BY <3>1, <3>2
  <2>9. u # w
    BY <2>4
  <2>. QED  BY <2>3, <2>4, <2>7, <2>8, <2>9
<1>. QED  BY <1>2, <1>3

(* The order of texts is transitive.                                       *)
LEMMA BeforeTransitive ==
    ASSUME NEW u \in Seq(Int), NEW w \in Seq(Int), NEW z \in Seq(Int),
           Before(u, w), Before(w, z)
    PROVE  Before(u, z)
<1>1. /\ DOMAIN u = 1..Len(u) /\ Len(u) \in Nat
      /\ DOMAIN w = 1..Len(w) /\ Len(w) \in Nat
      /\ DOMAIN z = 1..Len(z) /\ Len(z) \in Nat
      /\ \A i \in DOMAIN u : u[i] \in Int
      /\ \A i \in DOMAIN w : w[i] \in Int
      /\ \A i \in DOMAIN z : z[i] \in Int
  OBVIOUS
<1>2. CASE \E i \in DOMAIN u \cap DOMAIN w :
              u[i] < w[i] /\ \A j \in 1..i - 1 : u[j] = w[j]
  <2>1. PICK i \in DOMAIN u \cap DOMAIN w : u[i] < w[i] /\ \A j \in 1..i - 1 : u[j] = w[j]
    BY <1>2
  <2>2. i \in Nat /\ i >= 1 /\ i <= Len(u) /\ i <= Len(w)
    BY <1>1, <2>1
  <2>3. CASE \E k \in DOMAIN w \cap DOMAIN z :
                w[k] < z[k] /\ \A j \in 1..k - 1 : w[j] = z[j]
    <3>1. PICK k \in DOMAIN w \cap DOMAIN z : w[k] < z[k] /\ \A j \in 1..k - 1 : w[j] = z[j]
      BY <2>3
    <3>2. k \in Nat /\ k >= 1 /\ k <= Len(w) /\ k <= Len(z)
      BY <1>1, <3>1
    <3>3. CASE i <= k
      <4>1. i \in DOMAIN z /\ (i < k => w[i] = z[i]) /\ (i = k => w[i] < z[i])
        BY <1>1, <2>2, <3>1, <3>2, <3>3
      <4>2. u[i] < z[i]
        BY <1>1, <2>1, <2>2, <3>2, <3>3, <4>1, SMTT(30)
      <4>3. \A j \in 1..i - 1 : u[j] = z[j]
        BY <2>1, <2>2, <3>1, <3>2, <3>3
      <4>. QED  BY <2>1, <4>1, <4>2, <4>3 DEF Before
    <3>4. CASE k < i
      <4>1. k \in DOMAIN u /\ u[k] = w[k]
        BY <1>1, <2>1, <2>2, <3>2, <3>4
      <4>2. \A j \in 1..k - 1 : u[j] = z[j]
        BY <2>1, <2>2, <3>1, <3>2, <3>4
      <4>3. u[k] < z[k]
        BY <3>1, <4>1
      <4>. QED  BY <3>1, <4>1, <4>2, <4>3 DEF Before
    <3>. QED  BY <2>2, <3>2, <3>3, <3>4
  <2>4. CASE Len(w) < Len(z) /\ \A j \in DOMAIN w : w[j] = z[j]
    <3>1. i \in DOMAIN z /\ w[i] = z[i]
      BY <1>1, <2>1, <2>2, <2>4, SMTT(30)
    <3>2. ASSUME NEW j \in 1..i - 1 PROVE u[j] = z[j]
      <4>1. j \in DOMAIN w
        BY <1>1, <2>2
      <4>. QED  BY <2>1, <2>4, <4>1
    <3>3. u[i] < z[i]
      BY <2>1, <3>1
    <3>. QED  BY <2>1, <3>1, <3>2, <3>3 DEF Before
  <2>. QED  BY <2>3, <2>4 DEF Before
<1>3. CASE Len(u) < Len(w) /\ \A i \in DOMAIN u : u[i] = w[i]
  <2>1. CASE \E k \in DOMAIN w \cap DOMAIN z :
                w[k] < z[k] /\ \A j \in 1..k - 1 : w[j] = z[j]
    <3>1. PICK k \in DOMAIN w \cap DOMAIN z : w[k] < z[k] /\ \A j \in 1..k - 1 : w[j] = z[j]
      BY <2>1
    <3>2. k \in Nat /\ k >= 1 /\ k <= Len(w) /\ k <= Len(z)
      BY <1>1, <3>1
    <3>3. CASE k <= Len(u)
      <4>1. k \in DOMAIN u /\ u[k] = w[k]
        BY <1>1, <1>3, <3>2, <3>3
      <4>2. \A j \in 1..k - 1 : u[j] = z[j]
        BY <1>1, <1>3, <3>1, <3>2, <3>3, SMTT(30)
      <4>3. u[k] < z[k]
        BY <3>1, <4>1
      <4>. QED  BY <3>1, <4>1, <4>2, <4>3 DEF Before
    <3>4. CASE Len(u) < k
      <4>1. \A j \in DOMAIN u : u[j] = z[j]
        BY <1>1, <1>3, <3>1, <3>2, <3>4
      <4>2. Len(u) < Len(z)
        BY <1>1, <3>2, <3>4
      <4>. QED  BY <4>1, <4>2 DEF Before
    <3>. QED  BY <1>1, <3>2, <3>3, <3>4
  <2>2. CASE Len(w) < Len(z) /\ \A j \in DOMAIN w : w[j] = z[j]
    <3>1. \A j \in DOMAIN u : u[j] = z[j]
      BY <1>1, <1>3, <2>2
    <3>2. Len(u) < Len(z)
      BY <1>1, <1>3, <2>2
    <3>. QED  BY <3>1, <3>2 DEF Before
  <2>. QED  BY <2>1, <2>2 DEF Before
<1>. QED  BY <1>2, <1>3 DEF Before

(* In a strict order of a finite set, each element has a place of its own  *)
(* and each place an element.                                              *)
Lower(S, R, x) == {y \in S : <<y, x>> \in R}

(* R orders the elements of S strictly and totally.                        *)
StrictOrder(S, R) ==
    /\ \A x \in S : <<x, x>> \notin R
    /\ \A x, y, z \in S : <<x, y>> \in R /\ <<y, z>> \in R => <<x, z>> \in R
    /\ \A x, y \in S : x = y \/ <<x, y>> \in R \/ <<y, x>> \in R

(* More elements are below the greater one.                                *)
LEMMA LowerGrows ==
    ASSUME NEW S, IsFiniteSet(S), NEW R, StrictOrder(S, R),
           NEW x \in S, NEW y \in S, <<x, y>> \in R
    PROVE  Cardinality(Lower(S, R, x)) < Cardinality(Lower(S, R, y))
<1>1. Lower(S, R, x) \subseteq Lower(S, R, y)
  BY DEF Lower, StrictOrder
<1>2. x \in Lower(S, R, y) /\ x \notin Lower(S, R, x)
  BY DEF Lower, StrictOrder
<1>3. Lower(S, R, y) \in SUBSET S
  BY DEF Lower
<1>4. IsFiniteSet(Lower(S, R, y)) /\ IsFiniteSet(Lower(S, R, x))
  BY <1>1, <1>3, FS_Subset
<1>5. /\ Cardinality(Lower(S, R, x)) <= Cardinality(Lower(S, R, y))
      /\ Cardinality(Lower(S, R, y)) = Cardinality(Lower(S, R, x))
            => Lower(S, R, y) = Lower(S, R, x)
  BY <1>1, <1>4, FS_Subset
<1>6. Cardinality(Lower(S, R, x)) \in Nat /\ Cardinality(Lower(S, R, y)) \in Nat
  BY <1>4, FS_CardinalityType
<1>. QED  BY <1>2, <1>5, <1>6

(* The number of elements below is a place: each place is taken, once.     *)
LEMMA Ranking ==
    ASSUME NEW S, IsFiniteSet(S), NEW R, StrictOrder(S, R)
    PROVE  /\ \A x \in S : Cardinality(Lower(S, R, x)) \in 0..Cardinality(S) - 1
           /\ \A x, y \in S :
                 Cardinality(Lower(S, R, x)) = Cardinality(Lower(S, R, y)) => x = y
           /\ \A n \in 0..Cardinality(S) - 1 :
                 \E x \in S : Cardinality(Lower(S, R, x)) = n
<1>0. Cardinality(S) \in Nat
  BY FS_CardinalityType
<1>1. ASSUME NEW x \in S PROVE Cardinality(Lower(S, R, x)) \in 0..Cardinality(S) - 1
  <2>1. Lower(S, R, x) \in SUBSET S /\ x \notin Lower(S, R, x)
    BY DEF Lower, StrictOrder
  <2>2. /\ IsFiniteSet(Lower(S, R, x)) /\ Cardinality(Lower(S, R, x)) <= Cardinality(S)
        /\ Cardinality(S) = Cardinality(Lower(S, R, x)) => S = Lower(S, R, x)
    BY <2>1, FS_Subset
  <2>3. Cardinality(Lower(S, R, x)) \in Nat
    BY <2>2, FS_CardinalityType
  <2>4. Cardinality(Lower(S, R, x)) # Cardinality(S)
    BY <2>1, <2>2
  <2>. QED  BY <1>0, <2>2, <2>3, <2>4
<1>2. ASSUME NEW x \in S, NEW y \in S,
             Cardinality(Lower(S, R, x)) = Cardinality(Lower(S, R, y))
      PROVE  x = y
  <2>1. Cardinality(Lower(S, R, x)) \in Nat /\ Cardinality(Lower(S, R, y)) \in Nat
    BY <1>0, <1>1
  <2>2. <<x, y>> \in R => Cardinality(Lower(S, R, x)) < Cardinality(Lower(S, R, y))
    BY LowerGrows
  <2>3. <<y, x>> \in R => Cardinality(Lower(S, R, y)) < Cardinality(Lower(S, R, x))
    BY LowerGrows
  <2>4. ~(<<x, y>> \in R) /\ ~(<<y, x>> \in R)
    BY <1>2, <2>1, <2>2, <2>3
  <2>. QED  BY <2>4 DEF StrictOrder
<1> DEFINE T == 0..Cardinality(S) - 1
           f == [x \in S |-> Cardinality(Lower(S, R, x))]
<1>3. f \in Injection(S, T)
  <2>1. f \in [S -> T]
    BY <1>1
  <2>2. \A x, y \in S : f[x] = f[y] => x = y
    BY <1>2
  <2> HIDE DEF f, T
  <2>. QED  BY <2>1, <2>2 DEF Injection, IsInjective
<1>4. IsFiniteSet(T) /\ Cardinality(T) = Cardinality(S)
  <2>1. 0 \in Int /\ Cardinality(S) - 1 \in Int
    BY <1>0
  <2>. QED  BY <1>0, <2>1, FS_Interval
<1>5. f \in Surjection(S, T)
  <2> HIDE DEF f, T
  <2>. QED  BY <1>3, <1>4, FS_Injection
<1>6. \A n \in T : \E x \in S : f[x] = n
  <2> HIDE DEF f, T
  <2>. QED  BY <1>5 DEF Surjection
<1>. QED  BY <1>1, <1>2, <1>6

-----------------------------------------------------------------------------
(* Texts joined are a text.                                                *)
LEMMA FlattenType ==
    ASSUME NEW c \in Seq(Seq(Int))
    PROVE  FlattenSeq(c) \in Seq(Int)
<1>1. PICK f : Joins(c, f) /\ FlattenSeq(c) = f[Len(c)]
  BY Flattening
<1>2. Len(c) \in 0..Len(c)
  OBVIOUS
<1>. QED  BY <1>1, <1>2 DEF Joins

(* The units of a code point are integers.                                 *)
LEMMA UnitsType ==
    ASSUME NEW x \in Unicode
    PROVE  UnitsOf(x) \in Seq(Int) /\ x \in Int
<1>1. x \in Int
  BY CodePointRange, SMT
<1>2. x - 65536 \in Int
  BY <1>1, SMT
<1>3. PICK n \in Int : n = x - 65536
  BY <1>2, SMT
<1>4. n \div 1024 \in Int /\ n % 1024 \in Int
  BY SMT
<1>5. PICK a \in Int, b \in Int : a = 55296 + (n \div 1024) /\ b = 56320 + (n % 1024)
  BY <1>4, SMT
<1>6. UnitsOf(x) = <<x>> \/ UnitsOf(x) = <<a, b>>
  BY <1>3, <1>5, SMT DEF UnitsOf
<1>7. <<x>> \in Seq(Int) /\ <<a, b>> \in Seq(Int)
  BY ONLY <1>1
<1>. QED  BY <1>1, <1>6, <1>7, Zenon

(* Both programs encode names alike.                                       *)
LEMMA SameUnits ==
    ASSUME NEW s \in Seq(Unicode)
    PROVE  /\ to_utf16_code_units(s) \in Seq(Int)
           /\ toUTF16(s) = to_utf16_code_units(s)
<1> DEFINE c == [i \in DOMAIN s |-> UnitsOf(s[i])]
<1>1. /\ DOMAIN s = 1..Len(s) /\ Len(s) \in Nat
      /\ \A i \in DOMAIN s : s[i] \in Unicode
  OBVIOUS
<1>2. to_utf16_code_units(s) = FlattenSeq(c)
  BY SMT DEF to_utf16_code_units, UnitsOf
<1>3. \A i \in DOMAIN s : UnitsOf(s[i]) \in Seq(Int) /\ s[i] \in Int
  BY <1>1, UnitsType
<1>4. c \in Seq(Seq(Int))
  BY <1>1, <1>3
<1>5. toUTF16(s) = to_utf16_code_units(s)
  <2>1. \A i \in DOMAIN s : s[i] \in Int
    BY <1>3
  <2>2. \A i \in DOMAIN s : s[i] < 65536 <=> s[i] <= 65535
    BY <2>1, SMT
  <2> DEFINE unit(x) ==
               IF x < 65536 THEN <<x>>
               ELSE <<55296 + ((x - 65536) \div 1024), 56320 + ((x - 65536) % 1024)>>
  <2>3. \A i \in DOMAIN s : unit(s[i]) = UnitsOf(s[i])
    BY <2>2, SMT DEF UnitsOf
  <2>4. toUTF16(s) = FlattenSeq([i \in DOMAIN s |-> unit(s[i])])
    BY SMT DEF toUTF16
  <2> HIDE DEF unit
  <2>5. [i \in DOMAIN s |-> unit(s[i])] = c
    BY <2>3
  <2> HIDE DEF c
  <2>. QED  BY <1>2, <2>4, <2>5
<1>6. FlattenSeq(c) \in Seq(Int)
  <2> HIDE DEF c
  <2>. QED  BY <1>4, FlattenType
<1>. QED  BY <1>2, <1>5, <1>6

(* The pairs of an object, and those whose names differ and have no        *)
(* surrogates.                                                             *)
AnyPairs(pairs) ==
    /\ DOMAIN pairs = 1..Len(pairs) /\ Len(pairs) \in Nat
    /\ \A i \in DOMAIN pairs : pairs[i][1] \in Seq(Unicode)

(* Pairs as a decoded object has them: no surrogates, no repeated name.    *)
PlainPairs(pairs) ==
    /\ AnyPairs(pairs)
    /\ \A i \in DOMAIN pairs : pairs[i][1] \in Seq(PlainUnicode)
    /\ \A i, j \in DOMAIN pairs : pairs[i][1] = pairs[j][1] => i = j

(* The units that a pair is sorted by, and the order it is sorted in.      *)
UnitsAt(pairs, i) == to_utf16_code_units(pairs[i][1])

Earlier(pairs, i, j) ==
    \/ Before(UnitsAt(pairs, i), UnitsAt(pairs, j))
    \/ UnitsAt(pairs, i) = UnitsAt(pairs, j) /\ i < j

Square(S) == S \X S

(* Pairs of elements, for the two orders below.                            *)
LEMMA InSquare ==
    ASSUME NEW S, NEW x \in S, NEW y \in S
    PROVE  <<x, y>> \in Square(S)
BY DEF Square

(* The order of the pairs, as a relation.                                  *)
PairOrder(pairs) == {e \in Square(DOMAIN pairs) : Earlier(pairs, e[1], e[2])}

(* What it is to be in the order of pairs.                                 *)
LEMMA InPairOrder ==
    ASSUME NEW pairs, NEW i \in DOMAIN pairs, NEW j \in DOMAIN pairs
    PROVE  <<i, j>> \in PairOrder(pairs) <=> Earlier(pairs, i, j)
<1>1. <<i, j>> \in Square(DOMAIN pairs)
  BY InSquare
<1>2. <<i, j>>[1] = i /\ <<i, j>>[2] = j
  OBVIOUS
<1>3. <<i, j>> \in PairOrder(pairs)
         <=> Earlier(pairs, <<i, j>>[1], <<i, j>>[2])
  BY <1>1, Zenon DEF PairOrder
<1>. QED  BY <1>2, <1>3

(* The sign of what compare_keys_jcs returns says which name is before the *)
(* other, and compareUTF16 agrees.                                         *)
LEMMA PairsCompared ==
    ASSUME NEW pairs, AnyPairs(pairs), NEW i \in DOMAIN pairs, NEW j \in DOMAIN pairs,
           NEW n, n = compare_keys_jcs(pairs[i][1], pairs[j][1])
    PROVE  /\ n \in Int
           /\ n < 0 <=> Before(UnitsAt(pairs, i), UnitsAt(pairs, j))
           /\ n = 0 <=> UnitsAt(pairs, i) = UnitsAt(pairs, j)
           /\ n > 0 <=> Before(UnitsAt(pairs, j), UnitsAt(pairs, i))
           /\ Less(pairs[i][1], pairs[j][1])
                 <=> Before(UnitsAt(pairs, i), UnitsAt(pairs, j))
<1>1. n = Compared(UnitsAt(pairs, i), UnitsAt(pairs, j))
  BY DEF compare_keys_jcs, Compared, UnitsAt, Differ, FirstDiffer
<1>2. pairs[i][1] \in Seq(Unicode) /\ pairs[j][1] \in Seq(Unicode)
  BY DEF AnyPairs
<1>3. /\ UnitsAt(pairs, i) \in Seq(Int) /\ UnitsAt(pairs, j) \in Seq(Int)
      /\ toUTF16(pairs[i][1]) = UnitsAt(pairs, i)
      /\ toUTF16(pairs[j][1]) = UnitsAt(pairs, j)
  BY <1>2, SameUnits DEF UnitsAt
<1>4. Less(pairs[i][1], pairs[j][1])
        <=> Before(toUTF16(pairs[i][1]), toUTF16(pairs[j][1]))
  BY DEF Less, Before
<1>5. /\ n \in Int
      /\ n < 0 <=> Before(UnitsAt(pairs, i), UnitsAt(pairs, j))
      /\ n = 0 <=> UnitsAt(pairs, i) = UnitsAt(pairs, j)
      /\ n > 0 <=> Before(UnitsAt(pairs, j), UnitsAt(pairs, i))
  BY <1>1, <1>3, ComparedIsBefore
<1>. QED  BY <1>3, <1>4, <1>5

(* Pairs are strictly ordered: by units, then by position as sorted()      *)
(* keeps it.                                                               *)
LEMMA PairsOrdered ==
    ASSUME NEW pairs, AnyPairs(pairs)
    PROVE  StrictOrder(DOMAIN pairs, PairOrder(pairs))
<1>1. \A i, j \in DOMAIN pairs : <<i, j>> \in PairOrder(pairs) <=> Earlier(pairs, i, j)
  BY InPairOrder
<1>2. \A i \in DOMAIN pairs : UnitsAt(pairs, i) \in Seq(Int) /\ i \in Int
  BY SameUnits DEF UnitsAt, AnyPairs
<1>3. \A i \in DOMAIN pairs : <<i, i>> \notin PairOrder(pairs)
  <2>. TAKE i \in DOMAIN pairs
  <2>1. PICK n : n = compare_keys_jcs(pairs[i][1], pairs[i][1])
    OBVIOUS
  <2>2. /\ n \in Int
        /\ n < 0 <=> Before(UnitsAt(pairs, i), UnitsAt(pairs, i))
        /\ n = 0 <=> UnitsAt(pairs, i) = UnitsAt(pairs, i)
    BY <2>1, PairsCompared
  <2>. QED  BY <1>1, <1>2, <2>2 DEF Earlier
<1>4. \A i, j, k \in DOMAIN pairs :
         <<i, j>> \in PairOrder(pairs) /\ <<j, k>> \in PairOrder(pairs)
            => <<i, k>> \in PairOrder(pairs)
  <2>. TAKE i, j, k \in DOMAIN pairs
  <2>1. /\ UnitsAt(pairs, i) \in Seq(Int) /\ UnitsAt(pairs, j) \in Seq(Int)
        /\ UnitsAt(pairs, k) \in Seq(Int)
    BY <1>2
  <2>2. Before(UnitsAt(pairs, i), UnitsAt(pairs, j)) /\ Before(UnitsAt(pairs, j), UnitsAt(pairs, k))
          => Before(UnitsAt(pairs, i), UnitsAt(pairs, k))
    BY <2>1, BeforeTransitive
  <2>3. Earlier(pairs, i, j) /\ Earlier(pairs, j, k) => Earlier(pairs, i, k)
    BY <1>2, <2>2 DEF Earlier
  <2>. QED  BY <1>1, <2>3
<1>5. \A i, j \in DOMAIN pairs :
         i = j \/ <<i, j>> \in PairOrder(pairs) \/ <<j, i>> \in PairOrder(pairs)
  <2>. TAKE i, j \in DOMAIN pairs
  <2>1. PICK n : n = compare_keys_jcs(pairs[i][1], pairs[j][1])
    OBVIOUS
  <2>2. /\ n \in Int
        /\ n < 0 <=> Before(UnitsAt(pairs, i), UnitsAt(pairs, j))
        /\ n = 0 <=> UnitsAt(pairs, i) = UnitsAt(pairs, j)
        /\ n > 0 <=> Before(UnitsAt(pairs, j), UnitsAt(pairs, i))
    BY <2>1, PairsCompared
  <2>3. n < 0 \/ n = 0 \/ n > 0
    BY <2>2
  <2>4. i = j \/ Earlier(pairs, i, j) \/ Earlier(pairs, j, i)
    BY <1>2, <2>2, <2>3 DEF Earlier
  <2>. QED  BY <1>1, <2>4
<1>. QED  BY <1>3, <1>4, <1>5 DEF StrictOrder

(* The place of a pair, and the pairs of each place.                       *)
PairRank(pairs, i) == Cardinality(Lower(DOMAIN pairs, PairOrder(pairs), i))

(* Each pair has a place of its own and each place a pair.                 *)
LEMMA PairsRanked ==
    ASSUME NEW pairs, AnyPairs(pairs)
    PROVE  /\ \A i \in DOMAIN pairs : PairRank(pairs, i) + 1 \in DOMAIN pairs
           /\ \A i, j \in DOMAIN pairs : PairRank(pairs, i) = PairRank(pairs, j) => i = j
           /\ \A n \in DOMAIN pairs : \E i \in DOMAIN pairs : PairRank(pairs, i) = n - 1
<1> DEFINE S == DOMAIN pairs
           R == PairOrder(pairs)
<1>1. S = 1..Len(pairs) /\ Len(pairs) \in Nat
  BY DEF AnyPairs
<1>2. IsFiniteSet(S) /\ Cardinality(S) = Len(pairs)
  <2>1. 1 \in Int /\ Len(pairs) \in Int
    BY <1>1
  <2>2. IsFiniteSet(1..Len(pairs))
        /\ Cardinality(1..Len(pairs)) = IF 1 > Len(pairs) THEN 0 ELSE Len(pairs) - 1 + 1
    BY <2>1, FS_Interval
  <2>. QED  BY <1>1, <2>2
<1>3. StrictOrder(S, R)
  BY PairsOrdered
<1> HIDE DEF S, R
<1>4. /\ \A x \in S : Cardinality(Lower(S, R, x)) \in 0..Cardinality(S) - 1
      /\ \A x, y \in S : Cardinality(Lower(S, R, x)) = Cardinality(Lower(S, R, y)) => x = y
      /\ \A n \in 0..Cardinality(S) - 1 : \E x \in S : Cardinality(Lower(S, R, x)) = n
  BY <1>2, <1>3, Ranking
<1>5. \A i \in S : PairRank(pairs, i) = Cardinality(Lower(S, R, i))
  BY DEF PairRank, S, R
<1>6. \A i \in S : PairRank(pairs, i) + 1 \in S
  <2>. TAKE i \in S
  <2>1. PairRank(pairs, i) \in 0..Len(pairs) - 1
    BY <1>2, <1>4, <1>5
  <2>. QED  BY <1>1, <2>1
<1>7. \A i, j \in S : PairRank(pairs, i) = PairRank(pairs, j) => i = j
  BY <1>4, <1>5
<1>8. \A n \in S : \E i \in S : PairRank(pairs, i) = n - 1
  <2>. TAKE n \in S
  <2>1. n - 1 \in 0..Cardinality(S) - 1
    BY <1>1, <1>2
  <2>2. PICK x \in S : Cardinality(Lower(S, R, x)) = n - 1
    BY <1>4, <2>1
  <2>. QED  BY <1>5, <2>2
<1>. QED  BY <1>6, <1>7, <1>8 DEF S

(* sorted() puts each pair in its place.                                   *)
LEMMA PairsSorted ==
    ASSUME NEW pairs, AnyPairs(pairs), NEW order, order = sorted_keys_jcs(pairs)
    PROVE  /\ DOMAIN order = DOMAIN pairs
           /\ \A n \in DOMAIN pairs :
                 order[n] \in DOMAIN pairs /\ PairRank(pairs, order[n]) = n - 1
           /\ \A i \in DOMAIN pairs : \E n \in DOMAIN order : order[n] = i
<1> DEFINE before(i, j) ==
             LET c == compare_keys_jcs(pairs[i][1], pairs[j][1])
             IN  c < 0 \/ (c = 0 /\ i < j)
<1>1. \A i, j \in DOMAIN pairs : before(i, j) <=> <<i, j>> \in PairOrder(pairs)
  <2>. TAKE i, j \in DOMAIN pairs
  <2>1. PICK n : n = compare_keys_jcs(pairs[i][1], pairs[j][1])
    OBVIOUS
  <2>2. /\ n < 0 <=> Before(UnitsAt(pairs, i), UnitsAt(pairs, j))
        /\ n = 0 <=> UnitsAt(pairs, i) = UnitsAt(pairs, j)
    BY <2>1, PairsCompared
  <2>3. before(i, j) <=> (n < 0 \/ (n = 0 /\ i < j))
    BY <2>1
  <2> HIDE DEF before
  <2>4. before(i, j) <=> Earlier(pairs, i, j)
    BY <2>2, <2>3 DEF Earlier
  <2>. QED  BY <2>4, InPairOrder
<1>2. \A i \in DOMAIN pairs :
         {j \in DOMAIN pairs : before(j, i)} = Lower(DOMAIN pairs, PairOrder(pairs), i)
  BY <1>1 DEF Lower
<1>3. DOMAIN order = DOMAIN pairs
  BY DEF sorted_keys_jcs
<1>4. \A n \in DOMAIN pairs :
         order[n] = CHOOSE i \in DOMAIN pairs :
                       Cardinality({j \in DOMAIN pairs : before(j, i)}) = n - 1
  BY DEF sorted_keys_jcs
<1> HIDE DEF before
<1>5. \A n \in DOMAIN pairs :
         order[n] \in DOMAIN pairs /\ PairRank(pairs, order[n]) = n - 1
  <2>. TAKE n \in DOMAIN pairs
  <2>1. \E i \in DOMAIN pairs : Cardinality({j \in DOMAIN pairs : before(j, i)}) = n - 1
    <3>1. \E i \in DOMAIN pairs : PairRank(pairs, i) = n - 1
      BY PairsRanked
    <3>. QED  BY <1>2, <3>1 DEF PairRank
  <2>2. order[n] \in DOMAIN pairs
        /\ Cardinality({j \in DOMAIN pairs : before(j, order[n])}) = n - 1
    BY <1>4, <2>1
  <2>. QED  BY <1>2, <2>2 DEF PairRank
<1>6. \A i \in DOMAIN pairs : \E n \in DOMAIN order : order[n] = i
  <2>. TAKE i \in DOMAIN pairs
  <2>1. PICK n : n = PairRank(pairs, i) + 1
    OBVIOUS
  <2>2. n \in DOMAIN pairs
    BY <2>1, PairsRanked
  <2>3. PairRank(pairs, i) = n - 1
    <3>1. PairRank(pairs, i) \in Nat
      <4>1. IsFiniteSet(DOMAIN pairs)
        BY FS_Interval DEF AnyPairs
      <4>2. Lower(DOMAIN pairs, PairOrder(pairs), i) \in SUBSET DOMAIN pairs
        BY DEF Lower
      <4>. QED  BY <4>1, <4>2, FS_Subset, FS_CardinalityType DEF PairRank
    <3>. QED  BY <2>1, <3>1
  <2>4. order[n] = i
    <3>1. \A j, k \in DOMAIN pairs : PairRank(pairs, j) = PairRank(pairs, k) => j = k
      BY PairsRanked
    <3>2. order[n] \in DOMAIN pairs /\ PairRank(pairs, order[n]) = n - 1
      BY <1>5, <2>2
    <3>. QED  BY <2>3, <3>1, <3>2
  <2>. QED  BY <1>3, <2>2, <2>4
<1>. QED  BY <1>3, <1>5, <1>6

(* A function that tells the elements of a set apart keeps its size.       *)
LEMMA ImageSize ==
    ASSUME NEW S, IsFiniteSet(S), NEW g, \A x, y \in S : g[x] = g[y] => x = y
    PROVE  /\ IsFiniteSet({g[x] : x \in S})
           /\ Cardinality({g[x] : x \in S}) = Cardinality(S)
<1> DEFINE T == {g[x] : x \in S}
           f == [x \in S |-> g[x]]
<1>1. f \in [S -> T] /\ (\A t \in T : \E x \in S : f[x] = t)
  OBVIOUS
<1>2. \A x, y \in S : f[x] = f[y] => x = y
  OBVIOUS
<1> HIDE DEF f
<1>3. f \in Bijection(S, T)
  <2> HIDE DEF T
  <2>. QED  BY <1>1, <1>2 DEF Bijection, Injection, Surjection, IsInjective
<1>4. ExistsBijection(S, T)
  BY <1>3 DEF ExistsBijection
<1>. QED  BY <1>4, FS_Bijection

(* Go's decoder keeps a string without surrogates.                         *)
LEMMA PlainDecoded ==
    ASSUME NEW s \in Seq(PlainUnicode)
    PROVE  Decoded(s) = s
<1>1. \A i \in DOMAIN s : ~IsSurrogate(s[i])
  BY DEF PlainUnicode
<1>2. Decoded(s) = [i \in DOMAIN s |-> s[i]]
  BY <1>1 DEF Decoded
<1>. QED  BY <1>2

(* The names of the pairs, in their order.                                 *)
NameAt(pairs) == [i \in DOMAIN pairs |-> pairs[i][1]]

(* Names of an object without surrogates: one for each pair, and as many   *)
(* names are less than one as pairs stand before its pair.                 *)
LEMMA PlainNames ==
    ASSUME NEW pairs, PlainPairs(pairs), NEW names, names = Names(pairs)
    PROVE  /\ names = {NameAt(pairs)[i] : i \in DOMAIN pairs}
           /\ IsFiniteSet(names) /\ Cardinality(names) = Len(pairs)
           /\ \A i \in DOMAIN pairs :
                 Cardinality({m \in names : Less(m, pairs[i][1])}) = PairRank(pairs, i)
<1> DEFINE g == NameAt(pairs)
<1>1. \A i \in DOMAIN pairs : g[i] = pairs[i][1] /\ Decoded(pairs[i][1]) = pairs[i][1]
  BY PlainDecoded DEF NameAt, PlainPairs
<1>2. names = {g[i] : i \in DOMAIN pairs}
  BY <1>1 DEF Names
<1>3. \A i, j \in DOMAIN pairs : g[i] = g[j] => i = j
  BY <1>1 DEF PlainPairs
<1> HIDE DEF g
<1>4. IsFiniteSet(DOMAIN pairs) /\ Cardinality(DOMAIN pairs) = Len(pairs)
  <2>1. DOMAIN pairs = 1..Len(pairs) /\ Len(pairs) \in Nat /\ 1 \in Int /\ Len(pairs) \in Int
    BY DEF PlainPairs, AnyPairs
  <2>2. IsFiniteSet(1..Len(pairs))
        /\ Cardinality(1..Len(pairs)) = IF 1 > Len(pairs) THEN 0 ELSE Len(pairs) - 1 + 1
    BY <2>1, FS_Interval
  <2>. QED  BY <2>1, <2>2
<1>5. IsFiniteSet(names) /\ Cardinality(names) = Len(pairs)
  BY <1>2, <1>3, <1>4, ImageSize
<1>6. ASSUME NEW i \in DOMAIN pairs
      PROVE  Cardinality({m \in names : Less(m, pairs[i][1])}) = PairRank(pairs, i)
  <2> DEFINE S == Lower(DOMAIN pairs, PairOrder(pairs), i)
  <2>1. S \in SUBSET DOMAIN pairs
    BY DEF Lower
  <2>2. ASSUME NEW j \in DOMAIN pairs PROVE j \in S <=> Less(pairs[j][1], pairs[i][1])
    <3>1. AnyPairs(pairs)
      BY DEF PlainPairs
    <3>2. Less(pairs[j][1], pairs[i][1]) <=> Before(UnitsAt(pairs, j), UnitsAt(pairs, i))
      BY <3>1, PairsCompared
    <3>3. UnitsAt(pairs, j) = UnitsAt(pairs, i) => j = i
      BY UnitsIdentify DEF UnitsAt, PlainPairs
    <3>4. ~(i < i)
      BY <3>1 DEF AnyPairs
    <3>5. Earlier(pairs, j, i) <=> Before(UnitsAt(pairs, j), UnitsAt(pairs, i))
      BY <3>3, <3>4 DEF Earlier
    <3>. QED  BY <3>2, <3>5, InPairOrder DEF Lower
  <2>3. PairRank(pairs, i) = Cardinality(S)
    BY DEF PairRank
  <2> HIDE DEF S
  <2>4. {m \in names : Less(m, pairs[i][1])} = {g[j] : j \in S}
    BY <1>1, <1>2, <2>1, <2>2
  <2>5. IsFiniteSet(S)
    BY <1>4, <2>1, FS_Subset
  <2>6. \A x, y \in S : g[x] = g[y] => x = y
    BY <1>3, <2>1
  <2>7. Cardinality({g[j] : j \in S}) = Cardinality(S)
    BY <2>5, <2>6, ImageSize
  <2>. QED  BY <2>3, <2>4, <2>7
<1>. QED  BY <1>2, <1>5, <1>6 DEF g

(* The names in the map's order are those of the pairs in sorted() order,  *)
(* and the map's values are theirs.                                        *)
LEMMA NamesSorted ==
    ASSUME NEW pairs, PlainPairs(pairs),
           NEW keys, keys = sortKeysJCS(Names(pairs)),
           NEW order, order = sorted_keys_jcs(pairs)
    PROVE  /\ DOMAIN keys = DOMAIN order
           /\ \A n \in DOMAIN order :
                 /\ order[n] \in DOMAIN pairs
                 /\ keys[n] = pairs[order[n]][1]
                 /\ ValueAt(pairs, keys[n]) = pairs[order[n]][2]
<1> DEFINE names == Names(pairs)
<1>1. /\ names = {NameAt(pairs)[i] : i \in DOMAIN pairs}
      /\ Cardinality(names) = Len(pairs)
      /\ \A i \in DOMAIN pairs :
            Cardinality({m \in names : Less(m, pairs[i][1])}) = PairRank(pairs, i)
  BY PlainNames
<1>2. /\ DOMAIN order = DOMAIN pairs
      /\ \A n \in DOMAIN pairs :
            order[n] \in DOMAIN pairs /\ PairRank(pairs, order[n]) = n - 1
  BY PairsSorted DEF PlainPairs
<1>3. keys = [n \in 1..Cardinality(names) |->
                 CHOOSE k \in names : Cardinality({m \in names : Less(m, k)}) = n - 1]
  BY DEF sortKeysJCS
<1> HIDE DEF names
<1>4. DOMAIN keys = DOMAIN order
  BY <1>1, <1>2, <1>3 DEF PlainPairs, AnyPairs
<1>5. ASSUME NEW n \in DOMAIN pairs PROVE keys[n] = pairs[order[n]][1]
  <2>1. keys[n] = CHOOSE k \in names : Cardinality({m \in names : Less(m, k)}) = n - 1
    BY <1>1, <1>3 DEF PlainPairs, AnyPairs
  <2>2. /\ pairs[order[n]][1] \in names
        /\ Cardinality({m \in names : Less(m, pairs[order[n]][1])}) = n - 1
    <3>1. NameAt(pairs)[order[n]] = pairs[order[n]][1]
      BY <1>2 DEF NameAt
    <3>. QED  BY <1>1, <1>2, <3>1
  <2>3. ASSUME NEW k \in names, Cardinality({m \in names : Less(m, k)}) = n - 1
        PROVE  k = pairs[order[n]][1]
    <3>1. PICK i \in DOMAIN pairs : k = NameAt(pairs)[i]
      BY <1>1
    <3>2. k = pairs[i][1]
      BY <3>1 DEF NameAt
    <3>3. PairRank(pairs, i) = n - 1
      BY <1>1, <2>3, <3>2
    <3>4. i = order[n]
      BY <1>2, <3>3, PairsRanked DEF PlainPairs
    <3>. QED  BY <3>2, <3>4
  <2>. QED  BY <2>1, <2>2, <2>3
<1>6. ASSUME NEW n \in DOMAIN pairs
      PROVE  ValueAt(pairs, keys[n]) = pairs[order[n]][2]
  <2> DEFINE named == {i \in DOMAIN pairs : Decoded(pairs[i][1]) = keys[n]}
             last == CHOOSE i \in named : \A j \in named : j <= i
  <2>1. named = {order[n]}
    <3>1. \A i \in DOMAIN pairs : Decoded(pairs[i][1]) = pairs[i][1]
      BY PlainDecoded DEF PlainPairs
    <3>. QED  BY <1>2, <1>5, <3>1 DEF PlainPairs
  <2>2. order[n] <= order[n]
    BY <1>2 DEF PlainPairs, AnyPairs
  <2>3. ValueAt(pairs, keys[n]) = pairs[last][2]
    BY DEF ValueAt
  <2> HIDE DEF named
  <2>4. last = order[n]
    BY <2>1, <2>2
  <2>. QED  BY <2>3, <2>4
<1>. QED  BY <1>2, <1>4, <1>5, <1>6

-----------------------------------------------------------------------------
(* serializeString's rune, with the cases of main.go.                      *)
Rune(r) ==
    CASE r = 34 -> <<92, 34>>  [] r = 92 -> <<92, 92>>
      [] r = 8  -> <<92, 98>>  [] r = 12 -> <<92, 102>>
      [] r = 10 -> <<92, 110>> [] r = 13 -> <<92, 114>>
      [] r = 9  -> <<92, 116>>
      [] r \notin {8, 9, 10, 12, 13} /\ r < 32 ->
           <<92, 117, 48, 48, HexDigit(r \div 16), HexDigit(r % 16)>>
      [] OTHER -> <<r>>

(* The characters with short escapes.                                      *)
Short == {34, 92, 8, 12, 10, 13, 9}

(* The short escape of a character.                                        *)
LEMMA ShortLetter ==
    ASSUME NEW e \in ShortEscapes
    PROVE  (CHOOSE d \in ShortEscapes : d[1] = e[1])[2] = e[2] /\ e[1] \in Short
<1>1. \A d \in ShortEscapes : d[1] = e[1] => d = e
  BY DEF ShortEscapes
<1>2. (CHOOSE d \in ShortEscapes : d[1] = e[1]) = e
  BY <1>1
<1>3. e[1] \in Short
  BY DEF ShortEscapes, Short
<1>. QED  BY <1>2, <1>3

(* The escape of a character: short, a control character, or none.         *)
LEMMA EscapeCases ==
    ASSUME NEW x \in Nat
    PROVE  /\ \A e \in ShortEscapes : x = e[1] => escaped(x) = <<92, e[2]>>
           /\ x \notin Short /\ x < 32 =>
                 escaped(x) = <<92, 117, 48, 48, HexDigit(x \div 16), HexDigit(x % 16)>>
           /\ x \notin Short /\ ~(x < 32) => escaped(x) = <<x>>
<1>1. ASSUME NEW e \in ShortEscapes, x = e[1] PROVE escaped(x) = <<92, e[2]>>
  <2>1. (CHOOSE d \in ShortEscapes : d[1] = x)[2] = e[2]
    BY <1>1, ShortLetter
  <2>2. \E d \in ShortEscapes : d[1] = x
    BY <1>1
  <2>. QED  BY <2>1, <2>2, Zenon DEF escaped
<1>2. x \notin Short => ~\E d \in ShortEscapes : d[1] = x
  BY ShortLetter
<1>. QED  BY <1>1, <1>2, Zenon DEF escaped

(* Both programs write a character alike.                                  *)
LEMMA RuneEscaped ==
    ASSUME NEW x \in Nat
    PROVE  Rune(x) = escaped(x)
<1>1. CASE x \in Short
  <2>1. /\ <<34, 34>> \in ShortEscapes /\ <<92, 92>> \in ShortEscapes
        /\ <<8, 98>> \in ShortEscapes /\ <<12, 102>> \in ShortEscapes
        /\ <<10, 110>> \in ShortEscapes /\ <<13, 114>> \in ShortEscapes
        /\ <<9, 116>> \in ShortEscapes
    BY DEF ShortEscapes
  <2>2. /\ x = 34 => escaped(x) = <<92, 34>>
        /\ x = 92 => escaped(x) = <<92, 92>>
        /\ x = 8  => escaped(x) = <<92, 98>>
        /\ x = 12 => escaped(x) = <<92, 102>>
        /\ x = 10 => escaped(x) = <<92, 110>>
        /\ x = 13 => escaped(x) = <<92, 114>>
        /\ x = 9  => escaped(x) = <<92, 116>>
    BY <2>1, EscapeCases
  <2>. QED  BY <1>1, <2>2 DEF Short, Rune
<1>2. CASE x \notin Short /\ x < 32
  <2>1. escaped(x) = <<92, 117, 48, 48, HexDigit(x \div 16), HexDigit(x % 16)>>
    BY <1>2, EscapeCases
  <2>. QED  BY <1>2, <2>1 DEF Short, Rune
<1>3. CASE x \notin Short /\ ~(x < 32)
  <2>1. escaped(x) = <<x>>
    BY <1>3, EscapeCases
  <2>. QED  BY <1>3, <2>1 DEF Short, Rune
<1>. QED  BY <1>1, <1>2, <1>3

(* Go and Python write one text for a string without surrogates.           *)
LEMMA SameString ==
    ASSUME NEW s \in Seq(PlainUnicode)
    PROVE  serializeString(s) = serialize_string(s)
<1>1. \A i \in DOMAIN s : s[i] \in Nat
  <2>. TAKE i \in DOMAIN s
  <2>1. s[i] \in Unicode
    BY DEF PlainUnicode
  <2>. QED  BY <2>1, CodePointRange
<1>2. \A i \in DOMAIN s : Rune(s[i]) = escaped(s[i])
  BY <1>1, RuneEscaped
<1>3. serializeString(s) = <<34>> \o FlattenSeq([i \in DOMAIN s |-> Rune(s[i])]) \o <<34>>
  BY DEF serializeString, Rune
<1>4. [i \in DOMAIN s |-> Rune(s[i])] = [i \in DOMAIN s |-> escaped(s[i])]
  BY <1>2
<1>. QED  BY <1>3, <1>4 DEF serialize_string

-----------------------------------------------------------------------------
(* The type of a value is its first component.                             *)
LEMMA Tags ==
    ASSUME NEW x
    PROVE  /\ JNull[1] = "null" /\ JBool(x)[1] = "bool" /\ JInt(x)[1] = "int"
           /\ JFloat(x)[1] = "float" /\ JString(x)[1] = "str"
           /\ JList(x)[1] = "list" /\ JDict(x)[1] = "dict"
BY DEF JNull, JBool, JInt, JFloat, JString, JList, JDict

(* What a value of each kind is made of.                                   *)
Kind(v) ==
    \/ v[1] \in {"null", "bool"} /\ v \in {JNull, JBool(TRUE), JBool(FALSE)}
    \/ v[1] \in {"int", "float"} /\ v[2] \in Int
    \/ v[1] = "str" /\ v[2] \in Seq(Unicode)
    \/ /\ v[1] = "list" /\ v[2] \in Seq(Values)
       /\ \A i \in DOMAIN v[2] : Nesting[v[2][i]] < Nesting[v]
    \/ /\ v[1] = "dict" /\ v[2] \in Seq(Seq(Unicode) \X Values)
       /\ \A i \in DOMAIN v[2] : Nesting[v[2][i][2]] < Nesting[v]
       /\ \A i, j \in DOMAIN v[2] : v[2][i][1] = v[2][j][1] => i = j

(* Every value has one of the types.                                       *)
LEMMA Kinds ==
    ASSUME NEW v \in Values
    PROVE  Kind(v) /\ v[1] \in {"null", "bool", "int", "float", "str", "list", "dict"}
<1>1. /\ v \in {JNull, JBool(TRUE), JBool(FALSE)} => v[1] \in {"null", "bool"}
      /\ v \in {JInt(v[2]), JFloat(v[2])} => v[1] \in {"int", "float"}
      /\ v = JString(v[2]) => v[1] = "str"
      /\ v = JList(v[2]) => v[1] = "list"
      /\ v = JDict(v[2]) => v[1] = "dict"
  BY Tags, ZenonT(60)
<1>2. Kind(v)
  BY <1>1, ValuesAssumption, Zenon DEF Kind
<1>. QED  BY <1>2, Zenon DEF Kind

(* What a string is made of.                                               *)
LEMMA Texts ==
    ASSUME NEW v \in Values, v[1] = "str"
    PROVE  v[2] \in Seq(Unicode)
BY Kinds DEF Kind

(* What a list is made of.                                                 *)
LEMMA Items ==
    ASSUME NEW v \in Values, v[1] = "list"
    PROVE  /\ v[2] \in Seq(Values)
           /\ \A i \in DOMAIN v[2] : v[2][i] \in Values /\ Nesting[v[2][i]] < Nesting[v]
<1>1. v[2] \in Seq(Values) /\ \A i \in DOMAIN v[2] : Nesting[v[2][i]] < Nesting[v]
  BY Kinds DEF Kind
<1>. QED  BY <1>1

(* What an object is made of.                                              *)
LEMMA Members ==
    ASSUME NEW v \in Values, v[1] = "dict"
    PROVE  /\ AnyPairs(v[2])
           /\ \A i \in DOMAIN v[2] :
                 /\ v[2][i] = <<v[2][i][1], v[2][i][2]>>
                 /\ v[2][i][2] \in Values /\ Nesting[v[2][i][2]] < Nesting[v]
           /\ \A i, j \in DOMAIN v[2] : v[2][i][1] = v[2][j][1] => i = j
<1>1. /\ v[2] \in Seq(Seq(Unicode) \X Values)
      /\ \A i \in DOMAIN v[2] : Nesting[v[2][i][2]] < Nesting[v]
      /\ \A i, j \in DOMAIN v[2] : v[2][i][1] = v[2][j][1] => i = j
  BY Kinds DEF Kind
<1>2. PICK S, pairs : S = Seq(Unicode) /\ pairs = v[2]
  OBVIOUS
<1>3. pairs \in Seq(S \X Values)
  BY <1>1, <1>2
<1>4. /\ DOMAIN pairs = 1..Len(pairs) /\ Len(pairs) \in Nat
      /\ \A i \in DOMAIN pairs : pairs[i] \in S \X Values
  BY ONLY <1>3
<1>5. \A p \in S \X Values : p = <<p[1], p[2]>> /\ p[1] \in S /\ p[2] \in Values
  BY ONLY TRUE
<1>6. \A i \in DOMAIN pairs :
         pairs[i] = <<pairs[i][1], pairs[i][2]>> /\ pairs[i][1] \in S /\ pairs[i][2] \in Values
  BY ONLY <1>4, <1>5
<1>. QED  BY <1>1, <1>2, <1>4, <1>6 DEF AnyPairs

(* _serialize is its body.                                                 *)
LEMMA SerializeEquation ==
    ASSUME NEW v \in Values
    PROVE  serialize[v] = SerializeBody(serialize, v)
<1>1. Serialize!Local
  <2>. SUFFICES ASSUME NEW f, NEW g, NEW u \in Values,
                       \A y \in Values : Nesting[y] < Nesting[u] => f[y] = g[y]
                PROVE  SerializeBody(f, u) = SerializeBody(g, u)
    BY DEF Serialize!Local
  <2>1. CASE u[1] = "list"
    <3>1. \A i \in DOMAIN u[2] : f[u[2][i]] = g[u[2][i]]
      BY <2>1, Items
    <3>2. [i \in DOMAIN u[2] |-> f[u[2][i]]] = [i \in DOMAIN u[2] |-> g[u[2][i]]]
      BY <3>1
    <3>3. \A h : SerializeBody(h, u)
                   = <<91>> \o Listed([i \in DOMAIN u[2] |-> h[u[2][i]]]) \o <<93>>
      BY <2>1 DEF SerializeBody
    <3>. QED  BY <3>2, <3>3
  <2>2. CASE u[1] = "dict"
    <3> DEFINE order == sorted_keys_jcs(u[2])
               parts(h) == [i \in DOMAIN order |->
                               serialize_string(u[2][order[i]][1]) \o <<58>>
                                 \o h[u[2][order[i]][2]]]
    <3>1. \A i \in DOMAIN order : order[i] \in DOMAIN u[2]
      BY <2>2, Members, PairsSorted
    <3>2. \A i \in DOMAIN order : f[u[2][order[i]][2]] = g[u[2][order[i]][2]]
      BY <2>2, <3>1, Members
    <3>3. \A h : SerializeBody(h, u) = <<123>> \o Listed(parts(h)) \o <<125>>
      BY <2>2 DEF SerializeBody
    <3> HIDE DEF order
    <3>4. parts(f) = parts(g)
      BY <3>2
    <3>. QED  BY <3>3, <3>4
  <2>3. CASE u[1] \notin {"list", "dict"}
    <3>1. u[1] \in {"null", "bool", "int", "float", "str"}
      BY <2>3, Kinds
    <3>. QED  BY <3>1, SMTT(30) DEF SerializeBody
  <2>. QED  BY <2>1, <2>2, <2>3
<1>2. \E f : f = [u \in Values |-> SerializeBody(f, u)]
  BY <1>1, ValuesAssumption, Serialize!Recursion
<1>3. serialize = CHOOSE f : f = [u \in Values |-> SerializeBody(f, u)]
  BY Zenon DEF serialize, SerializeBody
<1>4. serialize = [u \in Values |-> SerializeBody(serialize, u)]
  BY <1>2, <1>3, Zenon
<1>. QED  BY <1>4

(* The members of a map, whatever their names were before decoding.        *)
LEMMA DecodedPlain ==
    ASSUME NEW s \in Seq(Unicode)
    PROVE  Decoded(s) \in Seq(PlainUnicode)
<1>1. 65533 \in PlainUnicode
  <2>1. LastCodePoint \in Int /\ 65533 <= LastCodePoint
    BY SMT DEF LastCodePoint
  <2>2. 65533 \in Unicode
    BY <2>1, SMT DEF Unicode
  <2>3. ~IsSurrogate(65533)
    BY SMT DEF IsSurrogate
  <2>. QED  BY <2>2, <2>3, SMT DEF PlainUnicode
<1>2. \A i \in DOMAIN s : Decoded(s)[i] \in PlainUnicode
  BY <1>1, SMT DEF Decoded, PlainUnicode
<1>3. DOMAIN Decoded(s) = DOMAIN s /\ Decoded(s) = [i \in DOMAIN s |-> Decoded(s)[i]]
  BY SMT DEF Decoded
<1>. QED  BY <1>2, <1>3, SMT

(* A sequence over fewer elements is one over more.                        *)
LEMMA Widening ==
    ASSUME NEW U, NEW T, T \subseteq U, NEW s \in Seq(T)
    PROVE  s \in Seq(U)
OBVIOUS

(* A string without surrogates is a string.                                *)
LEMMA PlainText ==
    ASSUME NEW s \in Seq(PlainUnicode)
    PROVE  s \in Seq(Unicode)
<1>1. PlainUnicode \subseteq Unicode
  BY Zenon DEF PlainUnicode
<1>. QED  BY <1>1, Widening

(* Go's order of names, as a relation.                                     *)
NameOrder(names) == {e \in Square(names) : Less(e[1], e[2])}

(* What it is to be in the order of names.                                 *)
LEMMA InNameOrder ==
    ASSUME NEW names, NEW x \in names, NEW y \in names
    PROVE  <<x, y>> \in NameOrder(names) <=> Less(x, y)
<1>1. <<x, y>> \in Square(names)
  BY InSquare
<1>2. <<x, y>>[1] = x /\ <<x, y>>[2] = y
  OBVIOUS
<1>3. <<x, y>> \in NameOrder(names) <=> Less(<<x, y>>[1], <<x, y>>[2])
  BY <1>1, Zenon DEF NameOrder
<1>. QED  BY <1>2, <1>3

(* Go's comparison strictly orders names without surrogates.               *)
LEMMA NamesOrdered ==
    ASSUME NEW names, names \subseteq Seq(PlainUnicode)
    PROVE  StrictOrder(names, NameOrder(names))
<1>1. \A x, y \in names : <<x, y>> \in NameOrder(names) <=> Less(x, y)
  BY InNameOrder
<1>2. \A x \in names : toUTF16(x) \in Seq(Int) /\ to_utf16_code_units(x) = toUTF16(x)
  BY PlainText, SameUnits
<1>3. \A x, y \in names : Less(x, y) <=> Before(toUTF16(x), toUTF16(y))
  BY DEF Less, Before
<1>4. ASSUME NEW x \in names, NEW y \in names
      PROVE  /\ ~Less(x, x)
             /\ x = y \/ Less(x, y) \/ Less(y, x)
  <2>1. PICK n : n = Compared(toUTF16(x), toUTF16(y))
    OBVIOUS
  <2>2. /\ n \in Int
        /\ n < 0 <=> Before(toUTF16(x), toUTF16(y))
        /\ n = 0 <=> toUTF16(x) = toUTF16(y)
        /\ n > 0 <=> Before(toUTF16(y), toUTF16(x))
    BY <1>2, <2>1, ComparedIsBefore
  <2>3. toUTF16(x) = toUTF16(y) => x = y
    BY <1>2, UnitsIdentify
  <2>4. PICK k : k = Compared(toUTF16(x), toUTF16(x))
    OBVIOUS
  <2>5. /\ k \in Int
        /\ k < 0 <=> Before(toUTF16(x), toUTF16(x))
        /\ k = 0 <=> toUTF16(x) = toUTF16(x)
    BY <1>2, <2>4, ComparedIsBefore
  <2>6. n < 0 \/ n = 0 \/ n > 0
    BY <2>2
  <2>. QED  BY <1>3, <2>2, <2>3, <2>5, <2>6
<1>5. ASSUME NEW x \in names, NEW y \in names, NEW z \in names, Less(x, y), Less(y, z)
      PROVE  Less(x, z)
  BY <1>2, <1>3, <1>5, BeforeTransitive
<1>. QED  BY <1>1, <1>4, <1>5 DEF StrictOrder

(* The sorted names are names, and the map has a value for each.           *)
LEMMA SortedNames ==
    ASSUME NEW pairs, AnyPairs(pairs), NEW keys, keys = sortKeysJCS(Names(pairs)),
           NEW n \in DOMAIN keys
    PROVE  \E i \in DOMAIN pairs : ValueAt(pairs, keys[n]) = pairs[i][2]
<1> DEFINE names == Names(pairs)
<1>1. names \subseteq Seq(PlainUnicode)
  BY DecodedPlain DEF Names, AnyPairs
<1>2. IsFiniteSet(DOMAIN pairs)
  BY FS_Interval DEF AnyPairs
<1>3. IsFiniteSet(names)
  <2> DEFINE f == [i \in DOMAIN pairs |-> Decoded(pairs[i][1])]
  <2>1. f \in [DOMAIN pairs -> names] /\ \A t \in names : \E i \in DOMAIN pairs : f[i] = t
    BY DEF Names
  <2> HIDE DEF f, names
  <2>2. f \in Surjection(DOMAIN pairs, names)
    BY <2>1 DEF Surjection
  <2>. QED  BY <1>2, <2>2, FS_Surjection
<1>4. StrictOrder(names, NameOrder(names))
  BY <1>1, NamesOrdered
<1>5. keys = [m \in 1..Cardinality(names) |->
                 CHOOSE k \in names : Cardinality({x \in names : Less(x, k)}) = m - 1]
  BY DEF sortKeysJCS
<1>6. \A k \in names : {x \in names : Less(x, k)} = Lower(names, NameOrder(names), k)
  BY InNameOrder DEF Lower
<1>7. Cardinality(names) \in Nat
  BY <1>3, FS_CardinalityType
<1> HIDE DEF names
<1>8. n - 1 \in 0..Cardinality(names) - 1
  BY <1>5, <1>7
<1>9. \E k \in names : Cardinality(Lower(names, NameOrder(names), k)) = n - 1
  BY <1>3, <1>4, <1>8, Ranking
<1>10. keys[n] \in names
  <2>1. \E k \in names : Cardinality({x \in names : Less(x, k)}) = n - 1
    BY <1>6, <1>9
  <2>2. keys[n] = CHOOSE k \in names : Cardinality({x \in names : Less(x, k)}) = n - 1
    BY <1>5
  <2>. QED  BY <2>1, <2>2, Zenon
<1> DEFINE named == {i \in DOMAIN pairs : Decoded(pairs[i][1]) = keys[n]}
           last == CHOOSE i \in named : \A j \in named : j <= i
<1>11. named \subseteq DOMAIN pairs /\ named # {}
  BY <1>10 DEF Names, names
<1>12. ValueAt(pairs, keys[n]) = pairs[last][2]
  BY DEF ValueAt
<1>13. last \in named
  <2> HIDE DEF named
  <2>1. \E i \in named : \A j \in named : j <= i
    <3> DEFINE T == {Len(pairs) - i : i \in named}
    <3>1. DOMAIN pairs = 1..Len(pairs) /\ Len(pairs) \in Nat
      BY DEF AnyPairs
    <3>2. T \subseteq Nat /\ T # {}
      BY <1>11, <3>1
    <3>3. PICK t \in T : \A y \in T : t <= y
      <4> HIDE DEF T
      <4>. QED  BY <3>2, Serialize!LeastRank
    <3>4. PICK i \in named : t = Len(pairs) - i
      OBVIOUS
    <3>5. \A j \in named : j <= i
      <4>. TAKE j \in named
      <4>1. t <= Len(pairs) - j
        BY <3>3
      <4>. QED  BY <1>11, <3>1, <3>4, <4>1
    <3>. QED  BY <3>4, <3>5
  <2>. QED  BY <2>1
<1>. QED  BY <1>11, <1>12, <1>13

(* serializeValue is its body.                                             *)
LEMMA GoEquation ==
    ASSUME NEW v \in Values
    PROVE  serializeValue[v] = GoBody(serializeValue, v)
<1>1. GoSerialize!Local
  <2>. SUFFICES ASSUME NEW f, NEW g, NEW u \in Values,
                       \A y \in Values : Nesting[y] < Nesting[u] => f[y] = g[y]
                PROVE  GoBody(f, u) = GoBody(g, u)
    BY DEF GoSerialize!Local
  <2>1. CASE u[1] = "list"
    <3>1. \A i \in DOMAIN u[2] : f[u[2][i]] = g[u[2][i]]
      BY <2>1, Items
    <3>2. [i \in DOMAIN u[2] |-> f[u[2][i]]] = [i \in DOMAIN u[2] |-> g[u[2][i]]]
      BY <3>1
    <3>3. \A h : GoBody(h, u)
                   = <<91>> \o Listed([i \in DOMAIN u[2] |-> h[u[2][i]]]) \o <<93>>
      BY <2>1 DEF GoBody
    <3>. QED  BY <3>2, <3>3
  <2>2. CASE u[1] = "dict"
    <3> DEFINE keys == sortKeysJCS(Names(u[2]))
               parts(h) == [i \in DOMAIN keys |->
                               serializeString(keys[i]) \o <<58>>
                                 \o h[ValueAt(u[2], keys[i])]]
    <3>1. \A i \in DOMAIN keys : \E j \in DOMAIN u[2] : ValueAt(u[2], keys[i]) = u[2][j][2]
      BY <2>2, Members, SortedNames
    <3>2. \A i \in DOMAIN keys : f[ValueAt(u[2], keys[i])] = g[ValueAt(u[2], keys[i])]
      <4> HIDE DEF keys
      <4>. QED  BY <2>2, <3>1, Members
    <3>3. \A h : GoBody(h, u) = <<123>> \o Listed(parts(h)) \o <<125>>
      BY <2>2 DEF GoBody
    <3> HIDE DEF keys
    <3>4. parts(f) = parts(g)
      BY <3>2
    <3>. QED  BY <3>3, <3>4
  <2>3. CASE u[1] \notin {"list", "dict"}
    <3>1. u[1] \in {"null", "bool", "int", "float", "str"}
      BY <2>3, Kinds
    <3>. QED  BY <3>1 DEF GoBody
  <2>. QED  BY <2>1, <2>2, <2>3
<1>2. \E f : f = [u \in Values |-> GoBody(f, u)]
  BY <1>1, ValuesAssumption, GoSerialize!Recursion
<1>3. serializeValue = CHOOSE f : f = [u \in Values |-> GoBody(f, u)]
  BY Zenon DEF serializeValue, GoBody
<1>4. serializeValue = [u \in Values |-> GoBody(serializeValue, u)]
  BY <1>2, <1>3, Zenon
<1>. QED  BY <1>4

(* Inside is its body.                                                     *)
LEMMA InsideEquation ==
    ASSUME NEW v \in Values
    PROVE  Inside[v] = InsideBody(Inside, v)
<1>1. Insides!Local
  <2>. SUFFICES ASSUME NEW f, NEW g, NEW u \in Values,
                       \A y \in Values : Nesting[y] < Nesting[u] => f[y] = g[y]
                PROVE  InsideBody(f, u) = InsideBody(g, u)
    BY DEF Insides!Local
  <2>1. CASE u[1] = "list"
    <3>1. \A i \in DOMAIN u[2] : f[u[2][i]] = g[u[2][i]]
      BY <2>1, Items
    <3>2. {f[u[2][i]] : i \in DOMAIN u[2]} = {g[u[2][i]] : i \in DOMAIN u[2]}
      BY <3>1
    <3>. QED  BY <2>1, <3>2 DEF InsideBody
  <2>2. CASE u[1] = "dict"
    <3>1. \A i \in DOMAIN u[2] : f[u[2][i][2]] = g[u[2][i][2]]
      BY <2>2, Members
    <3>2. {f[u[2][i][2]] \cup {JString(u[2][i][1])} : i \in DOMAIN u[2]}
            = {g[u[2][i][2]] \cup {JString(u[2][i][1])} : i \in DOMAIN u[2]}
      BY <3>1
    <3>. QED  BY <2>2, <3>2 DEF InsideBody
  <2>3. CASE u[1] \notin {"list", "dict"}
    BY <2>3 DEF InsideBody
  <2>. QED  BY <2>1, <2>2, <2>3
<1>2. \E f : f = [u \in Values |-> InsideBody(f, u)]
  BY <1>1, ValuesAssumption, Insides!Recursion
<1>3. Inside = CHOOSE f : f = [u \in Values |-> InsideBody(f, u)]
  BY Zenon DEF Inside, InsideBody
<1>4. Inside = [u \in Values |-> InsideBody(Inside, u)]
  BY <1>2, <1>3, Zenon
<1>. QED  BY <1>4

-----------------------------------------------------------------------------
(* What is inside a part is inside the whole.                              *)
LEMMA InsideParts ==
    ASSUME NEW v \in Values
    PROVE  /\ v \in Inside[v]
           /\ v[1] = "list" => \A i \in DOMAIN v[2] : Inside[v[2][i]] \subseteq Inside[v]
           /\ v[1] = "dict" => \A i \in DOMAIN v[2] :
                 Inside[v[2][i][2]] \subseteq Inside[v] /\ JString(v[2][i][1]) \in Inside[v]
<1>1. Inside[v] = InsideBody(Inside, v)
  BY InsideEquation
<1>2. v \in Inside[v]
  BY <1>1 DEF InsideBody
<1>3. CASE v[1] = "list"
  <2>1. Inside[v] = {v} \cup UNION {Inside[v[2][i]] : i \in DOMAIN v[2]}
    BY <1>1, <1>3 DEF InsideBody
  <2>. QED  BY <1>2, <1>3, <2>1
<1>4. CASE v[1] = "dict"
  <2>1. Inside[v] = {v} \cup UNION {Inside[v[2][i][2]] \cup {JString(v[2][i][1])} :
                                       i \in DOMAIN v[2]}
    BY <1>1, <1>4 DEF InsideBody
  <2>. QED  BY <1>2, <1>4, <2>1
<1>. QED  BY <1>2, <1>3, <1>4

(* Without surrogates a string of a value is plain.                        *)
LEMMA PlainInside ==
    ASSUME NEW v, ~Unencodable(v), NEW s \in Seq(Unicode), JString(s) \in Inside[v]
    PROVE  s \in Seq(PlainUnicode)
<1>1. JString(s)[1] = "str" /\ JString(s)[2] = s
  BY DEF JString
<1>2. \A i \in DOMAIN s : ~IsSurrogate(s[i])
  BY <1>1, Zenon DEF Unencodable
<1>3. \A i \in DOMAIN s : s[i] \in Unicode
  <2>1. PICK U : U = Unicode
    OBVIOUS
  <2>. QED  BY <2>1
<1>4. \A i \in DOMAIN s : s[i] \in PlainUnicode
  BY <1>2, <1>3, Zenon DEF PlainUnicode
<1>5. s = [i \in DOMAIN s |-> s[i]] /\ DOMAIN s = 1..Len(s) /\ Len(s) \in Nat
  OBVIOUS
<1>. QED  BY <1>4, <1>5

(* The parts of a value without surrogates have none.                      *)
LEMMA EncodableParts ==
    ASSUME NEW v \in Values, ~Unencodable(v)
    PROVE  /\ v[1] = "str" => v[2] \in Seq(PlainUnicode)
           /\ v[1] = "list" => \A i \in DOMAIN v[2] : ~Unencodable(v[2][i])
           /\ v[1] = "dict" =>
                 /\ PlainPairs(v[2])
                 /\ \A i \in DOMAIN v[2] : ~Unencodable(v[2][i][2])
<1>1. ASSUME v[1] = "str" PROVE v[2] \in Seq(PlainUnicode)
  <2>1. v[2] \in Seq(Unicode)
    BY <1>1, Texts
  <2>2. \A i \in DOMAIN v[2] : ~IsSurrogate(v[2][i])
    BY <1>1, InsideParts, Zenon DEF Unencodable
  <2>3. PICK s : s = v[2]
    OBVIOUS
  <2>4. \A i \in DOMAIN s : s[i] \in Unicode
    <3>1. PICK U : U = Unicode
      OBVIOUS
    <3>. QED  BY <2>1, <2>3, <3>1
  <2>5. \A i \in DOMAIN s : s[i] \in PlainUnicode
    BY <2>2, <2>3, <2>4, Zenon DEF PlainUnicode
  <2>6. s = [i \in DOMAIN s |-> s[i]] /\ DOMAIN s = 1..Len(s) /\ Len(s) \in Nat
    BY <2>1, <2>3
  <2>. QED  BY <2>3, <2>5, <2>6
<1>2. ASSUME v[1] = "list", NEW i \in DOMAIN v[2] PROVE ~Unencodable(v[2][i])
  BY <1>2, InsideParts, Zenon DEF Unencodable
<1>3. ASSUME v[1] = "dict"
      PROVE  /\ PlainPairs(v[2])
             /\ \A i \in DOMAIN v[2] : ~Unencodable(v[2][i][2])
  <2>1. \A i \in DOMAIN v[2] : ~Unencodable(v[2][i][2])
    BY <1>3, InsideParts, Zenon DEF Unencodable
  <2>2. /\ AnyPairs(v[2])
        /\ \A i, j \in DOMAIN v[2] : v[2][i][1] = v[2][j][1] => i = j
    BY <1>3, Members
  <2>3. \A i \in DOMAIN v[2] : v[2][i][1] \in Seq(PlainUnicode)
    BY <1>3, <2>2, InsideParts, PlainInside DEF AnyPairs
  <2>. QED  BY <2>1, <2>2, <2>3 DEF PlainPairs
<1>. QED  BY <1>1, <1>2, <1>3

(* The parts of a body in the profile are in the profile.                  *)
LEMMA ProfileParts ==
    ASSUME NEW v \in Values, InProfile(v)
    PROVE  /\ v[1] \notin {"int", "float"} /\ ~Unencodable(v) /\ ~Refused(v)
           /\ v[1] = "list" => \A i \in DOMAIN v[2] : InProfile(v[2][i])
           /\ v[1] = "dict" => \A i \in DOMAIN v[2] : InProfile(v[2][i][2])
<1>1. ~Unencodable(v) /\ \A u \in Inside[v] : u[1] \notin {"int", "float"}
  BY DEF InProfile
<1>2. v[1] \notin {"int", "float"} /\ ~Refused(v)
  BY <1>1, InsideParts DEF Refused
<1>3. ASSUME v[1] = "list", NEW i \in DOMAIN v[2] PROVE InProfile(v[2][i])
  BY <1>1, <1>3, InsideParts, EncodableParts DEF InProfile
<1>4. ASSUME v[1] = "dict", NEW i \in DOMAIN v[2] PROVE InProfile(v[2][i][2])
  BY <1>1, <1>4, InsideParts, EncodableParts DEF InProfile
<1>. QED  BY <1>1, <1>2, <1>3, <1>4

(* The two programs make one text of every body that a receipt can have.   *)
LEMMA SameText ==
    ASSUME NEW v \in Values, InProfile(v)
    PROVE  serializeValue[v] = serialize[v]
<1> DEFINE S == {x \in Values : InProfile(x) => serializeValue[x] = serialize[x]}
<1>1. ASSUME NEW x \in Values, \A y \in Values : Nesting[y] < Nesting[x] => y \in S
      PROVE  x \in S
  <2>. SUFFICES ASSUME InProfile(x) PROVE serializeValue[x] = serialize[x]
    OBVIOUS
  <2>1. serializeValue[x] = GoBody(serializeValue, x) /\ serialize[x] = SerializeBody(serialize, x)
    BY GoEquation, SerializeEquation
  <2>2. x[1] \in {"null", "bool", "str", "list", "dict"} /\ ~Unencodable(x)
    BY Kinds, ProfileParts
  <2>3. CASE x[1] \in {"null", "bool"}
    BY <2>1, <2>3 DEF GoBody
  <2>4. CASE x[1] = "str"
    <3>1. x[2] \in Seq(PlainUnicode)
      BY <2>2, <2>4, EncodableParts
    <3>2. serializeString(Decoded(x[2])) = serialize_string(x[2])
      BY <3>1, PlainDecoded, SameString
    <3>. QED  BY <2>1, <2>4, <3>2 DEF GoBody, SerializeBody
  <2>5. CASE x[1] = "list"
    <3>1. \A i \in DOMAIN x[2] : serializeValue[x[2][i]] = serialize[x[2][i]]
      BY <1>1, <2>5, Items, ProfileParts
    <3>2. [i \in DOMAIN x[2] |-> serializeValue[x[2][i]]]
            = [i \in DOMAIN x[2] |-> serialize[x[2][i]]]
      BY <3>1
    <3>3. serializeValue[x] =
            <<91>> \o Listed([i \in DOMAIN x[2] |-> serializeValue[x[2][i]]]) \o <<93>>
      BY <2>1, <2>5 DEF GoBody
    <3>4. serialize[x] = <<91>> \o Listed([i \in DOMAIN x[2] |-> serialize[x[2][i]]]) \o <<93>>
      BY <2>1, <2>5 DEF SerializeBody
    <3>. QED  BY <3>2, <3>3, <3>4
  <2>6. CASE x[1] = "dict"
    <3> DEFINE keys  == sortKeysJCS(Names(x[2]))
               order == sorted_keys_jcs(x[2])
               goParts == [i \in DOMAIN keys |->
                              serializeString(keys[i]) \o <<58>>
                                \o serializeValue[ValueAt(x[2], keys[i])]]
               parts   == [i \in DOMAIN order |->
                              serialize_string(x[2][order[i]][1]) \o <<58>>
                                \o serialize[x[2][order[i]][2]]]
    <3>1. serializeValue[x] = <<123>> \o Listed(goParts) \o <<125>>
      BY <2>1, <2>6 DEF GoBody
    <3>2. serialize[x] = <<123>> \o Listed(parts) \o <<125>>
      BY <2>1, <2>6 DEF SerializeBody
    <3>3. PlainPairs(x[2])
      BY <2>2, <2>6, EncodableParts
    <3>4. /\ DOMAIN keys = DOMAIN order
          /\ \A n \in DOMAIN order :
                /\ order[n] \in DOMAIN x[2]
                /\ keys[n] = x[2][order[n]][1]
                /\ ValueAt(x[2], keys[n]) = x[2][order[n]][2]
      BY <3>3, NamesSorted
    <3> HIDE DEF keys, order
    <3>5. ASSUME NEW n \in DOMAIN order
          PROVE  /\ serializeString(keys[n]) = serialize_string(x[2][order[n]][1])
                 /\ serializeValue[ValueAt(x[2], keys[n])] = serialize[x[2][order[n]][2]]
      <4>1. x[2][order[n]][1] \in Seq(PlainUnicode)
        BY <3>3, <3>4 DEF PlainPairs
      <4>2. x[2][order[n]][2] \in S /\ InProfile(x[2][order[n]][2])
        <5> HIDE DEF S
        <5>. QED  BY <1>1, <2>6, <3>4, Members, ProfileParts
      <4>. QED  BY <3>4, <4>1, <4>2, SameString
    <3>6. goParts = parts
      BY <3>4, <3>5
    <3>. QED  BY <3>1, <3>2, <3>6
  <2>. QED  BY <2>2, <2>3, <2>4, <2>5, <2>6
<1>2. v \in S
  <2> HIDE DEF S
  <2>. QED  BY <1>1, ValuesAssumption, Serialize!Induction
<1>. QED  BY <1>2

-----------------------------------------------------------------------------
(* Every value has a text, whose first character tells its kind.           *)
LEMMA DigitsEquation ==
    ASSUME NEW n \in Int
    PROVE  Digits[n] = DigitsBody(Digits, n)
<1>1. /\ Size \in [Int -> Nat]
      /\ \A m \in Int : m < 0 => Size[-m] < Size[m]
      /\ \A m \in Int : ~(m < 0) /\ ~(m < 10) => m \div 10 \in Int /\ Size[m \div 10] < Size[m]
  <2>1. \A m \in Int : Size[m] = IF m < 0 THEN 1 - m ELSE m
    BY DEF Size
  <2>2. ASSUME NEW m \in Int, m < 0 PROVE Size[-m] < Size[m]
    <3>1. -m \in Int /\ ~(-m < 0)
      BY <2>2
    <3>2. Size[-m] = -m /\ Size[m] = 1 - m
      BY <2>1, <2>2, <3>1
    <3>. QED  BY <3>2
  <2>3. ASSUME NEW m \in Int, ~(m < 0), ~(m < 10)
        PROVE  m \div 10 \in Int /\ Size[m \div 10] < Size[m]
    <3>1. m \div 10 \in Int /\ ~(m \div 10 < 0) /\ m \div 10 < m
      BY <2>3
    <3>2. Size[m \div 10] = m \div 10 /\ Size[m] = m
      BY <2>1, <2>3, <3>1
    <3>. QED  BY <3>1, <3>2
  <2>4. Size \in [Int -> Nat]
    BY DEF Size
  <2>. QED  BY <2>2, <2>3, <2>4
<1>2. Numerals!Local
  <2>. SUFFICES ASSUME NEW f, NEW g, NEW m \in Int,
                       \A y \in Int : Size[y] < Size[m] => f[y] = g[y]
                PROVE  DigitsBody(f, m) = DigitsBody(g, m)
    BY DEF Numerals!Local
  <2>1. m < 0 => f[-m] = g[-m]
    <3>1. -m \in Int
      OBVIOUS
    <3>. QED  BY <1>1, <3>1
  <2>2. ~(m < 0) /\ ~(m < 10) => f[m \div 10] = g[m \div 10]
    BY <1>1
  <2>. QED  BY <2>1, <2>2, Zenon DEF DigitsBody
<1>3. \E f : f = [m \in Int |-> DigitsBody(f, m)]
  BY <1>1, <1>2, Numerals!Recursion
<1>4. Digits = CHOOSE f : f = [m \in Int |-> DigitsBody(f, m)]
  BY Zenon DEF Digits, DigitsBody
<1>5. Digits = [m \in Int |-> DigitsBody(Digits, m)]
  BY <1>3, <1>4, Zenon
<1>. QED  BY <1>5

(* A text that begins as a number does.                                    *)
Numeral(t) ==
    t \in Seq(Int) /\ t # <<>> /\ (t[1] = 45 \/ (48 <= t[1] /\ t[1] <= 57))

(* The digits of an integer are a numeral.                                 *)
LEMMA DigitsType ==
    ASSUME NEW n \in Int
    PROVE  Numeral(Digits[n])
<1> DEFINE S == {m \in Int : Numeral(Digits[m])}
<1>1. Size \in [Int -> Nat] /\ \A m \in Int : Size[m] = IF m < 0 THEN 1 - m ELSE m
  BY DEF Size
<1>2. ASSUME NEW m \in Int, \A y \in Int : Size[y] < Size[m] => y \in S
      PROVE  m \in S
  <2>. SUFFICES Numeral(Digits[m])
    OBVIOUS
  <2>1. Digits[m] = DigitsBody(Digits, m)
    BY DigitsEquation
  <2>2. CASE m < 0
    <3>1. PICK k \in Int : k = -m /\ ~(k < 0) /\ k < 1 - m
      BY <2>2
    <3>2. Numeral(Digits[k])
      BY <1>1, <1>2, <2>2, <3>1
    <3>3. Digits[m] = <<45>> \o Digits[k]
      BY <2>1, <2>2, <3>1, Zenon DEF DigitsBody
    <3>. QED  BY <3>2, <3>3 DEF Numeral
  <2>3. CASE ~(m < 0) /\ m < 10
    <3>1. Digits[m] = <<48 + m>>
      BY <2>1, <2>3, Zenon DEF DigitsBody
    <3>. QED  BY <2>3, <3>1 DEF Numeral
  <2>4. CASE ~(m < 0) /\ ~(m < 10)
    <3>1. PICK k \in Int, r \in Int : k = m \div 10 /\ r = 48 + (m % 10) /\ ~(k < 0) /\ k < m
      BY <2>4
    <3>2. Numeral(Digits[k])
      BY <1>1, <1>2, <2>4, <3>1
    <3>3. Digits[m] = Digits[k] \o <<r>>
      BY <2>1, <2>4, <3>1, Zenon DEF DigitsBody
    <3>4. Digits[m] \in Seq(Int) /\ Digits[m] # <<>> /\ Digits[m][1] = Digits[k][1]
      BY <3>2, <3>3 DEF Numeral
    <3>. QED  BY <3>2, <3>4 DEF Numeral
  <2>. QED  BY <2>2, <2>3, <2>4
<1>3. n \in S
  <2> HIDE DEF S
  <2>. QED  BY <1>1, <1>2, Numerals!Induction
<1>. QED  BY <1>3

(* A character is written as a text that is not empty.                     *)
LEMMA EscapedType ==
    ASSUME NEW x \in Nat
    PROVE  escaped(x) \in Seq(Int) /\ escaped(x) # <<>>
<1>1. CASE x \in Short
  <2>1. PICK e \in ShortEscapes : x = e[1]
    BY <1>1 DEF Short, ShortEscapes
  <2>2. escaped(x) = <<92, e[2]>>
    BY <2>1, EscapeCases
  <2>3. e[2] \in Int
    BY DEF ShortEscapes
  <2>. QED  BY <2>2, <2>3
<1>2. CASE x \notin Short /\ x < 32
  <2>1. x \div 16 \in Int /\ x % 16 \in Int
    OBVIOUS
  <2>2. HexDigit(x \div 16) \in Int /\ HexDigit(x % 16) \in Int
    BY <2>1 DEF HexDigit
  <2>3. escaped(x) = <<92, 117, 48, 48, HexDigit(x \div 16), HexDigit(x % 16)>>
    BY <1>2, EscapeCases
  <2>. QED  BY <2>2, <2>3
<1>3. CASE x \notin Short /\ ~(x < 32)
  <2>1. escaped(x) = <<x>>
    BY <1>3, EscapeCases
  <2>. QED  BY <2>1
<1>. QED  BY <1>1, <1>2, <1>3

(* Code points are natural numbers.                                        *)
LEMMA Characters ==
    ASSUME NEW s \in Seq(Unicode)
    PROVE  \A i \in DOMAIN s : s[i] \in Nat
<1>. TAKE i \in DOMAIN s
<1>1. s[i] \in Unicode
  <2>1. PICK U : U = Unicode
    OBVIOUS
  <2>. QED  BY <2>1
<1>. QED  BY <1>1, CodePointRange

(* The text of a string, between its quotes.                               *)
Escaped(s) == [i \in DOMAIN s |-> escaped(s[i])]

(* The text of a string begins with a quote.                               *)
LEMMA StringType ==
    ASSUME NEW s \in Seq(Unicode)
    PROVE  /\ Escaped(s) \in Seq(Seq(Int)) /\ FlattenSeq(Escaped(s)) \in Seq(Int)
           /\ serialize_string(s) = <<34>> \o FlattenSeq(Escaped(s)) \o <<34>>
           /\ serialize_string(s) \in Seq(Int) /\ serialize_string(s) # <<>>
           /\ serialize_string(s)[1] = 34
<1>1. \A i \in DOMAIN s : escaped(s[i]) \in Seq(Int)
  BY Characters, EscapedType
<1>2. DOMAIN s = 1..Len(s) /\ Len(s) \in Nat
  OBVIOUS
<1>3. Escaped(s) \in Seq(Seq(Int))
  BY <1>1, <1>2 DEF Escaped
<1>4. FlattenSeq(Escaped(s)) \in Seq(Int)
  BY <1>3, FlattenType
<1>5. serialize_string(s) = <<34>> \o FlattenSeq(Escaped(s)) \o <<34>>
  BY Zenon DEF serialize_string, Escaped
<1>. QED  BY <1>3, <1>4, <1>5

(* The parts of a list with the commas before them.                        *)
WithCommas(parts) ==
    [i \in DOMAIN parts |-> IF i = 1 THEN parts[i] ELSE <<44>> \o parts[i]]

(* Parts with commas between them are parts joined, each but the first     *)
(* behind its comma.                                                       *)
LEMMA ListedType ==
    ASSUME NEW parts \in Seq(Seq(Int))
    PROVE  /\ WithCommas(parts) \in Seq(Seq(Int)) /\ Listed(parts) \in Seq(Int)
           /\ Listed(parts) = FlattenSeq(WithCommas(parts))
<1>1. DOMAIN parts = 1..Len(parts) /\ Len(parts) \in Nat
      /\ \A i \in DOMAIN parts : parts[i] \in Seq(Int) /\ <<44>> \o parts[i] \in Seq(Int)
  OBVIOUS
<1>2. WithCommas(parts) \in Seq(Seq(Int))
  BY <1>1 DEF WithCommas
<1>3. Listed(parts) = FlattenSeq(WithCommas(parts))
  BY Zenon DEF Listed, WithCommas
<1>. QED  BY <1>2, <1>3, FlattenType

(* The texts of the items of a list and of the members of an object.       *)
ItemTexts(v) == [i \in DOMAIN v[2] |-> serialize[v[2][i]]]

MemberText(pair) == serialize_string(pair[1]) \o <<58>> \o serialize[pair[2]]

MemberTexts(v) ==
    [n \in DOMAIN sorted_keys_jcs(v[2]) |-> MemberText(v[2][sorted_keys_jcs(v[2])[n]])]

(* The texts of the three words.                                           *)
LEMMA WordTexts ==
    ASSUME NEW v \in Values
    PROVE  /\ v = JNull => serialize[v] = <<110, 117, 108, 108>>
           /\ v = JBool(TRUE) => serialize[v] = <<116, 114, 117, 101>>
           /\ v = JBool(FALSE) => serialize[v] = <<102, 97, 108, 115, 101>>
<1>1. serialize[v] = SerializeBody(serialize, v)
  BY SerializeEquation
<1>2. v = JNull => serialize[v] = <<110, 117, 108, 108>>
  <2>1. JNull[1] = "null"
    BY DEF JNull
  <2>. QED  BY <1>1, <2>1 DEF SerializeBody
<1>3. ASSUME v = JBool(TRUE) PROVE serialize[v] = <<116, 114, 117, 101>>
  <2>1. v[1] = "bool"
    BY <1>3, Tags
  <2>2. SerializeBody(serialize, v) =
          IF v[2] THEN <<116, 114, 117, 101>> ELSE <<102, 97, 108, 115, 101>>
    BY <2>1 DEF SerializeBody
  <2>3. v[2] = TRUE
    BY <1>3 DEF JBool
  <2>. QED  BY <1>1, <2>2, <2>3, Zenon
<1>4. ASSUME v = JBool(FALSE) PROVE serialize[v] = <<102, 97, 108, 115, 101>>
  <2>1. v[1] = "bool"
    BY <1>4, Tags
  <2>2. SerializeBody(serialize, v) =
          IF v[2] THEN <<116, 114, 117, 101>> ELSE <<102, 97, 108, 115, 101>>
    BY <2>1 DEF SerializeBody
  <2>3. v[2] = FALSE
    BY <1>4 DEF JBool
  <2>. QED  BY <1>1, <2>2, <2>3, Zenon
<1>. QED  BY <1>2, <1>3, <1>4, Zenon

(* The texts of the other types.                                           *)
LEMMA TextCases ==
    ASSUME NEW v \in Values
    PROVE  /\ v[1] = "int" => serialize[v] = Digits[v[2]]
           /\ v[1] = "float" => serialize[v] = <<48>>
           /\ v[1] = "str" => serialize[v] = serialize_string(v[2])
           /\ v[1] = "list" => serialize[v] = <<91>> \o Listed(ItemTexts(v)) \o <<93>>
           /\ v[1] = "dict" => serialize[v] = <<123>> \o Listed(MemberTexts(v)) \o <<125>>
<1>1. serialize[v] = SerializeBody(serialize, v)
  BY SerializeEquation
<1>2. v[1] = "int" => serialize[v] = Digits[v[2]]
  BY <1>1 DEF SerializeBody
<1>3. v[1] = "float" => serialize[v] = <<48>>
  BY <1>1 DEF SerializeBody
<1>4. v[1] = "str" => serialize[v] = serialize_string(v[2])
  BY <1>1 DEF SerializeBody
<1>5. v[1] = "list" => serialize[v] = <<91>> \o Listed(ItemTexts(v)) \o <<93>>
  BY <1>1 DEF SerializeBody, ItemTexts
<1>6. v[1] = "dict" => serialize[v] = <<123>> \o Listed(MemberTexts(v)) \o <<125>>
  BY <1>1 DEF SerializeBody, MemberTexts, MemberText
<1>. QED  BY <1>2, <1>3, <1>4, <1>5, <1>6

(* The first characters of the texts of each kind.                         *)
Typed(v) ==
    /\ serialize[v] \in Seq(Int) /\ serialize[v] # <<>>
    /\ v = JNull => serialize[v][1] = 110
    /\ v = JBool(TRUE) => serialize[v][1] = 116
    /\ v = JBool(FALSE) => serialize[v][1] = 102
    /\ v[1] \in {"int", "float"} => Numeral(serialize[v])
    /\ v[1] = "str" => serialize[v][1] = 34
    /\ v[1] = "list" => serialize[v][1] = 91
    /\ v[1] = "dict" => serialize[v][1] = 123

(* A text in brackets begins with the opening one.                         *)
LEMMA Bracketed ==
    ASSUME NEW t \in Seq(Int), NEW a \in Int, NEW b \in Int
    PROVE  /\ <<a>> \o t \o <<b>> \in Seq(Int) /\ <<a>> \o t \o <<b>> # <<>>
           /\ (<<a>> \o t \o <<b>>)[1] = a
OBVIOUS

(* The text of a member begins with a quote.                               *)
LEMMA MemberTextType ==
    ASSUME NEW pair, pair[1] \in Seq(Unicode), serialize[pair[2]] \in Seq(Int)
    PROVE  /\ MemberText(pair) \in Seq(Int) /\ MemberText(pair) # <<>>
           /\ MemberText(pair)[1] = 34
<1>1. PICK s, t : s = serialize_string(pair[1]) /\ t = serialize[pair[2]]
  OBVIOUS
<1>2. s \in Seq(Int) /\ s # <<>> /\ s[1] = 34 /\ t \in Seq(Int)
  BY <1>1, StringType
<1>3. MemberText(pair) = s \o <<58>> \o t
  BY <1>1 DEF MemberText
<1>4. s \o <<58>> \o t \in Seq(Int) /\ s \o <<58>> \o t # <<>> /\ (s \o <<58>> \o t)[1] = 34
  BY ONLY <1>2
<1>. QED  BY <1>3, <1>4

(* The canonical text of each value is a text with the first character of  *)
(* its type.                                                               *)
LEMMA TextType ==
    ASSUME NEW v \in Values
    PROVE  Typed(v)
<1> DEFINE S == {x \in Values : Typed(x)}
<1>1. ASSUME NEW x \in Values, \A y \in Values : Nesting[y] < Nesting[x] => y \in S
      PROVE  x \in S
  <2>. SUFFICES Typed(x)
    OBVIOUS
  <2>0. /\ JNull[1] = "null" /\ JBool(TRUE)[1] = "bool" /\ JBool(FALSE)[1] = "bool"
    BY Tags
  <2>1. CASE x = JNull \/ x = JBool(TRUE) \/ x = JBool(FALSE)
    <3>1. x[1] \in {"null", "bool"}
      BY <2>0, <2>1
    <3>2. /\ x = JNull => serialize[x] = <<110, 117, 108, 108>>
          /\ x = JBool(TRUE) => serialize[x] = <<116, 114, 117, 101>>
          /\ x = JBool(FALSE) => serialize[x] = <<102, 97, 108, 115, 101>>
      BY WordTexts, Zenon
    <3>4. x[1] \notin {"int", "float"} /\ x[1] # "str" /\ x[1] # "list" /\ x[1] # "dict"
      BY <3>1
    <3> DEFINE text == serialize[x]
    <3>5. ASSUME x = JNull
          PROVE  text \in Seq(Int) /\ text # <<>> /\ text[1] = 110
      <4>1. text = <<110, 117, 108, 108>>
        BY <3>2, <3>5, Zenon
      <4>. QED  BY ONLY <4>1
    <3>6. ASSUME x = JBool(TRUE)
          PROVE  text \in Seq(Int) /\ text # <<>> /\ text[1] = 116
      <4>1. text = <<116, 114, 117, 101>>
        BY <3>2, <3>6, Zenon
      <4>. QED  BY ONLY <4>1
    <3>7. ASSUME x = JBool(FALSE)
          PROVE  text \in Seq(Int) /\ text # <<>> /\ text[1] = 102
      <4>1. text = <<102, 97, 108, 115, 101>>
        BY <3>2, <3>7, Zenon
      <4>. QED  BY ONLY <4>1
    <3>8. text \in Seq(Int) /\ text # <<>>
      BY <2>1, <3>5, <3>6, <3>7, Zenon
    <3>. QED  BY <3>4, <3>5, <3>6, <3>7, <3>8, Zenon DEF Typed
  <2>2. CASE x[1] = "int"
    <3>1. x[2] \in Int /\ serialize[x] = Digits[x[2]]
      BY <2>2, Kinds, TextCases DEF Kind
    <3>2. Numeral(serialize[x])
      BY <3>1, DigitsType
    <3>. QED  BY <2>0, <2>2, <3>2 DEF Typed, Numeral
  <2>3. CASE x[1] = "float"
    <3>1. serialize[x] = <<48>>
      BY <2>3, TextCases
    <3>2. Numeral(serialize[x])
      BY <3>1 DEF Numeral
    <3>. QED  BY <2>0, <2>3, <3>2 DEF Typed, Numeral
  <2>4. CASE x[1] = "str"
    <3>1. serialize[x] = serialize_string(x[2]) /\ x[2] \in Seq(Unicode)
      BY <2>4, TextCases, Texts
    <3>2. serialize[x] \in Seq(Int) /\ serialize[x] # <<>> /\ serialize[x][1] = 34
      BY <3>1, StringType
    <3>. QED  BY <2>0, <2>4, <3>2 DEF Typed
  <2>5. CASE x[1] = "list"
    <3>1. DOMAIN x[2] = 1..Len(x[2]) /\ Len(x[2]) \in Nat
          /\ \A i \in DOMAIN x[2] : serialize[x[2][i]] \in Seq(Int)
      <4>1. x[2] \in Seq(Values)
            /\ \A i \in DOMAIN x[2] : x[2][i] \in Values /\ Nesting[x[2][i]] < Nesting[x]
        BY <2>5, Items
      <4>2. \A i \in DOMAIN x[2] : Typed(x[2][i])
        BY <1>1, <4>1
      <4>3. \A i \in DOMAIN x[2] : serialize[x[2][i]] \in Seq(Int)
        BY <4>2, Zenon DEF Typed
      <4>. QED  BY <4>1, <4>3
    <3>2. ItemTexts(x) \in Seq(Seq(Int))
      BY <3>1 DEF ItemTexts
    <3>3. Listed(ItemTexts(x)) \in Seq(Int)
      BY <3>2, ListedType
    <3>4. serialize[x] = <<91>> \o Listed(ItemTexts(x)) \o <<93>>
      BY <2>5, TextCases
    <3>5. serialize[x] \in Seq(Int) /\ serialize[x] # <<>> /\ serialize[x][1] = 91
      BY <3>3, <3>4, Bracketed
    <3>. QED  BY <2>0, <2>5, <3>5 DEF Typed
  <2>6. CASE x[1] = "dict"
    <3>1. AnyPairs(x[2])
      BY <2>6, Members
    <3>2. PICK order : order = sorted_keys_jcs(x[2])
      OBVIOUS
    <3>3. DOMAIN order = 1..Len(x[2]) /\ Len(x[2]) \in Nat
          /\ \A n \in DOMAIN order : order[n] \in DOMAIN x[2]
      BY <3>1, <3>2, PairsSorted DEF AnyPairs
    <3>4. ASSUME NEW n \in DOMAIN order PROVE MemberText(x[2][order[n]]) \in Seq(Int)
      <4>1. x[2][order[n]][1] \in Seq(Unicode)
        BY <3>1, <3>3 DEF AnyPairs
      <4>2. serialize[x[2][order[n]][2]] \in Seq(Int)
        BY <1>1, <2>6, <3>3, Members DEF Typed
      <4>. QED  BY <4>1, <4>2, MemberTextType
    <3>5. MemberTexts(x) \in Seq(Seq(Int))
      <4>1. MemberTexts(x) = [n \in DOMAIN order |-> MemberText(x[2][order[n]])]
        BY <3>2 DEF MemberTexts
      <4>. QED  BY <3>3, <3>4, <4>1
    <3>6. Listed(MemberTexts(x)) \in Seq(Int)
      BY <3>5, ListedType
    <3>7. serialize[x] = <<123>> \o Listed(MemberTexts(x)) \o <<125>>
      BY <2>6, TextCases
    <3>8. serialize[x] \in Seq(Int) /\ serialize[x] # <<>> /\ serialize[x][1] = 123
      BY <3>6, <3>7, Bracketed
    <3>. QED  BY <2>0, <2>6, <3>8 DEF Typed
  <2>. QED  BY <2>1, <2>2, <2>3, <2>4, <2>5, <2>6, Kinds DEF Kind
<1>2. v \in S
  <2> HIDE DEF S
  <2>. QED  BY <1>1, ValuesAssumption, Serialize!Induction
<1>. QED  BY <1>2

-----------------------------------------------------------------------------
(* What the two programs make of a body that a receipt can have.           *)
LEMMA TextsOfBody ==
    ASSUME NEW b \in Bodies, InProfile(b)
    PROVE  /\ PythonText[b] = serialize[b] /\ GoText[b] = serialize[b]
           /\ serialize[b] # NoText
<1>1. b \in Values /\ PythonText[b] = canonicalize(b) /\ GoText[b] = goCanonicalize(b)
  BY TextsAssumption
<1>2. ~Refused(b) /\ ~Unencodable(b)
  BY <1>1, ProfileParts
<1>3. ~GoRefuses(b)
  BY Zenon DEF GoRefuses, InProfile
<1>4. serializeValue[b] = serialize[b] /\ serialize[b] # <<>>
  BY <1>1, SameText, TextType DEF Typed
<1>. QED  BY <1>1, <1>2, <1>3, <1>4, Zenon DEF canonicalize, goCanonicalize, NoText

(* What was checked so far: an inductive invariant.                        *)
CheckedSoFar ==
    /\ repo \in Repositories
    /\ at \in Nat /\ 1 <= at /\ at <= Len(repo) + 1
    /\ reports \in Seq({"ERROR", "FAIL", "PASS"}) /\ Len(reports) = at - 1
    /\ allPass \in BOOLEAN
    /\ allPass = TRUE <=> \A i \in 1..at - 1 : checkVector(repo[i]) = "PASS"
    /\ exit # -1 => at = Len(repo) + 1 /\ exit = IF allPass THEN 0 ELSE 1

(* What checkVector can say, and when it says PASS.                        *)
LEMMA Codes ==
    ASSUME NEW vector
    PROVE  /\ checkVector(vector) \in {"ERROR", "FAIL", "PASS"}
           /\ checkVector(vector) = "PASS" <=>
                 ~Broken(vector) /\ Matches(vector, vector.python) /\ Matches(vector, vector.go)
BY DEF checkVector

(* The loop over the vectors keeps to it: allPass is TRUE exactly while     *)
(* every vector checked so far passed, and the exit status follows from it. *)
THEOREM Checked == Spec => []CheckedSoFar
<1>1. Init => CheckedSoFar
  <2>. SUFFICES ASSUME Init PROVE CheckedSoFar
    OBVIOUS
  <2>1. Len(repo) \in Nat /\ repo \in Repositories
    BY RepositoriesAssumption DEF Init
  <2>2. reports \in Seq({"ERROR", "FAIL", "PASS"}) /\ Len(reports) = 0
    BY DEF Init
  <2>. QED  BY <2>1, <2>2 DEF Init, CheckedSoFar
<1>2. CheckedSoFar /\ [Next]_vars => CheckedSoFar'
  <2>. SUFFICES ASSUME CheckedSoFar, [Next]_vars PROVE CheckedSoFar'
    OBVIOUS
  <2>0. Len(repo) \in Nat /\ DOMAIN repo = 1..Len(repo)
    BY RepositoriesAssumption DEF CheckedSoFar
  <2>1. CASE Check
    <3>1. /\ at \in DOMAIN repo /\ repo' = repo /\ at' = at + 1 /\ exit' = exit
          /\ reports' = Append(reports, checkVector(repo[at]))
          /\ allPass' = (allPass /\ checkVector(repo[at]) = "PASS")
      BY <2>1 DEF Check
    <3>2. /\ repo \in Repositories /\ at \in Nat /\ 1 <= at /\ allPass \in BOOLEAN
          /\ reports \in Seq({"ERROR", "FAIL", "PASS"}) /\ Len(reports) = at - 1
          /\ allPass = TRUE <=> \A i \in 1..at - 1 : checkVector(repo[i]) = "PASS"
          /\ exit # -1 => at = Len(repo) + 1
      BY DEF CheckedSoFar
    <3>3. at <= Len(repo) /\ exit = -1 /\ exit' = -1
      BY <2>0, <3>1, <3>2
    <3>4. reports' \in Seq({"ERROR", "FAIL", "PASS"}) /\ Len(reports') = at' - 1
      BY <3>1, <3>2, Codes
    <3>5. \A i \in 1..at : i \in 1..at - 1 \/ i = at
      BY <3>2
    <3>6. at' - 1 = at /\ \A i \in 1..at - 1 : i \in 1..at
      BY <3>1, <3>2
    <3>7. allPass' = TRUE <=> \A i \in 1..at : checkVector(repo[i]) = "PASS"
      <4>1. at \in 1..at
        BY <3>2
      <4>2. allPass' = TRUE <=> allPass = TRUE /\ checkVector(repo[at]) = "PASS"
        BY <3>1, <3>2, Zenon
      <4>. QED  BY <3>2, <3>5, <3>6, <4>1, <4>2, Zenon
    <3>8. allPass' = TRUE <=> \A i \in 1..at' - 1 : checkVector(repo'[i]) = "PASS"
      BY <3>1, <3>6, <3>7, Zenon DEF checkVector, Broken, Matches
    <3>9. allPass' \in BOOLEAN
      BY <3>1
    <3>10. at' \in Nat /\ 1 <= at' /\ at' <= Len(repo') + 1 /\ repo' \in Repositories
      BY <2>0, <3>1, <3>2, <3>3
    <3>. QED  BY <3>3, <3>4, <3>8, <3>9, <3>10, Zenon DEF CheckedSoFar
  <2>2. CASE Finish
    <3>1. /\ at > Len(repo) /\ exit' = IF allPass THEN 0 ELSE 1
          /\ repo' = repo /\ at' = at /\ reports' = reports /\ allPass' = allPass
      BY <2>2 DEF Finish
    <3>2. at = Len(repo) + 1
      BY <2>0, <3>1 DEF CheckedSoFar
    <3>. QED  BY <3>1, <3>2, Zenon DEF CheckedSoFar, checkVector, Broken, Matches
  <2>3. CASE UNCHANGED vars
    BY <2>3, Zenon DEF vars, CheckedSoFar, checkVector, Broken, Matches
  <2>. QED  BY <2>1, <2>2, <2>3 DEF Next
<1>. QED  BY <1>1, <1>2, PTL DEF Spec

(* Vectors as generated pass, for receipt bodies of every size and depth.  *)
THEOREM GeneratedVectorsPass == Spec => []GeneratedPass
<1>1. CheckedSoFar => GeneratedPass
  <2>. SUFFICES ASSUME CheckedSoFar, exit # -1, NEW all, all = DOMAIN repo,
                       \A i \in all : Generated(repo[i]) /\ InProfile(repo[i].body)
                PROVE  exit = 0
    BY DEF GeneratedPass
  <2>1. /\ Len(repo) \in Nat /\ DOMAIN repo = 1..Len(repo)
        /\ \A i \in DOMAIN repo : repo[i].body \in Bodies
    BY RepositoriesAssumption DEF CheckedSoFar
  <2>2. ASSUME NEW i \in DOMAIN repo PROVE checkVector(repo[i]) = "PASS"
    <3>1. PICK vector : vector = repo[i]
      OBVIOUS
    <3>2. Generated(vector) /\ InProfile(vector.body) /\ vector.body \in Bodies
      BY <2>1, <3>1
    <3>3. /\ PythonText[vector.body] = serialize[vector.body]
          /\ GoText[vector.body] = serialize[vector.body]
          /\ serialize[vector.body] # NoText
      BY <3>2, TextsOfBody
    <3>4. ~Broken(vector)
      BY <3>2, <3>3 DEF Broken, Generated
    <3>5. Matches(vector, vector.python) /\ Matches(vector, vector.go)
      BY <3>2, <3>3 DEF Matches, Generated
    <3>. QED  BY <3>1, <3>4, <3>5, Codes
  <2>3. at - 1 = Len(repo)
    BY <2>1 DEF CheckedSoFar
  <2>4. allPass = TRUE
    BY <2>1, <2>2, <2>3, Zenon DEF CheckedSoFar
  <2>. QED  BY <2>4, Zenon DEF CheckedSoFar
<1>. QED  BY <1>1, Checked, PTL

(* Success means that every vector is sound and records the text of today. *)
THEOREM SuccessTellsCurrent == Spec => []SuccessMeansCurrent
<1>1. CheckedSoFar => SuccessMeansCurrent
  <2>. SUFFICES ASSUME CheckedSoFar, exit = 0
                PROVE  /\ Len(reports) = Len(repo)
                       /\ \A i \in DOMAIN repo :
                             /\ repo[i].receipts /\ repo[i].expected
                             /\ (InProfile(repo[i].body) /\ repo[i].python # NoText)
                                   => repo[i].python = PythonText[repo[i].body]
    BY DEF SuccessMeansCurrent
  <2>1. /\ Len(repo) \in Nat /\ DOMAIN repo = 1..Len(repo)
        /\ \A i \in DOMAIN repo : repo[i].body \in Bodies
    BY RepositoriesAssumption DEF CheckedSoFar
  <2>2. at - 1 = Len(repo) /\ Len(reports) = at - 1
    BY <2>1 DEF CheckedSoFar
  <2>3. allPass = TRUE
    <3>1. 0 = IF allPass THEN 0 ELSE 1
      BY DEF CheckedSoFar
    <3>2. 0 # 1
      OBVIOUS
    <3>. QED  BY <3>1, <3>2, Zenon DEF CheckedSoFar
  <2>4. \A i \in DOMAIN repo : checkVector(repo[i]) = "PASS"
    BY <2>1, <2>2, <2>3, Zenon DEF CheckedSoFar
  <2>5. ASSUME NEW i \in DOMAIN repo
        PROVE  /\ repo[i].receipts /\ repo[i].expected
               /\ (InProfile(repo[i].body) /\ repo[i].python # NoText)
                     => repo[i].python = PythonText[repo[i].body]
    <3>1. ~Broken(repo[i]) /\ Matches(repo[i], repo[i].python)
      BY <2>4, Codes
    <3>2. repo[i].receipts /\ repo[i].expected
      BY <3>1, Zenon DEF Broken
    <3>3. repo[i].python \in {NoText, GoText[repo[i].body]}
      BY <3>1, Zenon DEF Matches
    <3>4. InProfile(repo[i].body) => GoText[repo[i].body] = PythonText[repo[i].body]
      BY <2>1, TextsOfBody
    <3>. QED  BY <3>2, <3>3, <3>4, Zenon
  <2>. QED  BY <2>2, <2>5, Zenon
<1>. QED  BY <1>1, Checked, PTL

-----------------------------------------------------------------------------
(* What follows a common beginning of two texts that agree agrees.         *)
LEMMA AgreeHeads ==
    ASSUME NEW r \in Seq(Int), NEW q \in Seq(Int), NEW s \in Seq(Int), NEW t \in Seq(Int),
           Agree(r \o s, q \o t)
    PROVE  Agree(r, q)
<1>1. /\ DOMAIN (r \o s) = 1..Len(r) + Len(s) /\ DOMAIN (q \o t) = 1..Len(q) + Len(t)
      /\ DOMAIN r = 1..Len(r) /\ DOMAIN q = 1..Len(q)
      /\ Len(r) \in Nat /\ Len(s) \in Nat /\ Len(q) \in Nat /\ Len(t) \in Nat
  OBVIOUS
<1>2. SUFFICES ASSUME NEW j \in DOMAIN r, j \in DOMAIN q PROVE r[j] = q[j]
  BY DEF Agree
<1>3. j \in DOMAIN (r \o s) /\ j \in DOMAIN (q \o t)
  BY <1>1, <1>2
<1>4. (r \o s)[j] = r[j] /\ (q \o t)[j] = q[j]
  BY <1>1, <1>2
<1>. QED  BY <1>3, <1>4 DEF Agree

(* Behind a common beginning the rests agree.                              *)
LEMMA AgreeTails ==
    ASSUME NEW r \in Seq(Int), NEW s \in Seq(Int), NEW t \in Seq(Int),
           Agree(r \o s, r \o t)
    PROVE  Agree(s, t)
<1>1. /\ DOMAIN (r \o s) = 1..Len(r) + Len(s) /\ DOMAIN (r \o t) = 1..Len(r) + Len(t)
      /\ DOMAIN s = 1..Len(s) /\ DOMAIN t = 1..Len(t)
      /\ Len(r) \in Nat /\ Len(s) \in Nat /\ Len(t) \in Nat
  OBVIOUS
<1>2. SUFFICES ASSUME NEW j \in DOMAIN s, j \in DOMAIN t PROVE s[j] = t[j]
  BY DEF Agree
<1>3. PICK i : i = Len(r) + j
  OBVIOUS
<1>4. i \in DOMAIN (r \o s) /\ i \in DOMAIN (r \o t)
  BY <1>1, <1>2, <1>3
<1>5. (r \o s)[i] = s[j] /\ (r \o t)[i] = t[j]
  BY <1>1, <1>2, <1>3
<1>. QED  BY <1>4, <1>5 DEF Agree

(* Texts can be joined in either order of joining.                         *)
LEMMA Regroup ==
    ASSUME NEW r \in Seq(Int), NEW s \in Seq(Int), NEW t \in Seq(Int)
    PROVE  (r \o s) \o t = r \o (s \o t) /\ s \o t \in Seq(Int)
OBVIOUS

(* The letters behind the backslash of short escapes differ, and none is   *)
(* the u of the others.                                                    *)
LEMMA Letters ==
    ASSUME NEW e \in ShortEscapes, NEW d \in ShortEscapes
    PROVE  e[2] \in Int /\ e[2] # 117 /\ (e[2] = d[2] => e[1] = d[1])
BY DEF ShortEscapes

(* Control characters with the same two digits are the same.               *)
LEMMA HexDigits ==
    ASSUME NEW x \in Nat, NEW y \in Nat, x < 32, y < 32,
           HexDigit(x \div 16) = HexDigit(y \div 16), HexDigit(x % 16) = HexDigit(y % 16)
    PROVE  x = y
<1>1. \A m, n \in Int : m < 16 /\ n < 16 /\ HexDigit(m) = HexDigit(n) => m = n
  BY DEF HexDigit
<1>2. /\ x \div 16 \in Int /\ x % 16 \in Int /\ x \div 16 < 16 /\ x % 16 < 16
      /\ x = 16 * (x \div 16) + (x % 16)
  OBVIOUS
<1>3. /\ y \div 16 \in Int /\ y % 16 \in Int /\ y \div 16 < 16 /\ y % 16 < 16
      /\ y = 16 * (y \div 16) + (y % 16)
  OBVIOUS
<1>4. x \div 16 = y \div 16 /\ x % 16 = y % 16
  BY <1>1, <1>2, <1>3
<1>. QED  BY <1>2, <1>3, <1>4

(* How a character is written.                                             *)
ShortForm(x, t)   == \E e \in ShortEscapes : x = e[1] /\ t = <<92, e[2]>>
ControlForm(x, t) ==
    x < 32 /\ t = <<92, 117, 48, 48, HexDigit(x \div 16), HexDigit(x % 16)>>
ItselfForm(x, t)  == x \notin Short /\ t = <<x>>

(* Each character has one of the three forms.                              *)
LEMMA Forms ==
    ASSUME NEW x \in Nat, NEW t, t = escaped(x)
    PROVE  ShortForm(x, t) \/ ControlForm(x, t) \/ ItselfForm(x, t)
<1>1. x \in Short => \E e \in ShortEscapes : x = e[1]
  BY DEF Short, ShortEscapes
<1>. QED  BY <1>1, EscapeCases, Zenon DEF ShortForm, ControlForm, ItselfForm

(* Texts of two forms, or of two characters in one form, do not agree.     *)
LEMMA FormsDiffer ==
    ASSUME NEW x \in Nat, NEW y \in Nat, NEW s \in Seq(Int), NEW t \in Seq(Int), Agree(s, t)
    PROVE  /\ ShortForm(x, s) /\ ShortForm(y, t) => x = y
           /\ ~(ShortForm(x, s) /\ ControlForm(y, t))
           /\ ~(ShortForm(x, s) /\ ItselfForm(y, t))
           /\ ControlForm(x, s) /\ ControlForm(y, t) => x = y
           /\ ~(ControlForm(x, s) /\ ItselfForm(y, t))
           /\ ItselfForm(x, s) /\ ItselfForm(y, t) => x = y
<1>0. 92 \in Short
  BY DEF Short
<1>1. ASSUME ShortForm(x, s), ShortForm(y, t) PROVE x = y
  <2>1. PICK e \in ShortEscapes, d \in ShortEscapes :
           x = e[1] /\ s = <<92, e[2]>> /\ y = d[1] /\ t = <<92, d[2]>>
    BY <1>1 DEF ShortForm
  <2>2. s[2] = t[2]
    <3>1. 2 \in DOMAIN s /\ 2 \in DOMAIN t
      BY <2>1
    <3>. QED  BY <3>1 DEF Agree
  <2>. QED  BY <2>1, <2>2, Letters
<1>2. ASSUME ShortForm(x, s), ControlForm(y, t) PROVE FALSE
  <2>1. PICK e \in ShortEscapes : s = <<92, e[2]>>
    BY <1>2 DEF ShortForm
  <2>2. Len(t) = 6 /\ t[2] = 117
    BY <1>2 DEF ControlForm
  <2>3. s[2] = t[2]
    <3>1. 2 \in DOMAIN s /\ 2 \in DOMAIN t
      BY <2>1, <2>2
    <3>. QED  BY <3>1 DEF Agree
  <2>. QED  BY <2>1, <2>2, <2>3, Letters
<1>3. ASSUME ShortForm(x, s), ItselfForm(y, t) PROVE FALSE
  <2>1. Len(s) = 2 /\ s[1] = 92
    BY <1>3 DEF ShortForm
  <2>2. t = <<y>> /\ y \notin Short
    BY <1>3 DEF ItselfForm
  <2>3. s[1] = t[1]
    <3>1. 1 \in DOMAIN s /\ 1 \in DOMAIN t
      BY <2>1, <2>2
    <3>. QED  BY <3>1 DEF Agree
  <2>. QED  BY <1>0, <2>1, <2>2, <2>3
<1>4. ASSUME ControlForm(x, s), ControlForm(y, t) PROVE x = y
  <2>1. Len(s) = 6 /\ s[5] = HexDigit(x \div 16) /\ s[6] = HexDigit(x % 16)
    BY <1>4 DEF ControlForm
  <2>2. Len(t) = 6 /\ t[5] = HexDigit(y \div 16) /\ t[6] = HexDigit(y % 16)
    BY <1>4 DEF ControlForm
  <2>3. s[5] = t[5] /\ s[6] = t[6]
    <3>1. 5 \in DOMAIN s /\ 5 \in DOMAIN t /\ 6 \in DOMAIN s /\ 6 \in DOMAIN t
      BY <2>1, <2>2
    <3>. QED  BY <3>1 DEF Agree
  <2>4. x < 32 /\ y < 32
    BY <1>4 DEF ControlForm
  <2>. QED  BY <2>1, <2>2, <2>3, <2>4, HexDigits
<1>5. ASSUME ControlForm(x, s), ItselfForm(y, t) PROVE FALSE
  <2>1. Len(s) = 6 /\ s[1] = 92
    BY <1>5 DEF ControlForm
  <2>2. t = <<y>> /\ y \notin Short
    BY <1>5 DEF ItselfForm
  <2>3. s[1] = t[1]
    <3>1. 1 \in DOMAIN s /\ 1 \in DOMAIN t
      BY <2>1, <2>2
    <3>. QED  BY <3>1 DEF Agree
  <2>. QED  BY <1>0, <2>1, <2>2, <2>3
<1>6. ASSUME ItselfForm(x, s), ItselfForm(y, t) PROVE x = y
  <2>1. s = <<x>> /\ t = <<y>>
    BY <1>6 DEF ItselfForm
  <2>2. s[1] = t[1]
    <3>1. 1 \in DOMAIN s /\ 1 \in DOMAIN t
      BY <2>1
    <3>. QED  BY <3>1 DEF Agree
  <2>. QED  BY <2>1, <2>2
<1>. QED  BY <1>1, <1>2, <1>3, <1>4, <1>5, <1>6

(* No escape begins another's or is begun with a quote.                    *)
LEMMA EscapesSpell == Spelling([x \in PlainUnicode |-> escaped(x)], PlainUnicode, 34)
<1>1. \A x \in PlainUnicode : x \in Nat
  <2>. TAKE x \in PlainUnicode
  <2>1. x \in Unicode
    BY Zenon DEF PlainUnicode
  <2>. QED  BY <2>1, CodePointRange
<1>2. \A x \in PlainUnicode : escaped(x) \in Seq(Int) /\ escaped(x) # <<>>
  BY <1>1, EscapedType
<1>3. ASSUME NEW x \in PlainUnicode PROVE escaped(x)[1] # 34
  <2>1. PICK t : t = escaped(x)
    OBVIOUS
  <2>2. ShortForm(x, t) \/ ControlForm(x, t) \/ ItselfForm(x, t)
    BY <1>1, <2>1, Forms
  <2>3. ShortForm(x, t) => t[1] # 34
    BY DEF ShortForm
  <2>4. ControlForm(x, t) => t[1] # 34
    BY DEF ControlForm
  <2>5. ItselfForm(x, t) => t[1] # 34
    BY DEF ItselfForm, Short
  <2>. QED  BY <2>1, <2>2, <2>3, <2>4, <2>5
<1>4. ASSUME NEW x \in PlainUnicode, NEW y \in PlainUnicode, Agree(escaped(x), escaped(y))
      PROVE  x = y
  <2>1. PICK s, t : s = escaped(x) /\ t = escaped(y)
    OBVIOUS
  <2>2. /\ ShortForm(x, s) \/ ControlForm(x, s) \/ ItselfForm(x, s)
        /\ ShortForm(y, t) \/ ControlForm(y, t) \/ ItselfForm(y, t)
    BY <1>1, <2>1, Forms
  <2>3. /\ x \in Nat /\ y \in Nat /\ s \in Seq(Int) /\ t \in Seq(Int)
        /\ Agree(s, t) /\ Agree(t, s)
    BY <1>1, <1>2, <1>4, <2>1 DEF Agree
  <2>. QED  BY <2>2, <2>3, FormsDiffer
<1> DEFINE code == [x \in PlainUnicode |-> escaped(x)]
<1>5. \A x \in PlainUnicode : code[x] = escaped(x)
  OBVIOUS
<1>6. code \in [PlainUnicode -> Seq(Int)]
  BY <1>2
<1> HIDE DEF code
<1>7. Spelling(code, PlainUnicode, 34)
  BY <1>2, <1>3, <1>4, <1>5, <1>6 DEF Spelling
<1>. QED  BY <1>7 DEF code

(* Two strings whose texts agree, whatever follows, are the same.          *)
LEMMA StringRead ==
    ASSUME NEW s \in Seq(PlainUnicode), NEW t \in Seq(PlainUnicode),
           Agree(serialize_string(s), serialize_string(t))
    PROVE  s = t
<1>1. s \in Seq(Unicode) /\ t \in Seq(Unicode)
  BY PlainText
<1>2. PICK c, d : c = Escaped(s) /\ d = Escaped(t)
  OBVIOUS
<1>3. /\ serialize_string(s) = (<<34>> \o FlattenSeq(c)) \o <<34>>
      /\ serialize_string(t) = (<<34>> \o FlattenSeq(d)) \o <<34>>
      /\ FlattenSeq(c) \in Seq(Int) /\ FlattenSeq(d) \in Seq(Int)
  BY <1>1, <1>2, StringType
<1>4. <<34>> \in Seq(Int)
  OBVIOUS
<1>5. Agree(FlattenSeq(c) \o <<34>>, FlattenSeq(d) \o <<34>>)
  <2>1. PICK u, w : u = FlattenSeq(c) /\ w = FlattenSeq(d)
    OBVIOUS
  <2>2. u \in Seq(Int) /\ w \in Seq(Int) /\ Agree((<<34>> \o u) \o <<34>>, (<<34>> \o w) \o <<34>>)
    BY <1>3, <2>1
  <2>3. /\ (<<34>> \o u) \o <<34>> = <<34>> \o (u \o <<34>>) /\ u \o <<34>> \in Seq(Int)
        /\ (<<34>> \o w) \o <<34>> = <<34>> \o (w \o <<34>>) /\ w \o <<34>> \in Seq(Int)
    BY <1>4, <2>2, Regroup
  <2>4. Agree(<<34>> \o (u \o <<34>>), <<34>> \o (w \o <<34>>))
    BY <2>2, <2>3
  <2>5. Agree(u \o <<34>>, w \o <<34>>)
    BY <1>4, <2>3, <2>4, AgreeTails
  <2>. QED  BY <2>1, <2>5
<1> DEFINE code == [x \in PlainUnicode |-> escaped(x)]
<1>6. Spelling(code, PlainUnicode, 34)
  BY EscapesSpell
<1>7. \A x \in PlainUnicode : code[x] = escaped(x)
  OBVIOUS
<1> HIDE DEF code
<1>8. Spelled(c, code, s) /\ Spelled(d, code, t)
  <2>1. /\ \A i \in DOMAIN s : s[i] \in PlainUnicode
        /\ \A i \in DOMAIN t : t[i] \in PlainUnicode
    OBVIOUS
  <2>2. /\ \A i \in DOMAIN s : escaped(s[i]) = code[s[i]]
        /\ \A i \in DOMAIN t : escaped(t[i]) = code[t[i]]
    BY <1>7, <2>1
  <2>. QED  BY <1>2, <2>2 DEF Spelled, Escaped
<1>9. PICK e \in Int : e = 34
  OBVIOUS
<1>10. Spelling(code, PlainUnicode, e) /\ Agree(FlattenSeq(c) \o <<e>>, FlattenSeq(d) \o <<e>>)
  BY <1>5, <1>6, <1>9
<1>. QED  BY <1>8, <1>10, OneReading

-----------------------------------------------------------------------------
(* Content is its body.                                                    *)
LEMMA ContentEquation ==
    ASSUME NEW v \in Values
    PROVE  Content[v] = ContentBody(Content, v)
<1>1. Contents!Local
  <2>. SUFFICES ASSUME NEW f, NEW g, NEW u \in Values,
                       \A y \in Values : Nesting[y] < Nesting[u] => f[y] = g[y]
                PROVE  ContentBody(f, u) = ContentBody(g, u)
    BY DEF Contents!Local
  <2>1. CASE u[1] = "list"
    <3>1. \A i \in DOMAIN u[2] : f[u[2][i]] = g[u[2][i]]
      BY <2>1, Items
    <3>2. [i \in DOMAIN u[2] |-> f[u[2][i]]] = [i \in DOMAIN u[2] |-> g[u[2][i]]]
      BY <3>1
    <3>3. \A h : ContentBody(h, u) = <<"list", [i \in DOMAIN u[2] |-> h[u[2][i]]]>>
      BY <2>1 DEF ContentBody
    <3>. QED  BY <3>2, <3>3
  <2>2. CASE u[1] = "dict"
    <3> DEFINE parts(h) == {<<u[2][i][1], h[u[2][i][2]]>> : i \in DOMAIN u[2]}
    <3>1. \A i \in DOMAIN u[2] : f[u[2][i][2]] = g[u[2][i][2]]
      BY <2>2, Members
    <3>2. parts(f) = parts(g)
      BY <3>1
    <3>3. \A h : ContentBody(h, u) = <<"dict", parts(h)>>
      BY <2>2 DEF ContentBody
    <3> HIDE DEF parts
    <3>. QED  BY <3>2, <3>3
  <2>3. CASE u[1] \notin {"list", "dict"}
    BY <2>3 DEF ContentBody
  <2>. QED  BY <2>1, <2>2, <2>3
<1>2. \E f : f = [u \in Values |-> ContentBody(f, u)]
  BY <1>1, ValuesAssumption, Contents!Recursion
<1>3. Content = CHOOSE f : f = [u \in Values |-> ContentBody(f, u)]
  BY Zenon DEF Content, ContentBody
<1>4. Content = [u \in Values |-> ContentBody(Content, u)]
  BY <1>2, <1>3, Zenon
<1>. QED  BY <1>4

(* What the parts of a value say.                                          *)
ItemContents(v)   == [i \in DOMAIN v[2] |-> Content[v[2][i]]]
MemberContents(v) == {<<v[2][i][1], Content[v[2][i][2]]>> : i \in DOMAIN v[2]}

(* What each type of value says.                                           *)
LEMMA ContentCases ==
    ASSUME NEW v \in Values
    PROVE  /\ v[1] = "list" => Content[v] = <<"list", ItemContents(v)>>
           /\ v[1] = "dict" => Content[v] = <<"dict", MemberContents(v)>>
           /\ v[1] \notin {"list", "dict"} => Content[v] = v
           /\ Content[v][1] = v[1]
<1>1. Content[v] = ContentBody(Content, v)
  BY ContentEquation
<1>2. v[1] = "list" => Content[v] = <<"list", ItemContents(v)>>
  BY <1>1 DEF ContentBody, ItemContents
<1>3. v[1] = "dict" => Content[v] = <<"dict", MemberContents(v)>>
  BY <1>1 DEF ContentBody, MemberContents
<1>4. v[1] \notin {"list", "dict"} => Content[v] = v
  BY <1>1 DEF ContentBody
<1>5. Content[v][1] = v[1]
  <2>1. v[1] = "list" => Content[v][1] = "list"
    BY <1>2
  <2>2. v[1] = "dict" => Content[v][1] = "dict"
    BY <1>3
  <2>. QED  BY <1>4, <2>1, <2>2
<1>. QED  BY <1>2, <1>3, <1>4, <1>5

(* Values whose texts agree as far as both go say the same.                *)
Same(x, y) == serialize[x] = serialize[y] /\ Content[x] = Content[y]

(* The text of x can be read: no other value that says something else has  *)
(* a text that agrees.                                                     *)
Read(x) ==
    \A y \in Values : ~Unencodable(y) /\ Agree(serialize[x], serialize[y]) => Same(x, y)

(* The texts of members whose texts agree: the same names, and values that *)
(* are the same if the values can be read.                                 *)
LEMMA MembersRead ==
    ASSUME NEW p, NEW q, p[1] \in Seq(PlainUnicode), q[1] \in Seq(PlainUnicode),
           p[2] \in Values, q[2] \in Values, ~Unencodable(q[2]), Read(p[2]),
           Agree(MemberText(p), MemberText(q))
    PROVE  p[1] = q[1] /\ Same(p[2], q[2]) /\ MemberText(p) = MemberText(q)
<1>1. PICK n, m, s, t : n = serialize_string(p[1]) /\ m = serialize_string(q[1])
                        /\ s = serialize[p[2]] /\ t = serialize[q[2]]
  OBVIOUS
<1>2. n \in Seq(Int) /\ m \in Seq(Int)
  BY <1>1, PlainText, StringType
<1>3. s \in Seq(Int) /\ t \in Seq(Int)
  BY <1>1, TextType, Zenon DEF Typed
<1>4. MemberText(p) = (n \o <<58>>) \o s /\ MemberText(q) = (m \o <<58>>) \o t
  BY <1>1 DEF MemberText
<1>5. /\ (n \o <<58>>) \o s = n \o (<<58>> \o s) /\ <<58>> \o s \in Seq(Int)
      /\ (m \o <<58>>) \o t = m \o (<<58>> \o t) /\ <<58>> \o t \in Seq(Int)
      /\ n \o <<58>> \in Seq(Int)
  <2>1. <<58>> \in Seq(Int)
    OBVIOUS
  <2>2. (n \o <<58>>) \o s = n \o (<<58>> \o s) /\ <<58>> \o s \in Seq(Int)
    BY <1>2, <1>3, <2>1, Regroup, SMTT(30)
  <2>3. (m \o <<58>>) \o t = m \o (<<58>> \o t) /\ <<58>> \o t \in Seq(Int)
    BY <1>2, <1>3, <2>1, Regroup, SMTT(30)
  <2>4. n \o <<58>> \in Seq(Int)
    BY <1>2, <2>1
  <2>. QED  BY <2>2, <2>3, <2>4
<1>6. Agree(n \o (<<58>> \o s), m \o (<<58>> \o t))
  BY <1>4, <1>5
<1>7. Agree(n, m)
  BY <1>2, <1>5, <1>6, AgreeHeads
<1>8. p[1] = q[1]
  BY <1>1, <1>7, StringRead
<1>9. n = m
  BY <1>1, <1>8
<1>10. Agree((n \o <<58>>) \o s, (n \o <<58>>) \o t)
  BY <1>4, <1>9
<1>11. Agree(s, t)
  BY <1>3, <1>5, <1>10, AgreeTails
<1>12. Same(p[2], q[2])
  BY <1>1, <1>11 DEF Read
<1>. QED  BY <1>8, <1>12 DEF Same, MemberText

(* Lists of parts, none of which begins with the closing bracket.          *)
Parts(parts, e) ==
    /\ parts \in Seq(Seq(Int)) /\ e \in Int /\ e # 44
    /\ \A i \in DOMAIN parts : parts[i] # <<>> /\ parts[i][1] # e

(* Parts with commas before them can be told from the closing bracket.     *)
LEMMA CommasBefore ==
    ASSUME NEW parts, NEW e, Parts(parts, e)
    PROVE  PartsBefore(WithCommas(parts), e)
<1>1. parts \in Seq(Seq(Int)) /\ DOMAIN WithCommas(parts) = DOMAIN parts
  BY DEF Parts, WithCommas
<1>2. WithCommas(parts) \in Seq(Seq(Int))
  BY <1>1, ListedType
<1>3. ASSUME NEW i \in DOMAIN parts
      PROVE  WithCommas(parts)[i] # <<>> /\ WithCommas(parts)[i][1] # e
  <2>1. PICK t : t = parts[i]
    OBVIOUS
  <2>2. t \in Seq(Int) /\ t # <<>> /\ t[1] # e /\ e # 44
    BY <1>1, <2>1 DEF Parts
  <2>3. <<44>> \o t # <<>> /\ (<<44>> \o t)[1] = 44
    BY ONLY <2>2
  <2>4. WithCommas(parts)[i] = IF i = 1 THEN t ELSE <<44>> \o t
    BY <2>1 DEF WithCommas
  <2>. QED  BY <2>2, <2>3, <2>4
<1>. QED  BY <1>1, <1>2, <1>3 DEF PartsBefore

(* Listed parts that agree with their brackets are the same.               *)
LEMMA ListsRead ==
    ASSUME NEW a \in Int, NEW e, NEW c, NEW d, Parts(c, e), Parts(d, e), OneContinues(c, d),
           Agree(<<a>> \o Listed(c) \o <<e>>, <<a>> \o Listed(d) \o <<e>>)
    PROVE  c = d
<1>1. c \in Seq(Seq(Int)) /\ d \in Seq(Seq(Int)) /\ e \in Int
  BY DEF Parts
<1>2. PICK g, h : g = WithCommas(c) /\ h = WithCommas(d)
  OBVIOUS
<1>3. /\ Listed(c) = FlattenSeq(g) /\ Listed(d) = FlattenSeq(h)
      /\ Listed(c) \in Seq(Int) /\ Listed(d) \in Seq(Int)
  BY <1>1, <1>2, ListedType
<1>4. PICK s, t : s = FlattenSeq(g) /\ t = FlattenSeq(h)
  OBVIOUS
<1>5. s \in Seq(Int) /\ t \in Seq(Int) /\ Agree((<<a>> \o s) \o <<e>>, (<<a>> \o t) \o <<e>>)
  BY <1>3, <1>4
<1>6. <<a>> \in Seq(Int) /\ <<e>> \in Seq(Int)
  BY <1>1
<1>7. /\ (<<a>> \o s) \o <<e>> = <<a>> \o (s \o <<e>>) /\ s \o <<e>> \in Seq(Int)
      /\ (<<a>> \o t) \o <<e>> = <<a>> \o (t \o <<e>>) /\ t \o <<e>> \in Seq(Int)
  BY <1>5, <1>6, Regroup
<1>8. Agree(<<a>> \o (s \o <<e>>), <<a>> \o (t \o <<e>>))
  BY <1>5, <1>7
<1>9. Agree(s \o <<e>>, t \o <<e>>)
  BY <1>6, <1>7, <1>8, AgreeTails
<1>10. PartsBefore(g, e) /\ PartsBefore(h, e)
  BY <1>2, CommasBefore
<1>11. /\ DOMAIN g = DOMAIN c /\ DOMAIN h = DOMAIN d
       /\ \A i \in DOMAIN c : g[i] = IF i = 1 THEN c[i] ELSE <<44>> \o c[i]
       /\ \A i \in DOMAIN d : h[i] = IF i = 1 THEN d[i] ELSE <<44>> \o d[i]
  BY <1>2 DEF WithCommas
<1>12. ASSUME NEW i \in DOMAIN c, i \in DOMAIN d, Agree(g[i], h[i]) PROVE c[i] = d[i] /\ g[i] = h[i]
  <2>1. PICK r, q : r = c[i] /\ q = d[i]
    OBVIOUS
  <2>2. r \in Seq(Int) /\ q \in Seq(Int) /\ <<44>> \in Seq(Int)
    BY <1>1, <1>12, <2>1
  <2>3. i # 1 => Agree(<<44>> \o r, <<44>> \o q)
    BY <1>11, <1>12, <2>1
  <2>4. i # 1 => Agree(r, q)
    BY <2>2, <2>3, AgreeTails
  <2>5. i = 1 => Agree(r, q)
    BY <1>11, <1>12, <2>1
  <2>6. r = q
    BY <1>12, <2>1, <2>4, <2>5 DEF OneContinues
  <2>7. g[i] = (IF i = 1 THEN r ELSE <<44>> \o r) /\ h[i] = (IF i = 1 THEN q ELSE <<44>> \o q)
    BY <1>11, <1>12, <2>1, Zenon
  <2>. QED  BY <2>1, <2>6, <2>7
<1>13. OneContinues(g, h)
  BY <1>11, <1>12 DEF OneContinues
<1>14. g = h
  BY <1>1, <1>4, <1>9, <1>10, <1>13, UniqueParts
<1>15. DOMAIN c = DOMAIN d
  BY <1>11, <1>14
<1>16. \A i \in DOMAIN c : c[i] = d[i]
  BY <1>12, <1>14, <1>15 DEF Agree
<1>17. c = [i \in DOMAIN c |-> c[i]] /\ d = [i \in DOMAIN d |-> d[i]]
  BY <1>1
<1>. QED  BY <1>15, <1>16, <1>17

(* A first character tells the kind of a value, and is no closing bracket. *)
Tells(v) ==
    /\ serialize[v][1] # 93 /\ serialize[v][1] # 125
    /\ serialize[v][1] = 110 => v = JNull
    /\ serialize[v][1] = 116 => v = JBool(TRUE)
    /\ serialize[v][1] = 102 => v = JBool(FALSE)
    /\ serialize[v][1] = 34 => v[1] = "str"
    /\ serialize[v][1] = 91 => v[1] = "list"
    /\ serialize[v][1] = 123 => v[1] = "dict"

(* The first character of a text tells the type of the value.              *)
LEMMA FirstCharacter ==
    ASSUME NEW v \in Values
    PROVE  Tells(v)
<1>0. PICK yes, no, null : yes = JBool(TRUE) /\ no = JBool(FALSE) /\ null = JNull
  BY Zenon
<1>1. PICK n : n = serialize[v][1]
  OBVIOUS
<1>2. \/ v = null /\ n = 110
      \/ v = yes /\ n = 116
      \/ v = no /\ n = 102
      \/ Numeral(serialize[v])
      \/ v[1] = "str" /\ n = 34
      \/ v[1] = "list" /\ n = 91
      \/ v[1] = "dict" /\ n = 123
  <2>1. \/ v = JNull \/ v = JBool(TRUE) \/ v = JBool(FALSE)
        \/ v[1] \in {"int", "float"} \/ v[1] = "str" \/ v[1] = "list" \/ v[1] = "dict"
    BY Kinds, Zenon DEF Kind
  <2>2. Typed(v)
    BY TextType
  <2>. QED  BY <1>0, <1>1, <2>1, <2>2, Zenon DEF Typed
<1>3. Numeral(serialize[v]) => n = 45 \/ (n \in Int /\ 48 <= n /\ n <= 57)
  <2>1. PICK t : t = serialize[v]
    OBVIOUS
  <2>2. Numeral(t) => t[1] \in Int
    BY DEF Numeral
  <2>. QED  BY <1>1, <2>1, <2>2 DEF Numeral
<1>4. /\ n # 93 /\ n # 125
      /\ n = 110 => v = null
      /\ n = 116 => v = yes
      /\ n = 102 => v = no
      /\ n = 34 => v[1] = "str"
      /\ n = 91 => v[1] = "list"
      /\ n = 123 => v[1] = "dict"
  BY ONLY <1>2, <1>3
<1>. QED  BY <1>0, <1>1, <1>4, Zenon DEF Tells

(* The items of a list are parts that no bracket ends early.               *)
LEMMA ItemsTexts ==
    ASSUME NEW v \in Values, v[1] = "list", NEW c, c = ItemTexts(v)
    PROVE  /\ Parts(c, 93) /\ DOMAIN c = DOMAIN v[2]
           /\ \A i \in DOMAIN c : c[i] = serialize[v[2][i]]
<1>1. v[2] \in Seq(Values)
      /\ \A i \in DOMAIN v[2] : v[2][i] \in Values
  BY Items
<1>2. ASSUME NEW i \in DOMAIN v[2]
      PROVE  /\ serialize[v[2][i]] \in Seq(Int) /\ serialize[v[2][i]] # <<>>
             /\ serialize[v[2][i]][1] # 93
  <2>1. v[2][i] \in Values
    BY <1>1
  <2>2. Typed(v[2][i]) /\ Tells(v[2][i])
    BY <2>1, FirstCharacter, TextType
  <2>. QED  BY <2>2, Zenon DEF Typed, Tells
<1>3. DOMAIN v[2] = 1..Len(v[2]) /\ Len(v[2]) \in Nat
  BY <1>1
<1>4. DOMAIN c = DOMAIN v[2] /\ \A i \in DOMAIN c : c[i] = serialize[v[2][i]]
  BY DEF ItemTexts
<1>5. c \in Seq(Seq(Int))
  <2>1. c = [i \in DOMAIN v[2] |-> serialize[v[2][i]]]
    BY DEF ItemTexts
  <2>. QED  BY <1>2, <1>3, <2>1
<1>6. \A i \in DOMAIN c : c[i] # <<>> /\ c[i][1] # 93
  BY <1>2, <1>4
<1>. QED  BY <1>4, <1>5, <1>6 DEF Parts

(* So are the members of an object, and each is there.                     *)
LEMMA MembersTexts ==
    ASSUME NEW v \in Values, v[1] = "dict", NEW c, c = MemberTexts(v),
           NEW order, order = sorted_keys_jcs(v[2])
    PROVE  /\ Parts(c, 125) /\ DOMAIN c = DOMAIN order
           /\ \A n \in DOMAIN order :
                 order[n] \in DOMAIN v[2] /\ c[n] = MemberText(v[2][order[n]])
           /\ \A i \in DOMAIN v[2] : \E n \in DOMAIN order : order[n] = i
<1>1. /\ AnyPairs(v[2])
      /\ \A i \in DOMAIN v[2] : v[2][i][2] \in Values
  BY Members
<1>2. /\ DOMAIN order = 1..Len(v[2]) /\ Len(v[2]) \in Nat
      /\ \A n \in DOMAIN order : order[n] \in DOMAIN v[2]
      /\ \A i \in DOMAIN v[2] : \E n \in DOMAIN order : order[n] = i
  <2>1. /\ DOMAIN order = DOMAIN v[2]
        /\ \A n \in DOMAIN v[2] : order[n] \in DOMAIN v[2]
        /\ \A i \in DOMAIN v[2] : \E n \in DOMAIN order : order[n] = i
    BY <1>1, PairsSorted
  <2>2. DOMAIN v[2] = 1..Len(v[2]) /\ Len(v[2]) \in Nat
    BY <1>1 DEF AnyPairs
  <2>. QED  BY <2>1, <2>2
<1>3. ASSUME NEW n \in DOMAIN order
      PROVE  /\ MemberText(v[2][order[n]]) \in Seq(Int) /\ MemberText(v[2][order[n]]) # <<>>
             /\ MemberText(v[2][order[n]])[1] = 34
  <2>1. v[2][order[n]][1] \in Seq(Unicode) /\ v[2][order[n]][2] \in Values
    BY <1>1, <1>2 DEF AnyPairs
  <2>2. serialize[v[2][order[n]][2]] \in Seq(Int)
    BY <2>1, TextType, Zenon DEF Typed
  <2>. QED  BY <2>1, <2>2, MemberTextType
<1>4. c = [n \in DOMAIN order |-> MemberText(v[2][order[n]])]
  BY DEF MemberTexts
<1>5. c \in Seq(Seq(Int))
  BY <1>2, <1>3, <1>4
<1>6. DOMAIN c = DOMAIN order /\ \A n \in DOMAIN order : c[n] = MemberText(v[2][order[n]])
  BY <1>4
<1>7. \A n \in DOMAIN c : c[n] # <<>> /\ c[n][1] # 125
  BY <1>3, <1>6
<1>8. Parts(c, 125)
  BY <1>5, <1>7 DEF Parts
<1>. QED  BY <1>2, <1>6, <1>8

(* A value with the type of a string is that string.                       *)
LEMMA Strings ==
    ASSUME NEW v \in Values, v[1] = "str"
    PROVE  v = JString(v[2])
<1>1. /\ v \in {JNull, JBool(TRUE), JBool(FALSE)} => v[1] \in {"null", "bool"}
      /\ v \in {JInt(v[2]), JFloat(v[2])} => v[1] \in {"int", "float"}
      /\ v = JList(v[2]) => v[1] = "list"
      /\ v = JDict(v[2]) => v[1] = "dict"
  BY Tags, Zenon
<1>. QED  BY <1>1, ValuesAssumption, Zenon

(* Members that are the same in the order of each are the same.            *)
Orders(p, x) ==
    /\ \A n \in DOMAIN p : p[n] \in DOMAIN x[2]
    /\ \A i \in DOMAIN x[2] : \E n \in DOMAIN p : p[n] = i

(* Member by member, in the orders p and q, two objects say the same.      *)
Alike(p, x, q, y) ==
    /\ DOMAIN p = DOMAIN q
    /\ \A n \in DOMAIN p : /\ x[2][p[n]][1] = y[2][q[n]][1]
                           /\ Content[x[2][p[n]][2]] = Content[y[2][q[n]][2]]

(* Objects with the same members in two orders say the same.               *)
LEMMA SameMembers ==
    ASSUME NEW x, NEW y, NEW p, NEW q, Orders(p, x), Orders(q, y), Alike(p, x, q, y)
    PROVE  MemberContents(x) = MemberContents(y)
<1> USE DEF Orders, Alike
<1>1. ASSUME NEW e \in MemberContents(x) PROVE e \in MemberContents(y)
  <2>1. PICK i \in DOMAIN x[2] : e = <<x[2][i][1], Content[x[2][i][2]]>>
    BY DEF MemberContents
  <2>2. PICK n \in DOMAIN p : p[n] = i
    OBVIOUS
  <2>3. q[n] \in DOMAIN y[2] /\ e = <<y[2][q[n]][1], Content[y[2][q[n]][2]]>>
    BY <2>1, <2>2
  <2>. QED  BY <2>3 DEF MemberContents
<1>2. ASSUME NEW e \in MemberContents(y) PROVE e \in MemberContents(x)
  <2>1. PICK i \in DOMAIN y[2] : e = <<y[2][i][1], Content[y[2][i][2]]>>
    BY DEF MemberContents
  <2>2. PICK n \in DOMAIN q : q[n] = i
    OBVIOUS
  <2>3. p[n] \in DOMAIN x[2] /\ e = <<x[2][p[n]][1], Content[x[2][p[n]][2]]>>
    BY <2>1, <2>2
  <2>. QED  BY <2>3 DEF MemberContents
<1>. QED  BY <1>1, <1>2

(* Every value in the profile can be read.                                 *)
LEMMA Reading ==
    ASSUME NEW v \in Values, InProfile(v)
    PROVE  Read(v)
<1> DEFINE S == {x \in Values : InProfile(x) => Read(x)}
<1>1. ASSUME NEW x \in Values, \A y \in Values : Nesting[y] < Nesting[x] => y \in S
      PROVE  x \in S
  <2>. SUFFICES ASSUME InProfile(x), NEW y \in Values, ~Unencodable(y),
                       Agree(serialize[x], serialize[y])
                PROVE  Same(x, y)
    BY DEF Read
  <2>1. serialize[x][1] = serialize[y][1]
    <3>1. /\ serialize[x] \in Seq(Int) /\ serialize[x] # <<>>
          /\ serialize[y] \in Seq(Int) /\ serialize[y] # <<>>
      BY TextType, Zenon DEF Typed
    <3>2. PICK s, t : s = serialize[x] /\ t = serialize[y]
      OBVIOUS
    <3>3. 1 \in DOMAIN s /\ 1 \in DOMAIN t
      BY <3>1, <3>2
    <3>. QED  BY <3>2, <3>3 DEF Agree
  <2>2. /\ x = JNull => serialize[x][1] = 110
        /\ x = JBool(TRUE) => serialize[x][1] = 116
        /\ x = JBool(FALSE) => serialize[x][1] = 102
        /\ x[1] = "str" => serialize[x][1] = 34
        /\ x[1] = "list" => serialize[x][1] = 91
        /\ x[1] = "dict" => serialize[x][1] = 123
    <3>1. Typed(x)
      BY TextType
    <3>. QED  BY <3>1, Zenon DEF Typed
  <2>3. /\ x = JNull => y = JNull
        /\ x = JBool(TRUE) => y = JBool(TRUE)
        /\ x = JBool(FALSE) => y = JBool(FALSE)
        /\ x[1] = "str" => y[1] = "str"
        /\ x[1] = "list" => y[1] = "list"
        /\ x[1] = "dict" => y[1] = "dict"
    <3>1. PICK yes, no, null : yes = JBool(TRUE) /\ no = JBool(FALSE) /\ null = JNull
      BY Zenon
    <3>2. PICK m, n : m = serialize[x][1] /\ n = serialize[y][1]
      OBVIOUS
    <3>3. /\ x = null => m = 110
          /\ x = yes => m = 116
          /\ x = no => m = 102
          /\ x[1] = "str" => m = 34
          /\ x[1] = "list" => m = 91
          /\ x[1] = "dict" => m = 123
      BY <2>2, <3>1, <3>2, Zenon
    <3>4. /\ n = 110 => y = null
          /\ n = 116 => y = yes
          /\ n = 102 => y = no
          /\ n = 34 => y[1] = "str"
          /\ n = 91 => y[1] = "list"
          /\ n = 123 => y[1] = "dict"
      <4>1. Tells(y)
        BY FirstCharacter
      <4>. QED  BY <3>1, <3>2, <4>1, Zenon DEF Tells
    <3>5. m = n
      BY <2>1, <3>2
    <3>6. /\ x = null => y = null
          /\ x = yes => y = yes
          /\ x = no => y = no
          /\ x[1] = "str" => y[1] = "str"
          /\ x[1] = "list" => y[1] = "list"
          /\ x[1] = "dict" => y[1] = "dict"
      BY ONLY <3>3, <3>4, <3>5
    <3>. QED  BY <3>1, <3>6, Zenon
  <2>4. CASE x = JNull \/ x = JBool(TRUE) \/ x = JBool(FALSE)
    BY <2>3, <2>4, Zenon DEF Same
  <2>5. CASE x[1] = "str"
    <3>1. x[2] \in Seq(PlainUnicode) /\ y[2] \in Seq(PlainUnicode)
      BY <2>3, <2>5, ProfileParts, EncodableParts
    <3>2. serialize[x] = serialize_string(x[2]) /\ serialize[y] = serialize_string(y[2])
      BY <2>3, <2>5, TextCases
    <3>3. x[2] = y[2]
      BY <3>1, <3>2, StringRead
    <3>4. x = JString(x[2]) /\ y = JString(y[2])
      BY <2>3, <2>5, Strings
    <3>. QED  BY <3>3, <3>4 DEF Same
  <2>6. CASE x[1] = "list"
    <3>1. PICK c, d : c = ItemTexts(x) /\ d = ItemTexts(y)
      OBVIOUS
    <3>2. /\ Parts(c, 93) /\ DOMAIN c = DOMAIN x[2]
          /\ \A i \in DOMAIN c : c[i] = serialize[x[2][i]]
      BY <2>6, <3>1, ItemsTexts
    <3>3. /\ Parts(d, 93) /\ DOMAIN d = DOMAIN y[2]
          /\ \A i \in DOMAIN d : d[i] = serialize[y[2][i]]
      BY <2>3, <2>6, <3>1, ItemsTexts
    <3>4. ASSUME NEW i \in DOMAIN c, i \in DOMAIN d, Agree(c[i], d[i])
          PROVE  Same(x[2][i], y[2][i])
      <4>1. x[2][i] \in S /\ InProfile(x[2][i]) /\ x[2][i] \in Values
        <5> HIDE DEF S
        <5>. QED  BY <1>1, <2>6, <3>2, Items, ProfileParts
      <4>2. y[2][i] \in Values /\ ~Unencodable(y[2][i])
        BY <2>3, <2>6, <3>3, <3>4, Items, EncodableParts
      <4>3. Agree(serialize[x[2][i]], serialize[y[2][i]])
        BY <3>2, <3>3, <3>4
      <4>. QED  BY <4>1, <4>2, <4>3 DEF Read
    <3>5. OneContinues(c, d)
      BY <3>2, <3>3, <3>4 DEF OneContinues, Same
    <3>6. /\ serialize[x] = <<91>> \o Listed(c) \o <<93>>
          /\ serialize[y] = <<91>> \o Listed(d) \o <<93>>
      BY <2>3, <2>6, <3>1, TextCases
    <3>7. c = d
      BY <3>2, <3>3, <3>5, <3>6, ListsRead
    <3>8. \A i \in DOMAIN c : Content[x[2][i]] = Content[y[2][i]]
      BY <3>4, <3>7 DEF Agree, Same
    <3>9. ItemContents(x) = ItemContents(y)
      BY <3>2, <3>3, <3>7, <3>8 DEF ItemContents
    <3>10. Content[x] = Content[y]
      BY <2>3, <2>6, <3>9, ContentCases
    <3>. QED  BY <3>6, <3>7, <3>10 DEF Same
  <2>7. CASE x[1] = "dict"
    <3>1. PICK c, d, p, q : /\ c = MemberTexts(x) /\ d = MemberTexts(y)
                            /\ p = sorted_keys_jcs(x[2]) /\ q = sorted_keys_jcs(y[2])
      OBVIOUS
    <3>2. /\ Parts(c, 125) /\ DOMAIN c = DOMAIN p
          /\ \A n \in DOMAIN p : p[n] \in DOMAIN x[2] /\ c[n] = MemberText(x[2][p[n]])
          /\ \A i \in DOMAIN x[2] : \E n \in DOMAIN p : p[n] = i
      BY <2>7, <3>1, MembersTexts
    <3>3. /\ Parts(d, 125) /\ DOMAIN d = DOMAIN q
          /\ \A n \in DOMAIN q : q[n] \in DOMAIN y[2] /\ d[n] = MemberText(y[2][q[n]])
          /\ \A i \in DOMAIN y[2] : \E n \in DOMAIN q : q[n] = i
      BY <2>3, <2>7, <3>1, MembersTexts
    <3>4. PlainPairs(x[2]) /\ PlainPairs(y[2])
      BY <2>3, <2>7, ProfileParts, EncodableParts
    <3>5. ASSUME NEW n \in DOMAIN p, n \in DOMAIN q, Agree(c[n], d[n])
          PROVE  /\ x[2][p[n]][1] = y[2][q[n]][1]
                 /\ Content[x[2][p[n]][2]] = Content[y[2][q[n]][2]]
                 /\ c[n] = d[n]
      <4>1. PICK a, b : a = x[2][p[n]] /\ b = y[2][q[n]]
        OBVIOUS
      <4>2. a[1] \in Seq(PlainUnicode) /\ b[1] \in Seq(PlainUnicode)
        BY <3>2, <3>3, <3>4, <3>5, <4>1 DEF PlainPairs
      <4>3. a[2] \in S /\ InProfile(a[2]) /\ a[2] \in Values
        <5> HIDE DEF S
        <5>. QED  BY <1>1, <2>7, <3>2, <4>1, Members, ProfileParts
      <4>4. b[2] \in Values /\ ~Unencodable(b[2])
        BY <2>3, <2>7, <3>3, <3>5, <4>1, Members, EncodableParts
      <4>5. Agree(MemberText(a), MemberText(b)) /\ Read(a[2])
        BY <3>2, <3>3, <3>5, <4>1, <4>3
      <4>6. a[1] = b[1] /\ Same(a[2], b[2]) /\ MemberText(a) = MemberText(b)
        BY <4>2, <4>3, <4>4, <4>5, MembersRead
      <4>. QED  BY <3>2, <3>3, <3>5, <4>1, <4>6 DEF Same
    <3>6. OneContinues(c, d)
      BY <3>2, <3>3, <3>5 DEF OneContinues
    <3>7. /\ serialize[x] = <<123>> \o Listed(c) \o <<125>>
          /\ serialize[y] = <<123>> \o Listed(d) \o <<125>>
      BY <2>3, <2>7, <3>1, TextCases
    <3>8. c = d
      BY <3>2, <3>3, <3>6, <3>7, ListsRead
    <3>9. /\ DOMAIN p = DOMAIN q
          /\ \A n \in DOMAIN p : /\ x[2][p[n]][1] = y[2][q[n]][1]
                                 /\ Content[x[2][p[n]][2]] = Content[y[2][q[n]][2]]
      BY <3>2, <3>3, <3>5, <3>8 DEF Agree
    <3>10. MemberContents(x) = MemberContents(y)
      <4>1. Orders(p, x) /\ Orders(q, y)
        BY <3>2, <3>3 DEF Orders
      <4>2. Alike(p, x, q, y)
        BY <3>9 DEF Alike
      <4>. QED  BY <4>1, <4>2, SameMembers
    <3>11. Content[x] = Content[y]
      BY <2>3, <2>7, <3>10, ContentCases
    <3>. QED  BY <3>7, <3>8, <3>11 DEF Same
  <2>. QED  BY <2>4, <2>5, <2>6, <2>7, Kinds, ProfileParts, Zenon DEF Kind
<1>2. v \in S
  <2> HIDE DEF S
  <2>. QED  BY <1>1, ValuesAssumption, Serialize!Induction
<1>. QED  BY <1>2

(* Values that say the same have one text.                                 *)
Said(x) == \A y \in Values : Content[x] = Content[y] => serialize[x] = serialize[y]

(* The members of two objects that say the same, in sorted order.          *)
LEMMA SortedAlike ==
    ASSUME NEW x \in Values, NEW y \in Values, x[1] = "dict", y[1] = "dict",
           PlainPairs(x[2]), MemberContents(x) = MemberContents(y),
           NEW p, p = sorted_keys_jcs(x[2]), NEW q, q = sorted_keys_jcs(y[2])
    PROVE  /\ Alike(p, x, q, y)
           /\ \A n \in DOMAIN p : p[n] \in DOMAIN x[2] /\ q[n] \in DOMAIN y[2]
<1>1. ASSUME NEW i \in DOMAIN x[2]
      PROVE  \E j \in DOMAIN y[2] : /\ x[2][i][1] = y[2][j][1]
                                    /\ Content[x[2][i][2]] = Content[y[2][j][2]]
  <2>1. <<x[2][i][1], Content[x[2][i][2]]>> \in MemberContents(y)
    BY DEF MemberContents
  <2>. QED  BY <2>1 DEF MemberContents
<1>2. ASSUME NEW i \in DOMAIN y[2]
      PROVE  \E j \in DOMAIN x[2] : y[2][i][1] = x[2][j][1]
  <2>1. <<y[2][i][1], Content[y[2][i][2]]>> \in MemberContents(x)
    BY DEF MemberContents
  <2>. QED  BY <2>1 DEF MemberContents
<1>3. PlainPairs(y[2])
  <2>1. \A i \in DOMAIN y[2] : y[2][i][1] \in Seq(PlainUnicode)
    BY <1>2 DEF PlainPairs
  <2>2. AnyPairs(y[2]) /\ \A i, j \in DOMAIN y[2] : y[2][i][1] = y[2][j][1] => i = j
    BY Members
  <2>. QED  BY <2>1, <2>2 DEF PlainPairs
<1>4. Names(x[2]) = Names(y[2])
  <2>1. \A e \in Names(x[2]) : e \in Names(y[2])
    BY <1>1 DEF Names
  <2>2. \A e \in Names(y[2]) : e \in Names(x[2])
    BY <1>2 DEF Names
  <2>. QED  BY <2>1, <2>2
<1>5. PICK keys : keys = sortKeysJCS(Names(x[2]))
  OBVIOUS
<1>6. /\ DOMAIN keys = DOMAIN p
      /\ \A n \in DOMAIN p : p[n] \in DOMAIN x[2] /\ keys[n] = x[2][p[n]][1]
  BY <1>5, NamesSorted
<1>7. /\ DOMAIN keys = DOMAIN q
      /\ \A n \in DOMAIN q : q[n] \in DOMAIN y[2] /\ keys[n] = y[2][q[n]][1]
  BY <1>3, <1>4, <1>5, NamesSorted
<1>8. ASSUME NEW n \in DOMAIN p
      PROVE  /\ x[2][p[n]][1] = y[2][q[n]][1]
             /\ Content[x[2][p[n]][2]] = Content[y[2][q[n]][2]]
  <2>1. /\ p[n] \in DOMAIN x[2] /\ q[n] \in DOMAIN y[2]
        /\ x[2][p[n]][1] = y[2][q[n]][1]
    BY <1>6, <1>7
  <2>2. PICK j \in DOMAIN y[2] : /\ x[2][p[n]][1] = y[2][j][1]
                                 /\ Content[x[2][p[n]][2]] = Content[y[2][j][2]]
    BY <1>1, <2>1
  <2>3. j = q[n]
    BY <1>3, <2>1, <2>2 DEF PlainPairs
  <2>. QED  BY <2>1, <2>2, <2>3
<1>. QED  BY <1>6, <1>7, <1>8 DEF Alike

(* Bodies that say the same have one text.                                 *)
LEMMA Saying ==
    ASSUME NEW v \in Values, InProfile(v)
    PROVE  Said(v)
<1> DEFINE S == {x \in Values : InProfile(x) => Said(x)}
<1>1. ASSUME NEW x \in Values, \A y \in Values : Nesting[y] < Nesting[x] => y \in S
      PROVE  x \in S
  <2>. SUFFICES ASSUME InProfile(x), NEW y \in Values, Content[x] = Content[y]
                PROVE  serialize[x] = serialize[y]
    BY DEF Said
  <2>1. x[1] = y[1]
    <3>1. Content[x][1] = x[1] /\ Content[y][1] = y[1]
      BY ContentCases
    <3>. QED  BY <3>1
  <2>2. CASE x[1] \notin {"list", "dict"}
    BY <2>1, <2>2, ContentCases
  <2>3. CASE x[1] = "list"
    <3>1. PICK c, d : c = ItemContents(x) /\ d = ItemContents(y)
      OBVIOUS
    <3>2. c = d
      <4>1. <<"list", c>> = <<"list", d>>
        BY <2>1, <2>3, <3>1, ContentCases
      <4>. QED  BY <4>1
    <3>3. /\ DOMAIN x[2] = DOMAIN y[2]
          /\ \A i \in DOMAIN x[2] : Content[x[2][i]] = Content[y[2][i]]
      <4>1. DOMAIN c = DOMAIN x[2] /\ \A i \in DOMAIN x[2] : c[i] = Content[x[2][i]]
        BY <3>1 DEF ItemContents
      <4>2. DOMAIN d = DOMAIN y[2] /\ \A i \in DOMAIN y[2] : d[i] = Content[y[2][i]]
        BY <3>1 DEF ItemContents
      <4>. QED  BY <3>2, <4>1, <4>2
    <3>4. ASSUME NEW i \in DOMAIN x[2] PROVE serialize[x[2][i]] = serialize[y[2][i]]
      <4>1. x[2][i] \in S /\ InProfile(x[2][i]) /\ y[2][i] \in Values
        <5> HIDE DEF S
        <5>. QED  BY <1>1, <2>1, <2>3, <3>3, Items, ProfileParts
      <4>. QED  BY <3>3, <4>1 DEF Said
    <3>5. ItemTexts(x) = ItemTexts(y)
      BY <3>3, <3>4 DEF ItemTexts
    <3>6. serialize[x] = <<91>> \o Listed(ItemTexts(x)) \o <<93>>
      BY <2>3, TextCases
    <3>7. serialize[y] = <<91>> \o Listed(ItemTexts(y)) \o <<93>>
      <4>1. y[1] = "list"
        BY <2>1, <2>3
      <4>. QED  BY <4>1, TextCases
    <3>. QED  BY <3>5, <3>6, <3>7
  <2>4. CASE x[1] = "dict"
    <3>1. MemberContents(x) = MemberContents(y)
      <4>1. PICK c, d : c = MemberContents(x) /\ d = MemberContents(y)
        OBVIOUS
      <4>2. <<"dict", c>> = <<"dict", d>>
        BY <2>1, <2>4, <4>1, ContentCases
      <4>3. c = d
        BY <4>2
      <4>. QED  BY <4>1, <4>3
    <3>2. PICK p, q : p = sorted_keys_jcs(x[2]) /\ q = sorted_keys_jcs(y[2])
      OBVIOUS
    <3>3. PlainPairs(x[2])
      BY <2>4, ProfileParts, EncodableParts
    <3>4. /\ Alike(p, x, q, y)
          /\ \A n \in DOMAIN p : p[n] \in DOMAIN x[2] /\ q[n] \in DOMAIN y[2]
      BY <2>1, <2>4, <3>1, <3>2, <3>3, SortedAlike
    <3>5. ASSUME NEW n \in DOMAIN p PROVE MemberText(x[2][p[n]]) = MemberText(y[2][q[n]])
      <4>1. /\ x[2][p[n]][1] = y[2][q[n]][1]
            /\ Content[x[2][p[n]][2]] = Content[y[2][q[n]][2]]
        BY <3>4 DEF Alike
      <4>2. /\ x[2][p[n]][2] \in S /\ InProfile(x[2][p[n]][2])
            /\ y[2][q[n]][2] \in Values
        <5> HIDE DEF S
        <5>. QED  BY <1>1, <2>1, <2>4, <3>4, Members, ProfileParts
      <4>3. serialize[x[2][p[n]][2]] = serialize[y[2][q[n]][2]]
        BY <4>1, <4>2 DEF Said
      <4>. QED  BY <4>1, <4>3 DEF MemberText
    <3>6. MemberTexts(x) = MemberTexts(y)
      <4>1. MemberTexts(x) = [n \in DOMAIN p |-> MemberText(x[2][p[n]])]
        BY <3>2 DEF MemberTexts
      <4>2. MemberTexts(y) = [n \in DOMAIN q |-> MemberText(y[2][q[n]])]
        BY <3>2 DEF MemberTexts
      <4>3. DOMAIN p = DOMAIN q
        BY <3>4 DEF Alike
      <4>. QED  BY <3>5, <4>1, <4>2, <4>3
    <3>7. serialize[x] = <<123>> \o Listed(MemberTexts(x)) \o <<125>>
      BY <2>4, TextCases
    <3>8. serialize[y] = <<123>> \o Listed(MemberTexts(y)) \o <<125>>
      <4>1. y[1] = "dict"
        BY <2>1, <2>4
      <4>. QED  BY <4>1, TextCases
    <3>. QED  BY <3>6, <3>7, <3>8
  <2>. QED  BY <2>2, <2>3, <2>4
<1>2. v \in S
  <2> HIDE DEF S
  <2>. QED  BY <1>1, ValuesAssumption, Serialize!Induction
<1>. QED  BY <1>2

(* Two bodies have one canonical text exactly if they say the same.        *)
THEOREM TextsIdentifyBodies == Spec => []TextIdentifiesBody
<1>1. CheckedSoFar => TextIdentifiesBody
  <2>. SUFFICES ASSUME CheckedSoFar, NEW i \in DOMAIN repo, NEW j \in DOMAIN repo,
                       NEW a, a = repo[i].body, NEW b, b = repo[j].body,
                       InProfile(a), PythonText[b] # NoText
                PROVE  PythonText[a] = PythonText[b] <=> Content[a] = Content[b]
    BY DEF TextIdentifiesBody
  <2>1. a \in Bodies /\ b \in Bodies
    BY RepositoriesAssumption DEF CheckedSoFar
  <2>2. a \in Values /\ b \in Values /\ PythonText[b] = canonicalize(b)
    BY <2>1, TextsAssumption
  <2>3. ~Unencodable(b) /\ PythonText[b] = serialize[b]
    BY <2>2, Zenon DEF canonicalize
  <2>4. PythonText[a] = serialize[a]
    BY <2>1, TextsOfBody
  <2>5. ASSUME serialize[a] = serialize[b] PROVE Content[a] = Content[b]
    <3>1. Agree(serialize[a], serialize[b])
      BY <2>5 DEF Agree
    <3>. QED  BY <2>2, <2>3, <3>1, Reading DEF Read, Same
  <2>6. Content[a] = Content[b] => serialize[a] = serialize[b]
    BY <2>2, Saying DEF Said
  <2>. QED  BY <2>3, <2>4, <2>5, <2>6
<1>. QED  BY <1>1, Checked, PTL
=============================================================================
