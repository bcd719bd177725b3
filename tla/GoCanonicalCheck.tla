-------------------------- MODULE GoCanonicalCheck --------------------------
(***************************************************************************)
(* tools/go-canonical-check/main.go: an independent canonicalizer, and the *)
(* program that compares its output with what the Python one recorded for  *)
(* the vectors of the canonical form.                                      *)
(***************************************************************************)
EXTENDS CanonicalForm

CONSTANTS Repositories, \* what the files of the vectors may be: see below
          Bodies,       \* the receipt bodies in them
          PythonText,   \* what canonicalize makes of each body
          GoText,       \* what goCanonicalize makes of each body
          GoLimit       \* 1e15 in the code, a small number for TLC

(* json.Unmarshal: a number is a float64, an unpaired surrogate becomes    *)
(* U+FFFD, an object is a map, in which the last of equal names wins.      *)
Decoded(s) == [i \in DOMAIN s |-> IF IsSurrogate(s[i]) THEN 65533 ELSE s[i]]

Names(pairs) == {Decoded(pairs[i][1]) : i \in DOMAIN pairs}

ValueAt(pairs, name) ==
    LET named == {i \in DOMAIN pairs : Decoded(pairs[i][1]) = name}
    IN  pairs[CHOOSE i \in named : \A j \in named : j <= i][2]

Tenths(v) == IF v[1] = "int" THEN 10 * v[2] ELSE v[2]

-----------------------------------------------------------------------------
toUTF16(s) ==
    FlattenSeq([i \in DOMAIN s |->
        IF s[i] < 65536 THEN <<s[i]>>
        ELSE <<55296 + ((s[i] - 65536) \div 1024),
              56320 + ((s[i] - 65536) % 1024)>>])

(* compareUTF16(a, b) < 0                                                  *)
Less(a, b) ==
    LET au == toUTF16(a)
        bu == toUTF16(b)
    IN  \/ \E i \in DOMAIN au \cap DOMAIN bu :
              au[i] < bu[i] /\ \A j \in 1..i - 1 : au[j] = bu[j]
        \/ Len(au) < Len(bu) /\ \A i \in DOMAIN au : au[i] = bu[i]

sortKeysJCS(names) ==
    [n \in 1..Cardinality(names) |->
        CHOOSE k \in names : Cardinality({m \in names : Less(m, k)}) = n - 1]

serializeString(s) ==
    LET rune(r) ==
            CASE r = 34 -> <<92, 34>>  [] r = 92 -> <<92, 92>>
              [] r = 8  -> <<92, 98>>  [] r = 12 -> <<92, 102>>
              [] r = 10 -> <<92, 110>> [] r = 13 -> <<92, 114>>
              [] r = 9  -> <<92, 116>>
              [] r \notin {8, 9, 10, 12, 13} /\ r < 32 ->
                   <<92, 117, 48, 48, HexDigit(r \div 16), HexDigit(r % 16)>>
              [] OTHER -> <<r>>
    IN  <<34>> \o FlattenSeq([i \in DOMAIN s |-> rune(s[i])]) \o <<34>>

serializeValue[v \in Values] ==
    CASE v[1] \in {"null", "bool"} -> serialize[v]
      [] v[1] \in {"int", "float"} -> Digits[Tenths(v) \div 10]
      [] v[1] = "str"  -> serializeString(Decoded(v[2]))
      [] v[1] = "list" ->
           <<91>> \o Listed([i \in DOMAIN v[2] |-> serializeValue[v[2][i]]])
                  \o <<93>>
      [] OTHER ->
           LET keys  == sortKeysJCS(Names(v[2]))
               pairs == [i \in DOMAIN keys |->
                            serializeString(keys[i]) \o <<58>>
                              \o serializeValue[ValueAt(v[2], keys[i])]]
           IN  <<123>> \o Listed(pairs) \o <<125>>

(* Numbers with a fraction and large ones are refused, the latter because  *)
(* a float64 could not tell them apart.                                    *)
GoRefuses(v) ==
    \E u \in Inside[v] :
        /\ u[1] \in {"int", "float"}
        /\ \/ Tenths(u) % 10 # 0
           \/ Tenths(u) \div 10 \notin -(GoLimit - 1)..GoLimit - 1

goCanonicalize(v) == IF GoRefuses(v) THEN NoText ELSE serializeValue[v]

ASSUME TextsAssumption ==
    /\ Bodies \subseteq Values
    /\ \A b \in Bodies : /\ PythonText[b] = canonicalize(b)
                         /\ GoText[b] = goCanonicalize(b)

-----------------------------------------------------------------------------
(* A vector: its receipts.json is there and has a receipt with a body, or  *)
(* one of these is not so; expected.json is there or not, and holds the    *)
(* two texts, NoText if the member is missing or no string.                *)
ASSUME RepositoriesAssumption ==
    \A vectors \in Repositories :
        /\ DOMAIN vectors = 1..Len(vectors) /\ Len(vectors) \in Nat
        /\ \A i \in DOMAIN vectors : vectors[i].body \in Bodies

VARIABLES
    repo,       \* the vectors: never changes
    at,         \* the vector to check next
    reports,    \* what was printed for each vector
    allPass,
    exit        \* the exit status, -1 before the exit

vars == <<repo, at, reports, allPass, exit>>

Init ==
    /\ repo \in Repositories
    /\ at = 1
    /\ reports = <<>>
    /\ allPass = TRUE
    /\ exit = -1

Broken(vector) == ~vector.receipts \/ ~vector.expected
                    \/ GoText[vector.body] = NoText

(* A text that is missing counts as equal.                                 *)
Matches(vector, text) == text \in {NoText, GoText[vector.body]}

checkVector(vector) ==
    IF Broken(vector) THEN "ERROR"
    ELSE IF Matches(vector, vector.python) /\ Matches(vector, vector.go)
    THEN "PASS" ELSE "FAIL"

(* Mutant: the last vector decides.                                        *)
CheckAfresh ==
    /\ at \in DOMAIN repo
    /\ reports' = Append(reports, checkVector(repo[at]))
    /\ allPass' = (checkVector(repo[at]) = "PASS")
    /\ at' = at + 1
    /\ UNCHANGED <<repo, exit>>

Check ==
    /\ at \in DOMAIN repo
    /\ reports' = Append(reports, checkVector(repo[at]))
    /\ allPass' = (allPass /\ checkVector(repo[at]) = "PASS")
    /\ at' = at + 1
    /\ UNCHANGED <<repo, exit>>

Finish ==
    /\ at > Len(repo) /\ exit = -1
    /\ exit' = IF allPass THEN 0 ELSE 1
    /\ UNCHANGED <<repo, at, reports, allPass>>

Next == Check \/ Finish

Spec == Init /\ [][Next]_vars

-----------------------------------------------------------------------------
(* A vector that scripts/generate_vectors.py wrote for a body.             *)
Generated(vector) ==
    /\ vector.receipts /\ vector.expected
    /\ vector.python = PythonText[vector.body] /\ vector.go = vector.python

(* Vectors as generated pass, for every body that a receipt can have: the  *)
(* two implementations agree on names outside the basic plane, escapes and *)
(* the order in which the members were written (main.go:4-6).              *)
GeneratedPass ==
    exit # -1 /\ (\A i \in DOMAIN repo :
                     Generated(repo[i]) /\ InProfile(repo[i].body))
      => exit = 0

(* Success means that every vector was checked and none was broken, and    *)
(* that the recorded Python text is, if there is one, the text that        *)
(* canonical.py makes of the body that is in the file now.                 *)
SuccessMeansCurrent ==
    exit = 0 =>
        /\ Len(reports) = Len(repo)
        /\ \A i \in DOMAIN repo :
              /\ repo[i].receipts /\ repo[i].expected
              /\ (InProfile(repo[i].body) /\ repo[i].python # NoText)
                   => repo[i].python = PythonText[repo[i].body]

(* Two bodies have one canonical text exactly if they say the same, in     *)
(* whatever order: a hash or a signature of the text stands for the body,  *)
(* as HashOf and SignatureBy of module Json assume.  (A zero with a        *)
(* decimal point is the text of the integer zero: such a body fails the    *)
(* checks before it is hashed.)                                            *)
TextIdentifiesBody ==
    \A i, j \in DOMAIN repo :
        LET a == repo[i].body
            b == repo[j].body
        IN  (InProfile(a) /\ PythonText[b] # NoText) =>
               (PythonText[a] = PythonText[b] <=> Content[a] = Content[b])
=============================================================================
