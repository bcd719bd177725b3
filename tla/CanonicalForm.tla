---------------------------- MODULE CanonicalForm ----------------------------
(***************************************************************************)
(* canonical.py: the text a receipt body is hashed and signed as.  Here    *)
(* strings are sequences of code points, numbers are counted in tenths     *)
(* when they have a decimal point, and an object is the sequence of its    *)
(* pairs of a name and a value in the order in which they were inserted.   *)
(***************************************************************************)
EXTENDS Integers, SequencesExt

CONSTANTS Values,   \* the values considered, and every value inside them
          Nesting   \* how deep each of them is nested

JNull        == <<"null">>
JBool(b)     == <<"bool", b>>
JInt(n)      == <<"int", n>>
JFloat(n)    == <<"float", n>>
JString(s)   == <<"str", s>>
JList(items) == <<"list", items>>
JDict(pairs) == <<"dict", pairs>>

LastCodePoint == 1114111
Unicode == 0..LastCodePoint

(* What json.load can return: no two members of an object have one name.   *)
ASSUME ValuesAssumption ==
    /\ Nesting \in [Values -> Nat]
    /\ \A v \in Values :
          \/ v \in {JNull, JBool(TRUE), JBool(FALSE)}
          \/ v \in {JInt(v[2]), JFloat(v[2])} /\ v[2] \in Int
          \/ v = JString(v[2]) /\ v[2] \in Seq(Unicode)
          \/ /\ v = JList(v[2]) /\ v[2] \in Seq(Values)
             /\ \A i \in DOMAIN v[2] : Nesting[v[2][i]] < Nesting[v]
          \/ /\ v = JDict(v[2]) /\ v[2] \in Seq(Seq(Unicode) \X Values)
             /\ \A i \in DOMAIN v[2] : Nesting[v[2][i][2]] < Nesting[v]
             /\ \A i, j \in DOMAIN v[2] : v[2][i][1] = v[2][j][1] => i = j

IsSurrogate(cp) == cp \in 55296..57343      \* 0xD800..0xDFFF

-----------------------------------------------------------------------------
(* Mutant: names are compared by their code points.                        *)
code_points(s) == s

to_utf16_code_units(s) ==
    FlattenSeq([i \in DOMAIN s |->
        IF s[i] <= 65535 THEN <<s[i]>>
        ELSE <<55296 + ((s[i] - 65536) \div 1024),
              56320 + ((s[i] - 65536) % 1024)>>])

(* The first units that differ decide, then the lengths.                   *)
compare_keys_jcs(a, b) ==
    LET a_units == to_utf16_code_units(a)
        b_units == to_utf16_code_units(b)
        differ  == {i \in DOMAIN a_units \cap DOMAIN b_units :
                       a_units[i] # b_units[i]}
        at      == CHOOSE i \in differ : \A j \in differ : i <= j
    IN  IF differ # {} THEN a_units[at] - b_units[at]
        ELSE Len(a_units) - Len(b_units)

(* sorted() keeps the order of names that compare equal.  The positions of *)
(* the sorted pairs:                                                       *)
sorted_keys_jcs(pairs) ==
    LET before(i, j) ==
            LET c == compare_keys_jcs(pairs[i][1], pairs[j][1])
            IN  c < 0 \/ (c = 0 /\ i < j)
    IN  [n \in DOMAIN pairs |->
            CHOOSE i \in DOMAIN pairs :
                Cardinality({j \in DOMAIN pairs : before(j, i)}) = n - 1]

-----------------------------------------------------------------------------
HexDigit(n) == IF n < 10 THEN 48 + n ELSE 87 + n

(* The letter behind the backslash of a short escape.                      *)
ShortEscapes == {<<34, 34>>, <<92, 92>>, <<8, 98>>, <<12, 102>>, <<10, 110>>,
                 <<13, 114>>, <<9, 116>>}

(* Mutant: a backslash in a string is written as it is.                    *)
escaped_but_backslash(cp) ==
    IF cp = 10 THEN <<92, 110>> ELSE IF cp = 34 THEN <<92, 34>> ELSE <<cp>>

escaped(cp) ==
    IF \E e \in ShortEscapes : e[1] = cp
    THEN <<92, (CHOOSE e \in ShortEscapes : e[1] = cp)[2]>>
    ELSE IF cp < 32
    THEN <<92, 117, 48, 48, HexDigit(cp \div 16), HexDigit(cp % 16)>>
    ELSE <<cp>>

serialize_string(s) ==
    <<34>> \o FlattenSeq([i \in DOMAIN s |-> escaped(s[i])]) \o <<34>>

Digits[n \in Int] == IF n < 0 THEN <<45>> \o Digits[-n]
                    ELSE IF n < 10 THEN <<48 + n>>
                    ELSE Digits[n \div 10] \o <<48 + (n % 10)>>

(* ",".join                                                                *)
Listed(parts) ==
    FlattenSeq([i \in DOMAIN parts |->
                   IF i = 1 THEN parts[i] ELSE <<44>> \o parts[i]])

serialize[v \in Values] ==
    CASE v[1] = "null"  -> <<110, 117, 108, 108>>
      [] v[1] = "bool"  -> IF v[2] THEN <<116, 114, 117, 101>>
                           ELSE <<102, 97, 108, 115, 101>>
      [] v[1] = "int"   -> Digits[v[2]]
      [] v[1] = "float" -> <<48>>
      [] v[1] = "str"   -> serialize_string(v[2])
      [] v[1] = "list"  ->
           <<91>> \o Listed([i \in DOMAIN v[2] |-> serialize[v[2][i]]])
                  \o <<93>>
      [] OTHER ->
           LET order == sorted_keys_jcs(v[2])
               pairs == [i \in DOMAIN order |->
                            serialize_string(v[2][order[i]][1]) \o <<58>>
                              \o serialize[v[2][order[i]][2]]]
           IN  <<123>> \o Listed(pairs) \o <<125>>

(* Every value inside a value, the names of members and itself included.   *)
Inside[v \in Values] ==
    {v} \cup
    (CASE v[1] = "list" -> UNION {Inside[v[2][i]] : i \in DOMAIN v[2]}
       [] v[1] = "dict" ->
            UNION {Inside[v[2][i][2]] \cup {JString(v[2][i][1])} :
                      i \in DOMAIN v[2]}
       [] OTHER -> {})

(* CanonicalizationError: a float other than zero.                         *)
Refused(v) == \E u \in Inside[v] : u[1] = "float" /\ u[2] # 0

(* UnicodeEncodeError of the final encode("utf-8").                        *)
Unencodable(v) ==
    \E u \in Inside[v] : /\ u[1] = "str"
                         /\ \E i \in DOMAIN u[2] : IsSurrogate(u[2][i])

NoText == <<>>

canonicalize(v) ==
    IF Refused(v) \/ Unencodable(v) THEN NoText ELSE serialize[v]

-----------------------------------------------------------------------------
(* What a value is, whatever the order of the members of its objects.      *)
Content[v \in Values] ==
    CASE v[1] = "list" -> <<"list", [i \in DOMAIN v[2] |-> Content[v[2][i]]]>>
      [] v[1] = "dict" -> <<"dict", {<<v[2][i][1], Content[v[2][i][2]]>> :
                                        i \in DOMAIN v[2]}>>
      [] OTHER -> v

(* What the checks of layer 1 leave in a receipt body: strings, arrays and *)
(* null (a reasons that is null passes), no number.                        *)
InProfile(v) ==
    /\ ~Unencodable(v)
    /\ \A u \in Inside[v] : u[1] \notin {"int", "float"}
=============================================================================
