------------------------- MODULE MCGoCanonicalCheck -------------------------
(***************************************************************************)
(* A small instance of GoCanonicalCheck: two vectors, whose bodies have    *)
(* names and texts of the code points at which the order, the escapes or   *)
(* the encoding changes.                                                   *)
(***************************************************************************)
EXTENDS GoCanonicalCheck

(* null, newline, the last control character, quote, backslash, n, e acute,*)
(* the last before and the first behind the basic plane, an emoji          *)
CodePoints == {0, 10, 31, 34, 92, 110, 233, 65533, 65536, 128512}

Strings(set, n) == UNION {[1..k -> set] : k \in 0..n}

TextBodies == {JString(s) : s \in Strings({10, 92, 110}, 2)}
                \cup {JString(<<c>>) : c \in CodePoints}

(* Objects of two members, written in either order.                        *)
Pair(m, n) == <<<<m, JString(<<110>>)>>, <<n, JList(<<JNull>>)>>>>
Keys == {<<>>, <<110>>, <<65533>>, <<65536>>, <<65536, 110>>}
PairBodies ==
    UNION {{JDict(Pair(m, n)), JDict(<<Pair(m, n)[2], Pair(m, n)[1]>>)} :
              m \in Keys, n \in Keys}
NamedTwice(b) == b[2][1][1] = b[2][2][1]

OtherBodies ==
    {JDict(<<>>), JList(<<>>), JList(<<JString(<<>>), JString(<<>>)>>),
     JList(<<JDict(Pair(<<65536>>, <<65533>>))>>), JBool(TRUE), JNull,
     JInt(0), JInt(-7), JInt(12), JInt(5), JInt(500),
     JFloat(0), JFloat(50), JFloat(25),
     JString(<<55296>>), JDict(Pair(<<55296>>, <<65533>>))}

MCBodies == TextBodies \cup {b \in PairBodies : ~NamedTwice(b)} \cup OtherBodies

(* The array is in the objects only; what else is in a body is one itself. *)
MCValues == MCBodies \cup {JList(<<JNull>>)}

RECURSIVE Deep(_)
Deep(v) ==
    CASE v[1] = "list" -> 1 + Max({0} \cup {Deep(v[2][i]) : i \in DOMAIN v[2]})
      [] v[1] = "dict" -> 1 + Max({0} \cup {Deep(v[2][i][2]) : i \in DOMAIN v[2]})
      [] OTHER -> 0
MCNesting == [v \in MCValues |-> Deep(v)]

MCPythonText == [b \in MCBodies |-> canonicalize(b)]
MCGoText     == [b \in MCBodies |-> goCanonicalize(b)]

Vector(body, text) ==
    [receipts |-> TRUE, expected |-> TRUE, body |-> body,
     python |-> text, go |-> text]

Recorded == {Vector(b, PythonText[b]) : b \in MCBodies}

(* Vectors that something happened to: a part is missing or another one.   *)
GoodBody == JDict(Pair(<<65533>>, <<65536>>))
Changes ==
    {<<"receipts", TRUE>>, <<"receipts", FALSE>>, <<"expected", FALSE>>,
     <<"python", NoText>>, <<"go", NoText>>, <<"go", <<48>>>>,
     <<"body", JFloat(25)>>, <<"body", JFloat(50)>>,
     <<"body", JInt(500)>>}
    \cup {<<"body", b>> : b \in PairBodies \cap MCBodies}
Damaged ==
    {[Vector(GoodBody, PythonText[GoodBody]) EXCEPT ![change[1]] = change[2]] :
        change \in Changes}

MCRepositories == [1..2 -> Recorded] \cup [1..2 -> Damaged]
=============================================================================
