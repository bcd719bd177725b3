----------------------------- MODULE StrictJson -----------------------------
(***************************************************************************)
(* strict_json.py: what json.load with the hook _reject_duplicates makes   *)
(* of the text of a file.  A text is a tree: <<"atom", value>>,            *)
(* <<"array", texts>>, <<"object", pairs of a name and a text>>, or        *)
(* <<"garbage">> where the syntax error is.                                *)
(***************************************************************************)
EXTENDS Json

CONSTANTS Texts,    \* the texts considered, and every text inside them
          Depth     \* how deep each of them is nested

PairsOf(text) == text[2]

(* The texts inside a text, in the order in which the decoder meets them.  *)
Parts(text) ==
    CASE text[1] = "array"  -> text[2]
      [] text[1] = "object" -> [i \in DOMAIN PairsOf(text) |-> PairsOf(text)[i][2]]
      [] OTHER              -> <<>>

ASSUME NestingAssumption ==
    /\ Depth \in [Texts -> Nat]
    /\ \A text \in Texts :
          /\ text[1] \in {"atom", "array", "object", "garbage"}
          /\ text[1] = "atom" => ~IsList(text[2]) /\ ~IsObj(text[2])
          /\ Parts(text) \in Seq(Texts)
          /\ \A i \in DOMAIN Parts(text) : Depth[Parts(text)[i]] < Depth[text]

(* Mutant: of a repeated name one value counts.                            *)
RepeatsNever(pairs) == FALSE

(* _reject_duplicates, called with the pairs of an object when it closes.  *)
Repeats(pairs) ==
    \E i, j \in DOMAIN pairs : i < j /\ pairs[i][1] = pairs[j][1]

(* The error that the decoder, going from left to right, meets first: one  *)
(* code or none.  The hook sees an object only when it is complete.        *)
ErrorsIn[text \in Texts] ==
    LET parts   == Parts(text)
        reached == {i \in DOMAIN parts :
                       \A j \in 1..i - 1 : ErrorsIn[parts[j]] = {}}
        within  == UNION {ErrorsIn[parts[i]] : i \in reached}
    IN  IF text[1] = "garbage" THEN {"INVALID_JSON"}
        ELSE within ?? IF text[1] = "object" /\ Repeats(PairsOf(text))
                       THEN {"DUPLICATE_FIELD"} ELSE {}

(* The parsed value of a text without errors.                              *)
ValueOf[text \in Texts] ==
    CASE text[1] = "array"  ->
           List([i \in DOMAIN text[2] |-> ValueOf[text[2][i]]])
      [] text[1] = "object" ->
           LET pairs    == {PairsOf(text)[i] : i \in DOMAIN PairsOf(text)}
               named(n) == {ValueOf[p[2]] : p \in {q \in pairs : q[1] = n}}
           IN  Obj([n \in {p[1] : p \in pairs} |->
                       CHOOSE value \in named(n) : TRUE])
      [] OTHER -> text[2]

Parsed == {ValueOf[text] : text \in {t \in Texts : ErrorsIn[t] = {}}}

(* load_strict_json_file: a file that cannot be opened or decoded raises   *)
(* something else; text behind the document is found when it is complete.  *)
Unreadable     == [kind |-> "unreadable", text |-> <<"garbage">>, extra |-> FALSE]
File(text)     == [kind |-> "text", text |-> text, extra |-> FALSE]
FileMore(text) == [kind |-> "text", text |-> text, extra |-> TRUE]

LoadErrors(file) ==
    IF file.kind = "unreadable" THEN {"exception"}
    ELSE ErrorsIn[file.text] ?? IF file.extra THEN {"INVALID_JSON"} ELSE {}

load_strict_json_file(file) == ValueOf[file.text]

(* A value says everything that a text says: every member of every object, *)
(* at every depth, with its value, and nothing else.                       *)
Told[text \in Texts] ==
    {value \in Parsed :
        \/ text[1] = "atom" /\ value = text[2]
        \/ /\ text[1] = "array" /\ IsList(value)
           /\ DOMAIN Items(value) = DOMAIN text[2]
           /\ \A i \in DOMAIN text[2] : Items(value)[i] \in Told[text[2][i]]
        \/ /\ text[1] = "object" /\ IsObj(value)
           /\ DOMAIN Members(value) =
                  {PairsOf(text)[i][1] : i \in DOMAIN PairsOf(text)}
           /\ \A i \in DOMAIN PairsOf(text) :
                 Members(value)[PairsOf(text)[i][1]] \in Told[PairsOf(text)[i][2]]}

Tells(value, text) == value \in Told[text]
=============================================================================
