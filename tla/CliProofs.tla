----------------------------- MODULE CliProofs -----------------------------
(***************************************************************************)
(* The command line: what the loader makes of every text, and what the     *)
(* process prints for every combination of files.                          *)
(***************************************************************************)
EXTENDS Cli, VerifierProofs

(* The recursive definitions of StrictJson, as operators of the function   *)
(* that they define and its argument.                                      *)
ErrorsBody(f, text) ==
    LET parts   == Parts(text)
        reached == {i \in DOMAIN parts : \A j \in 1..i - 1 : f[parts[j]] = {}}
        within  == UNION {f[parts[i]] : i \in reached}
    IN  IF text[1] = "garbage" THEN {"INVALID_JSON"}
        ELSE within ?? IF text[1] = "object" /\ Repeats(PairsOf(text))
                       THEN {"DUPLICATE_FIELD"} ELSE {}

ValueBody(f, text) ==
    CASE text[1] = "array"  ->
           List([i \in DOMAIN text[2] |-> f[text[2][i]]])
      [] text[1] = "object" ->
           LET pairs    == {PairsOf(text)[i] : i \in DOMAIN PairsOf(text)}
               named(n) == {f[p[2]] : p \in {q \in pairs : q[1] = n}}
           IN  Obj([n \in {p[1] : p \in pairs} |->
                       CHOOSE value \in named(n) : TRUE])
      [] OTHER -> text[2]

ToldBody(f, text) ==
    {value \in Parsed :
        \/ text[1] = "atom" /\ value = text[2]
        \/ /\ text[1] = "array" /\ IsList(value)
           /\ DOMAIN Items(value) = DOMAIN text[2]
           /\ \A i \in DOMAIN text[2] : Items(value)[i] \in f[text[2][i]]
        \/ /\ text[1] = "object" /\ IsObj(value)
           /\ DOMAIN Members(value) =
                  {PairsOf(text)[i][1] : i \in DOMAIN PairsOf(text)}
           /\ \A i \in DOMAIN PairsOf(text) :
                 Members(value)[PairsOf(text)[i][1]] \in f[PairsOf(text)[i][2]]}

Errors == INSTANCE Recursion WITH D <- Texts, Rank <- Depth, Body <- ErrorsBody
Value  == INSTANCE Recursion WITH D <- Texts, Rank <- Depth, Body <- ValueBody
Telling == INSTANCE Recursion WITH D <- Texts, Rank <- Depth, Body <- ToldBody

(* The parts of a text are texts of a smaller depth.                       *)
LEMMA PartsAreTexts ==
    ASSUME NEW text \in Texts
    PROVE  /\ DOMAIN Parts(text) = 1..Len(Parts(text)) /\ Len(Parts(text)) \in Nat
           /\ \A i \in DOMAIN Parts(text) :
                 Parts(text)[i] \in Texts /\ Depth[Parts(text)[i]] < Depth[text]
BY NestingAssumption

(* The same for the items of an array and the values of an object's pairs. *)
LEMMA ItemsAndPairs ==
    ASSUME NEW text \in Texts
    PROVE  /\ text[1] = "array" =>
                \A i \in DOMAIN text[2] :
                    text[2][i] \in Texts /\ Depth[text[2][i]] < Depth[text]
           /\ text[1] = "object" =>
                /\ DOMAIN PairsOf(text) = DOMAIN Parts(text)
                /\ \A i \in DOMAIN PairsOf(text) :
                      /\ Parts(text)[i] = PairsOf(text)[i][2]
                      /\ PairsOf(text)[i][2] \in Texts
                      /\ Depth[PairsOf(text)[i][2]] < Depth[text]
<1>1. text[1] = "array" => Parts(text) = text[2]
  BY DEF Parts
<1>2. text[1] = "object" =>
        Parts(text) = [i \in DOMAIN PairsOf(text) |-> PairsOf(text)[i][2]]
  BY DEF Parts
<1>. QED  BY <1>1, <1>2, PartsAreTexts

(* The first error of a text is what the definition says.                  *)
LEMMA ErrorsEquation ==
    ASSUME NEW text \in Texts
    PROVE  ErrorsIn[text] = ErrorsBody(ErrorsIn, text)
<1>1. Errors!Local
  <2>. SUFFICES ASSUME NEW f, NEW g, NEW t \in Texts,
                       \A y \in Texts : Depth[y] < Depth[t] => f[y] = g[y]
                PROVE  ErrorsBody(f, t) = ErrorsBody(g, t)
    BY DEF Errors!Local
  <2>1. \A i \in DOMAIN Parts(t) : f[Parts(t)[i]] = g[Parts(t)[i]]
    BY PartsAreTexts
  <2>2. {i \in DOMAIN Parts(t) : \A j \in 1..i - 1 : f[Parts(t)[j]] = {}}
          = {i \in DOMAIN Parts(t) : \A j \in 1..i - 1 : g[Parts(t)[j]] = {}}
    <3>1. \A i \in DOMAIN Parts(t) : 1..i - 1 \subseteq DOMAIN Parts(t)
      BY PartsAreTexts
    <3>. QED  BY <2>1, <3>1
  <2> DEFINE reached(h) == {i \in DOMAIN Parts(t) :
                              \A j \in 1..i - 1 : h[Parts(t)[j]] = {}}
  <2>3. UNION {f[Parts(t)[i]] : i \in reached(f)}
          = UNION {g[Parts(t)[i]] : i \in reached(g)}
    <3>1. \A i \in reached(f) : f[Parts(t)[i]] = g[Parts(t)[i]]
      BY <2>1
    <3>2. reached(f) = reached(g)
      BY <2>2
    <3> HIDE DEF reached
    <3>. QED  BY <3>1, <3>2
  <2>. QED  BY <2>3 DEF ErrorsBody
<1>2. Depth \in [Texts -> Nat]
  BY NestingAssumption
<1>3. \E f : f = [t \in Texts |-> ErrorsBody(f, t)]
  BY <1>1, <1>2, Errors!Recursion
<1>4. ErrorsIn = CHOOSE f : f = [t \in Texts |-> ErrorsBody(f, t)]
  BY Zenon DEF ErrorsIn, ErrorsBody
<1>5. ErrorsIn = [t \in Texts |-> ErrorsBody(ErrorsIn, t)]
  BY <1>3, <1>4, Zenon
<1>. QED  BY <1>5

(* So is the value of a text.                                              *)
LEMMA ValueEquation ==
    ASSUME NEW text \in Texts
    PROVE  ValueOf[text] = ValueBody(ValueOf, text)
<1>1. Value!Local
  <2>. SUFFICES ASSUME NEW f, NEW g, NEW t \in Texts,
                       \A y \in Texts : Depth[y] < Depth[t] => f[y] = g[y]
                PROVE  ValueBody(f, t) = ValueBody(g, t)
    BY DEF Value!Local
  <2>1. CASE t[1] = "array"
    <3>1. \A i \in DOMAIN t[2] : f[t[2][i]] = g[t[2][i]]
      BY <2>1, ItemsAndPairs
    <3>2. [i \in DOMAIN t[2] |-> f[t[2][i]]] = [i \in DOMAIN t[2] |-> g[t[2][i]]]
      BY <3>1
    <3>. QED  BY <2>1, <3>2 DEF ValueBody
  <2>2. CASE t[1] = "object"
    <3> DEFINE pairs == {PairsOf(t)[i] : i \in DOMAIN PairsOf(t)}
               named(h, n) == {h[p[2]] : p \in {q \in pairs : q[1] = n}}
    <3>1. \A p \in pairs : f[p[2]] = g[p[2]]
      BY <2>2, ItemsAndPairs
    <3>2. \A n : named(f, n) = named(g, n)
      BY <3>1
    <3>3. [n \in {p[1] : p \in pairs} |-> CHOOSE value \in named(f, n) : TRUE]
            = [n \in {p[1] : p \in pairs} |-> CHOOSE value \in named(g, n) : TRUE]
      <4> HIDE DEF named, pairs
      <4>. QED  BY <3>2
    <3>4. \A h : ValueBody(h, t) =
              Obj([n \in {p[1] : p \in pairs} |-> CHOOSE value \in named(h, n) : TRUE])
      BY <2>2 DEF ValueBody
    <3>. QED  BY <3>3, <3>4
  <2>3. CASE t[1] \notin {"array", "object"}
    BY <2>3 DEF ValueBody
  <2>. QED  BY <2>1, <2>2, <2>3
<1>2. \E f : f = [t \in Texts |-> ValueBody(f, t)]
  BY <1>1, NestingAssumption, Value!Recursion
<1>3. ValueOf = CHOOSE f : f = [t \in Texts |-> ValueBody(f, t)]
  BY Zenon DEF ValueOf, ValueBody
<1>4. ValueOf = [t \in Texts |-> ValueBody(ValueOf, t)]
  BY <1>2, <1>3, Zenon
<1>. QED  BY <1>4

(* And the values that tell a text.                                        *)
LEMMA ToldEquation ==
    ASSUME NEW text \in Texts
    PROVE  Told[text] = ToldBody(Told, text)
<1>1. Telling!Local
  <2>. SUFFICES ASSUME NEW f, NEW g, NEW t \in Texts,
                       \A y \in Texts : Depth[y] < Depth[t] => f[y] = g[y]
                PROVE  ToldBody(f, t) = ToldBody(g, t)
    BY DEF Telling!Local
  <2>1. CASE t[1] = "array"
    <3>1. \A i \in DOMAIN t[2] : f[t[2][i]] = g[t[2][i]]
      BY <2>1, ItemsAndPairs
    <3>. QED  BY <2>1, <3>1 DEF ToldBody
  <2>2. CASE t[1] = "object"
    <3>1. \A i \in DOMAIN PairsOf(t) : f[PairsOf(t)[i][2]] = g[PairsOf(t)[i][2]]
      BY <2>2, ItemsAndPairs
    <3>. QED  BY <2>2, <3>1 DEF ToldBody
  <2>3. CASE t[1] \in {"atom", "garbage"}
    BY <2>3 DEF ToldBody
  <2>. QED  BY <2>1, <2>2, <2>3, NestingAssumption
<1>2. \E f : f = [t \in Texts |-> ToldBody(f, t)]
  BY <1>1, NestingAssumption, Telling!Recursion
<1>3. Told = CHOOSE f : f = [t \in Texts |-> ToldBody(f, t)]
  BY Zenon DEF Told, ToldBody
<1>4. Told = [t \in Texts |-> ToldBody(Told, t)]
  BY <1>2, <1>3, Zenon
<1>. QED  BY <1>4

-----------------------------------------------------------------------------
(* A text reports a syntax error or a repeated name, and nothing else.     *)
LEMMA TextErrors ==
    ASSUME NEW text \in Texts
    PROVE  ErrorsIn[text] \subseteq {"INVALID_JSON", "DUPLICATE_FIELD"}
<1> DEFINE codes == {"INVALID_JSON", "DUPLICATE_FIELD"}
           S == {t \in Texts : ErrorsIn[t] \subseteq codes}
<1>1. ASSUME NEW t \in Texts, \A y \in Texts : Depth[y] < Depth[t] => y \in S
      PROVE  t \in S
  <2>1. \A i \in DOMAIN Parts(t) : ErrorsIn[Parts(t)[i]] \subseteq codes
    BY <1>1, PartsAreTexts
  <2> DEFINE parts   == Parts(t)
             reached == {i \in DOMAIN parts : \A j \in 1..i - 1 : ErrorsIn[parts[j]] = {}}
             within  == UNION {ErrorsIn[parts[i]] : i \in reached}
  <2>2. within \subseteq codes
    BY <2>1
  <2>3. \/ ErrorsIn[t] = {"INVALID_JSON"}
        \/ ErrorsIn[t] = within \/ ErrorsIn[t] = {} \/ ErrorsIn[t] = {"DUPLICATE_FIELD"}
    BY ErrorsEquation DEF ErrorsBody, ??
  <2>. QED  BY <2>2, <2>3
<1>. HIDE DEF S
<1>2. Texts \subseteq S
  BY <1>1, NestingAssumption, Errors!Induction
<1>. QED  BY <1>2 DEF S

(* In a text without errors no part has one and no name is repeated.       *)
LEMMA NoErrors ==
    ASSUME NEW text \in Texts, ErrorsIn[text] = {}
    PROVE  /\ text[1] # "garbage"
           /\ \A i \in DOMAIN Parts(text) : ErrorsIn[Parts(text)[i]] = {}
           /\ text[1] = "object" => ~Repeats(PairsOf(text))
<1> DEFINE parts   == Parts(text)
           reached == {i \in DOMAIN parts : \A j \in 1..i - 1 : ErrorsIn[parts[j]] = {}}
           within  == UNION {ErrorsIn[parts[i]] : i \in reached}
<1>1. text[1] # "garbage"
  BY ErrorsEquation DEF ErrorsBody
<1>2. within = {}
  BY <1>1, ErrorsEquation DEF ErrorsBody, ??
<1>3. text[1] = "object" => ~Repeats(PairsOf(text))
  BY <1>1, <1>2, ErrorsEquation DEF ErrorsBody, ??
<1>4. \A i \in DOMAIN parts : ErrorsIn[parts[i]] = {}
  <2> DEFINE bad == {i \in DOMAIN parts : ErrorsIn[parts[i]] # {}}
  <2>1. SUFFICES ASSUME bad # {} PROVE FALSE
    OBVIOUS
  <2>2. DOMAIN parts = 1..Len(parts) /\ Len(parts) \in Nat
    BY PartsAreTexts
  <2>3. PICK m \in bad : \A i \in bad : m <= i
    <3>1. bad \subseteq Nat
      BY <2>2
    <3>. HIDE DEF bad
    <3>. QED  BY <2>1, <3>1, LeastNat
  <2>4. m \in reached
    BY <2>2, <2>3
  <2>. QED  BY <1>2, <2>3, <2>4
<1>. QED  BY <1>1, <1>3, <1>4

(* What the loader makes of a text without errors tells all the text says. *)
LEMMA ValueTells ==
    ASSUME NEW text \in Texts, ErrorsIn[text] = {}
    PROVE  Tells(ValueOf[text], text)
<1> DEFINE S == {t \in Texts : ErrorsIn[t] = {} => ValueOf[t] \in Told[t]}
<1>1. ASSUME NEW t \in Texts, ErrorsIn[t] = {},
             \A y \in Texts : Depth[y] < Depth[t] => y \in S
      PROVE  ValueOf[t] \in Told[t]
  <2> DEFINE value == ValueOf[t]
  <2>1. value \in Parsed
    BY <1>1 DEF Parsed
  <2>2. \A i \in DOMAIN Parts(t) : ValueOf[Parts(t)[i]] \in Told[Parts(t)[i]]
    BY <1>1, NoErrors, PartsAreTexts
  <2>3. CASE t[1] = "atom"
    <3>1. value = t[2]
      BY <2>3, ValueEquation DEF ValueBody
    <3>. QED  BY <2>1, <2>3, <3>1, ToldEquation DEF ToldBody
  <2>4. CASE t[1] = "array"
    <3>1. value = List([i \in DOMAIN t[2] |-> ValueOf[t[2][i]]])
      BY <2>4, ValueEquation DEF ValueBody
    <3>2. IsList(value) /\ Items(value) = [i \in DOMAIN t[2] |-> ValueOf[t[2][i]]]
      BY <3>1 DEF IsList, Items, List
    <3>3. Parts(t) = t[2]
      BY <2>4 DEF Parts
    <3>4. \A i \in DOMAIN t[2] : Items(value)[i] \in Told[t[2][i]]
      BY <2>2, <3>2, <3>3
    <3>5. DOMAIN Items(value) = DOMAIN t[2]
      BY <3>2
    <3> HIDE DEF value
    <3>6. value \in ToldBody(Told, t)
      BY <2>1, <2>4, <3>2, <3>4, <3>5 DEF ToldBody
    <3>. QED  BY <3>6, ToldEquation DEF value
  <2>5. CASE t[1] = "object"
    <3> DEFINE pairs == {PairsOf(t)[i] : i \in DOMAIN PairsOf(t)}
               named(n) == {ValueOf[p[2]] : p \in {q \in pairs : q[1] = n}}
               members == [n \in {p[1] : p \in pairs} |-> CHOOSE v \in named(n) : TRUE]
    <3>1. value = Obj(members)
      BY <2>5, ValueEquation DEF ValueBody
    <3>2. IsObj(value) /\ Members(value) = members
      BY <3>1 DEF IsObj, Members, Obj
    <3>3. DOMAIN members = {PairsOf(t)[i][1] : i \in DOMAIN PairsOf(t)}
      OBVIOUS
    <3>4. ASSUME NEW i \in DOMAIN PairsOf(t)
          PROVE  members[PairsOf(t)[i][1]] \in Told[PairsOf(t)[i][2]]
      <4> DEFINE n == PairsOf(t)[i][1]
      <4>1. \A j \in DOMAIN PairsOf(t) : PairsOf(t)[j][1] = n => j = i
        <5>1. DOMAIN PairsOf(t) \subseteq Int
          BY <2>5, ItemsAndPairs, PartsAreTexts
        <5>2. ~Repeats(PairsOf(t))
          BY <1>1, <2>5, NoErrors
        <5>. QED  BY <5>1, <5>2 DEF Repeats
      <4>2. named(n) = {ValueOf[PairsOf(t)[i][2]]}
        BY <4>1
      <4>3. members[n] = ValueOf[PairsOf(t)[i][2]]
        <5>1. members[n] = CHOOSE v \in named(n) : TRUE
          OBVIOUS
        <5> HIDE DEF members, named
        <5>. QED  BY <4>2, <5>1
      <4>4. ValueOf[PairsOf(t)[i][2]] \in Told[PairsOf(t)[i][2]]
        BY <2>2, <2>5, ItemsAndPairs
      <4>. QED  BY <4>3, <4>4
    <3> HIDE DEF members, value
    <3>5. value \in ToldBody(Told, t)
      BY <2>1, <2>5, <3>2, <3>3, <3>4 DEF ToldBody
    <3>. QED  BY <3>5, ToldEquation DEF value
  <2>6. t[1] \in {"atom", "array", "object"}
    BY <1>1, NoErrors, NestingAssumption
  <2>. QED  BY <2>3, <2>4, <2>5, <2>6
<1>2. \A t \in Texts : (\A y \in Texts : Depth[y] < Depth[t] => y \in S) => t \in S
  BY <1>1
<1>. HIDE DEF S
<1>3. Texts \subseteq S
  BY <1>2, NestingAssumption, Value!Induction
<1>. QED  BY <1>3 DEF S, Tells

-----------------------------------------------------------------------------
(* What is in a document that is an array: the values of sound texts.      *)
LEMMA LoadedItems ==
    ASSUME NEW text \in Texts, ErrorsIn[text] = {}, IsList(ValueOf[text])
    PROVE  LET items == Items(ValueOf[text])
           IN  /\ items \in Seq({items[i] : i \in DOMAIN items})
               /\ \A i \in DOMAIN items : SeqDenotes(items[i])
<1> DEFINE items == Items(ValueOf[text])
<1>1. text[1] = "array"
  <2>1. CASE text[1] = "atom"
    <3>1. ValueOf[text] = text[2]
      BY <2>1, ValueEquation DEF ValueBody
    <3>. QED  BY <2>1, <3>1, NestingAssumption
  <2>2. CASE text[1] = "object"
    <3>1. \E members : ValueOf[text] = Obj(members)
      BY <2>2, ValueEquation DEF ValueBody
    <3>. QED  BY <3>1 DEF Obj, IsList
  <2>. QED  BY <2>1, <2>2, NoErrors, NestingAssumption
<1>2. Parts(text) = text[2]
  BY <1>1 DEF Parts
<1>3. items = [i \in DOMAIN text[2] |-> ValueOf[text[2][i]]]
  <2>1. ValueOf[text] = List([i \in DOMAIN text[2] |-> ValueOf[text[2][i]]])
    BY <1>1, ValueEquation DEF ValueBody
  <2>. QED  BY <2>1 DEF List, Items
<1>4. PICK n \in Nat : DOMAIN text[2] = 1..n
  BY <1>2, PartsAreTexts
<1>5. items \in [1..n -> {items[i] : i \in DOMAIN items}]
  BY <1>3, <1>4
<1>6. items \in Seq({items[i] : i \in DOMAIN items})
  <2> HIDE DEF items
  <2>. QED  BY <1>5
<1>7. \A i \in DOMAIN items : items[i] \in Parsed
  <2>1. \A i \in DOMAIN text[2] : text[2][i] \in Texts /\ ErrorsIn[text[2][i]] = {}
    BY <1>2, NoErrors, PartsAreTexts
  <2>. QED  BY <1>3, <2>1 DEF Parsed
<1>. QED  BY <1>6, <1>7, LoadedAssumption

(* A file that is given fails to load in one way, or it has a sound text   *)
(* and its document tells that text.                                       *)
LEMMA Loading ==
    ASSUME NEW file \in AllFiles
    PROVE  /\ Faults[file] = LoadErrors(file)
           /\ Faults[file] = {"exception"} <=> file.kind = "unreadable"
           /\ Faults[file] = {} =>
                /\ file.text \in Texts /\ ErrorsIn[file.text] = {}
                /\ Documents[file] = ValueOf[file.text]
                /\ Tells(Documents[file], file.text)
<1>1. Faults[file] = LoadErrors(file)
  BY DEF Faults
<1>2. CASE file.kind = "unreadable"
  <2>1. Faults[file] = {"exception"}
    BY <1>1, <1>2 DEF LoadErrors
  <2>. QED  BY <1>1, <1>2, <2>1
<1>3. CASE file.kind = "text" /\ file.text \in Texts
  <2>1. Faults[file] \subseteq {"INVALID_JSON", "DUPLICATE_FIELD"}
    BY <1>1, <1>3, TextErrors DEF LoadErrors, ??
  <2>2. Faults[file] = {} => ErrorsIn[file.text] = {}
    BY <1>1, <1>3 DEF LoadErrors, ??
  <2>3. Faults[file] = {} => Documents[file] = ValueOf[file.text]
    BY DEF Documents, load_strict_json_file
  <2>4. Faults[file] = {} => Tells(Documents[file], file.text)
    BY <1>3, <2>2, <2>3, ValueTells
  <2>. QED  BY <1>1, <1>3, <2>1, <2>2, <2>3, <2>4
<1>. QED  BY <1>2, <1>3, FilesAssumption

-----------------------------------------------------------------------------
(* The process: before the call of verify() nothing is verified and what   *)
(* is loaded is what the files hold; at the call and after it verify() has *)
(* been given exactly that; an exit follows from the one or from a file    *)
(* that does not load after others that do.                                *)
LoadingStages == {"arguments", "receipts", "keys", "anchor"}

CliTypes ==
    /\ files \in [receipts : ReceiptsFiles, keys : KeysFiles, anchor : AnchorFiles]
    /\ stage \in LoadingStages \cup {"verify", "exited"}

NothingYet ==
    stage \in LoadingStages => Fresh /\ status = -1

LoadedSoFar ==
    /\ stage \in {"arguments", "receipts"} => loaded = <<>>
    /\ stage = "keys" =>
          /\ ~Bad("receipts") /\ loaded = <<Documents[files.receipts]>>
    /\ stage = "anchor" =>
          /\ ~Bad("receipts") /\ ~Bad("keys")
          /\ loaded = <<Documents[files.receipts], Documents[files.keys]>>

Called ==
    /\ ~Bad("receipts") /\ ~Bad("keys") /\ ~Bad("anchor")
    /\ loaded = <<Documents[files.receipts], Documents[files.keys]>>
    /\ "anchor" \in Given => anchor = Documents[files.anchor]
    /\ receipts = IF IsList(loaded[1]) THEN Items(loaded[1]) ELSE <<>>
    /\ keys = IF IsObj(loaded[2]) THEN Members(loaded[2]) ELSE <<>>
    /\ arguments = "well typed" <=> IsList(loaded[1]) /\ IsObj(loaded[2])
    /\ VerifierInv

Returned ==
    /\ Called /\ pc = "done" /\ status = 0
    /\ printed = <<Result(ri, anchor_validity, completeness, errors)>>

Raised == Called /\ status = 1

RefusedFile(bad) ==
    /\ bad \in Given /\ Bad(bad)
    /\ \A name \in Given : Order[name] < Order[bad] => ~Bad(name)
    /\ status = 1 /\ pos = 1 /\ errors = {}
    /\ printed = IF Faults[files[bad]] = {"exception"} THEN <<>>
                 ELSE <<ParseErrorResult(Faults[files[bad]], LayerOf(bad))>>

CliInv ==
    /\ CliTypes /\ NothingYet /\ LoadedSoFar
    /\ stage = "verify" => Called /\ status = -1
    /\ stage = "exited" /\ command = "verify" =>
          Returned \/ Raised \/ \E bad \in Given : RefusedFile(bad)

(* The files that are given are among those whose loading is described.    *)
LEMMA GivenFiles ==
    ASSUME CliTypes
    PROVE  /\ DOMAIN files = {"receipts", "keys", "anchor"}
           /\ "receipts" \in Given /\ "keys" \in Given
           /\ \A name \in Given : files[name] \in AllFiles
<1>1. DOMAIN files = {"receipts", "keys", "anchor"}
  BY DEF CliTypes
<1>2. /\ files["receipts"] \in ReceiptsFiles /\ files["keys"] \in KeysFiles
      /\ files["anchor"] \in AnchorFiles
  BY DEF CliTypes
<1>3. NoFile \notin AllFiles
  <2>1. NoFile.kind = "none"
    BY DEF NoFile
  <2>. QED  BY <2>1, FilesAssumption
<1>. QED  BY <1>1, <1>2, <1>3 DEF Given, AllFiles

(* Before the call, the process begins so.                                 *)
LEMMA CliStarts == CliInit => CliInv
<1>. SUFFICES ASSUME CliInit PROVE CliInv
  OBVIOUS
<1>1. CliTypes
  BY DEF CliInit, CliTypes, LoadingStages
<1>2. Fresh
  BY DEF CliInit, Init, Layer1Init, Fresh
<1>. QED  BY <1>1, <1>2 DEF CliInit, CliInv, NothingYet, LoadedSoFar

(* A file that does not load, after others that did, ends the process.     *)
LEMMA FailStops ==
    ASSUME CliInv, NEW name \in {"receipts", "keys", "anchor"}, FailToLoad(name)
    PROVE  CliInv'
<1>1. /\ stage = name /\ Bad(name) /\ stage' = "exited"
      /\ UNCHANGED <<vars, command, files, loaded>>
  BY DEF FailToLoad, Exit
<1>2. Fresh
  BY <1>1 DEF CliInv, NothingYet, LoadingStages
<1>3. /\ name \in Given
      /\ \A other \in Given : Order[other] < Order[name] => ~Bad(other)
  <2>1. Given \subseteq {"receipts", "keys", "anchor"}
    BY GivenFiles DEF CliInv, Given
  <2>2. /\ Order["receipts"] = 1 /\ Order["keys"] = 2 /\ Order["anchor"] = 3
    BY DEF Order
  <2>. QED  BY <1>1, <2>1, <2>2 DEF Bad, CliInv, LoadedSoFar
<1>4. RefusedFile(name)'
  <2>1. /\ status' = 1
        /\ printed' = IF Faults[files[name]] = {"exception"} THEN <<>>
                      ELSE <<ParseErrorResult(Faults[files[name]], LayerOf(name))>>
    BY DEF FailToLoad, Exit
  <2>2. pos' = 1 /\ errors' = {}
    BY <1>1, <1>2 DEF Fresh, vars, l1vars
  <2>. QED  BY <1>1, <1>3, <2>1, <2>2 DEF RefusedFile, Given, Bad
<1>5. CliTypes' /\ NothingYet' /\ LoadedSoFar'
  BY <1>1 DEF CliInv, CliTypes, NothingYet, LoadedSoFar, LoadingStages
<1>. QED  BY <1>1, <1>3, <1>4, <1>5 DEF CliInv, Given

(* verify() is called with what the files hold.                            *)
LEMMA CallIsFaithful ==
    ASSUME CliInv, NEW proof, stage = "anchor", Call(proof), ~Bad("anchor"),
           "anchor" \in Given => proof = Documents[files.anchor]
    PROVE  CliInv'
<1>1. /\ stage' = "verify" /\ anchor' = proof /\ loaded' = loaded
      /\ UNCHANGED <<pc, pos, recorded, ri, errors, anchor_validity,
                     completeness, command, files, printed, status>>
  BY DEF Call
<1>2. /\ ~Bad("receipts") /\ ~Bad("keys")
      /\ loaded = <<Documents[files.receipts], Documents[files.keys]>>
  BY DEF CliInv, LoadedSoFar
<1>3. /\ receipts' = IF IsList(loaded[1]) THEN Items(loaded[1]) ELSE <<>>
      /\ keys' = IF IsObj(loaded[2]) THEN Members(loaded[2]) ELSE <<>>
      /\ arguments' = IF ~IsList(loaded[1]) THEN "receipts not an array"
                      ELSE IF ~IsObj(loaded[2]) THEN "keys not an object"
                      ELSE "well typed"
  BY DEF Call
<1>4. Fresh' /\ status' = -1
  BY <1>1 DEF CliInv, NothingYet, LoadingStages, Fresh
<1>5. InputOK'
  <2>1. CASE IsList(loaded[1])
    <3> DEFINE file == files.receipts
    <3>1. file \in AllFiles /\ Faults[file] = {}
      BY <1>2, GivenFiles DEF CliInv, Bad
    <3>2. /\ file.text \in Texts /\ ErrorsIn[file.text] = {}
          /\ loaded[1] = ValueOf[file.text]
      BY <1>2, <3>1, Loading
    <3>3. receipts' = Items(ValueOf[file.text])
      BY <1>3, <2>1, <3>2
    <3>. QED  BY <2>1, <3>2, <3>3, LoadedItems DEF InputOK
  <2>2. CASE ~IsList(loaded[1])
    <3>1. receipts' = <<>>
      BY <1>3, <2>2
    <3>. QED  BY <3>1 DEF InputOK
  <2>. QED  BY <2>1, <2>2
<1>6. (arguments \in Arguments)'
  BY <1>3 DEF Arguments
<1>7. VerifierInv'
  BY <1>4, <1>5, <1>6, NextCall
<1>8. Called'
  BY <1>1, <1>2, <1>3, <1>7 DEF Called, Bad, Given
<1>. QED  BY <1>1, <1>4, <1>8
          DEF CliInv, CliTypes, NothingYet, LoadedSoFar, LoadingStages

(* While verify() runs, what it was given stays what the files hold.       *)
LEMMA CalledLasts ==
    ASSUME Called, [Next]_vars, UNCHANGED <<files, loaded>>
    PROVE  Called'
<1>1. CallOK /\ PhaseInv
  BY DEF Called, VerifierInv
<1>2. UNCHANGED <<receipts, keys, arguments, anchor>>
  BY <1>1, ArgumentsKept DEF inputs
<1>3. VerifierInv'
  BY VerifierInvStep DEF Called
<1>. QED  BY <1>2, <1>3 DEF Called, Bad, Given

(* Every step of the process keeps the invariant.                          *)
LEMMA CliStep == CliInv /\ [CliNext]_allvars => CliInv'
<1>. SUFFICES ASSUME CliInv, [CliNext]_allvars PROVE CliInv'
  OBVIOUS
<1>0. Given \subseteq {"receipts", "keys", "anchor"}
  BY GivenFiles DEF CliInv, Given
<1>1. CASE ParseArguments
  <2>1. Fresh'
    BY <1>1 DEF ParseArguments, CliInv, NothingYet, LoadingStages, Fresh, vars,
                l1vars
  <2>2. loaded = <<>>
    BY <1>1 DEF ParseArguments, CliInv, LoadedSoFar
  <2>. QED  BY <1>1, <2>1, <2>2 DEF ParseArguments, CliInv, CliTypes,
                                    NothingYet, LoadedSoFar, LoadingStages
<1>2. CASE ShowHelp
  BY <1>2 DEF ShowHelp, Exit, CliInv, CliTypes, NothingYet, LoadedSoFar,
              LoadingStages
<1>3. CASE LoadRequired("receipts", "keys")
  <2>1. Fresh' /\ status' = -1
    BY <1>3 DEF LoadRequired, CliInv, NothingYet, LoadingStages, Fresh, vars, l1vars
  <2>2. ~Bad("receipts")' /\ loaded' = <<Documents[files.receipts]>>
    BY <1>3 DEF LoadRequired, CliInv, LoadedSoFar, Bad, Given
  <2>. QED  BY <1>3, <2>1, <2>2 DEF LoadRequired, CliInv, CliTypes, NothingYet,
                                    LoadedSoFar, LoadingStages
<1>4. CASE LoadRequired("keys", "anchor")
  <2>1. Fresh' /\ status' = -1
    BY <1>4 DEF LoadRequired, CliInv, NothingYet, LoadingStages, Fresh, vars, l1vars
  <2>2. ~Bad("receipts")' /\ ~Bad("keys")'
    BY <1>4 DEF LoadRequired, CliInv, LoadedSoFar, Bad, Given
  <2>3. loaded' = <<Documents[files.receipts], Documents[files.keys]>>
    <3>1. ASSUME NEW a, NEW b PROVE Append(<<a>>, b) = <<a, b>>
      <4>1. <<a>> \in Seq({a, b}) /\ Len(<<a>>) = 1
        OBVIOUS
      <4>2. /\ Append(<<a>>, b) \in Seq({a, b})
            /\ Len(Append(<<a>>, b)) = 2
            /\ Append(<<a>>, b)[1] = a /\ Append(<<a>>, b)[2] = b
        BY <4>1
      <4> DEFINE s == Append(<<a>>, b)
      <4>3. s = [i \in 1..2 |-> s[i]]
        BY <4>2
      <4>4. \A i \in 1..2 : s[i] = <<a, b>>[i]
        <5>1. \A i \in 1..2 : i = 1 \/ i = 2
          OBVIOUS
        <5>. QED  BY <4>2, <5>1
      <4> HIDE DEF s
      <4>5. <<a, b>> = [i \in 1..2 |-> <<a, b>>[i]]
        OBVIOUS
      <4>6. s = <<a, b>>
        BY <4>3, <4>4, <4>5
      <4>. QED  BY <4>6 DEF s
    <3>2. /\ loaded = <<Documents[files.receipts]>>
          /\ loaded' = Append(loaded, Documents[files.keys])
      BY <1>4 DEF LoadRequired, CliInv, LoadedSoFar
    <3>. QED  BY <3>1, <3>2
  <2>. QED  BY <1>4, <2>1, <2>2, <2>3 DEF LoadRequired, CliInv, CliTypes, NothingYet,
                                    LoadedSoFar, LoadingStages
<1>5. CASE \E name \in {"receipts", "keys", "anchor"} : FailToLoad(name)
  BY <1>5, FailStops
<1>6. CASE CallWithoutAnchor
  BY <1>6, CallIsFaithful DEF CallWithoutAnchor, Bad
<1>7. CASE CallWithAnchor
  BY <1>7, CallIsFaithful DEF CallWithAnchor
<1>8. CASE stage = "verify" /\ Next /\ UNCHANGED cli
  <2>1. Called' /\ status' = -1 /\ stage' = "verify"
    BY <1>8, CalledLasts DEF CliInv, cli
  <2>. QED  BY <1>8, <2>1 DEF cli, CliInv, CliTypes, NothingYet, LoadedSoFar,
                              LoadingStages
<1>9. CASE PrintResult \/ Traceback
  <2>1. /\ stage = "verify" /\ stage' = "exited"
        /\ UNCHANGED <<vars, command, files, loaded>>
    BY <1>9 DEF PrintResult, Traceback, Exit
  <2>2. Called'
    BY <2>1, CalledLasts DEF CliInv
  <2>3. UNCHANGED <<pc, ri, anchor_validity, completeness, errors>>
    BY <2>1 DEF vars, l1vars
  <2>4. Returned' \/ Raised'
    BY <1>9, <2>2, <2>3 DEF PrintResult, Traceback, Exit, Returned, Raised
  <2>. QED  BY <2>1, <2>4 DEF CliInv, CliTypes, NothingYet, LoadedSoFar,
                              LoadingStages
<1>10. CASE UNCHANGED allvars
  <2>1. /\ UNCHANGED <<vars, files, loaded, stage, status, printed, command>>
        /\ UNCHANGED <<pc, pos, recorded, ri, errors, anchor_validity, completeness>>
    BY <1>10 DEF allvars, cli, vars, l1vars
  <2>2. Called => Called'
    BY <2>1, CalledLasts
  <2>3. (Returned => Returned') /\ (Raised => Raised')
    BY <2>1, <2>2 DEF Returned, Raised
  <2>4. \A bad \in Given : RefusedFile(bad) => RefusedFile(bad)'
    BY <2>1 DEF RefusedFile, Given, Bad
  <2>5. CliTypes' /\ NothingYet' /\ LoadedSoFar'
    BY <2>1 DEF CliInv, CliTypes, NothingYet, LoadedSoFar, Fresh, Bad, Given
  <2>6. Given' = Given
    BY <2>1 DEF Given
  <2>. QED  BY <2>1, <2>2, <2>3, <2>4, <2>5, <2>6 DEF CliInv
<1>. QED  BY <1>1, <1>2, <1>3, <1>4, <1>5, <1>6, <1>7, <1>8, <1>9, <1>10
          DEF CliNext

LEMMA CliInvariant == CliSpec => []CliInv
BY CliStarts, CliStep, PTL DEF CliSpec

-----------------------------------------------------------------------------
(* For every set of files: the first file that does not load decides what  *)
(* is printed, for which layer and with which status.                      *)
THEOREM FirstBadFile == CliSpec => []FirstBadFileDecides
<1>1. CliInv => FirstBadFileDecides
  <2>. SUFFICES ASSUME CliInv, stage = "exited", command = "verify",
                       NEW bad \in Given, Bad(bad),
                       \A name \in Given : Order[name] < Order[bad] => ~Bad(name)
                PROVE  /\ status = 1 /\ pos = 1 /\ errors = {}
                       /\ \A i \in DOMAIN printed :
                            /\ {e.code : e \in printed[i].errors} = Faults[files[bad]]
                            /\ printed[i].completeness = "INCONCLUSIVE"
                            /\ printed[i].receipt_integrity = "FAIL" <=> bad # "anchor"
                            /\ printed[i].anchor_validity = "FAIL" <=> bad = "anchor"
                       /\ printed = <<>> <=> files[bad].kind = "unreadable"
    BY DEF FirstBadFileDecides
  <2>1. Given \subseteq {"receipts", "keys", "anchor"}
    BY GivenFiles DEF CliInv, Given
  <2>2. ~Called
    BY <2>1 DEF Called
  <2>3. PICK first \in Given : RefusedFile(first)
    BY <2>2 DEF CliInv, Returned, Raised
  <2>4. first = bad
    <3>1. Order["receipts"] = 1 /\ Order["keys"] = 2 /\ Order["anchor"] = 3
      BY DEF Order
    <3>. QED  BY <2>1, <2>3, <3>1 DEF RefusedFile
  <2> DEFINE codes == Faults[files[bad]]
             layer == LayerOf(bad)
  <2>5. codes = {"exception"} <=> files[bad].kind = "unreadable"
    BY GivenFiles, Loading DEF CliInv
  <2>6. /\ status = 1 /\ pos = 1 /\ errors = {}
        /\ printed = IF codes = {"exception"} THEN <<>>
                     ELSE <<ParseErrorResult(codes, layer)>>
    BY <2>3, <2>4 DEF RefusedFile
  <2>7. /\ {e.code : e \in ParseErrorResult(codes, layer).errors} = codes
        /\ ParseErrorResult(codes, layer).completeness = "INCONCLUSIVE"
    <3> DEFINE err(c) == [code |-> c, layer |-> layer, severity |-> "fatal"]
    <3>1. ParseErrorResult(codes, layer).errors = {err(c) : c \in codes}
      BY DEF ParseErrorResult, Result, Fatal
    <3>2. \A c : err(c).code = c
      OBVIOUS
    <3>3. ParseErrorResult(codes, layer).completeness = "INCONCLUSIVE"
      BY DEF ParseErrorResult, Result
    <3> HIDE DEF err, codes, layer
    <3>. QED  BY <3>1, <3>2, <3>3
  <2>8. /\ ParseErrorResult(codes, layer).receipt_integrity = "FAIL" <=> bad # "anchor"
        /\ ParseErrorResult(codes, layer).anchor_validity = "FAIL" <=> bad = "anchor"
    BY DEF ParseErrorResult, Result, LayerOf
  <2>. QED  BY <2>5, <2>6, <2>7, <2>8
<1>. QED  BY <1>1, CliInvariant, PTL

(* For every set of files: a result that is not a parse error was returned *)
(* by verify(), which was given all that the files say.                    *)
THEOREM ResultsTellFiles == CliSpec => []ResultTellsFiles
<1>1. CliInv => ResultTellsFiles
  <2>. SUFFICES ASSUME CliInv, status = 0, command = "verify"
                PROVE  /\ pc = "done"
                       /\ printed = <<Result(ri, anchor_validity, completeness, errors)>>
                       /\ Tells(loaded[1], files.receipts.text)
                       /\ Tells(loaded[2], files.keys.text)
                       /\ "anchor" \in Given => Tells(anchor, files.anchor.text)
    BY DEF ResultTellsFiles
  <2>1. Returned
    BY DEF CliInv, CliTypes, NothingYet, Raised, RefusedFile
  <2>2. \A name \in Given : files[name] \in AllFiles /\ Faults[files[name]] = {}
    <3>1. Given \subseteq {"receipts", "keys", "anchor"}
      BY GivenFiles DEF CliInv, Given
    <3>. QED  BY <2>1, <3>1, GivenFiles DEF CliInv, Returned, Called, Bad
  <2>3. \A name \in Given : Tells(Documents[files[name]], files[name].text)
    BY <2>2, Loading
  <2>4. "receipts" \in Given /\ "keys" \in Given
    BY GivenFiles DEF CliInv
  <2>. QED  BY <2>1, <2>3, <2>4 DEF Returned, Called
<1>. QED  BY <1>1, CliInvariant, PTL

(* From the files to the output: the printed receipt_integrity is the      *)
(* verdict of ReceiptChain on the receipts and keys the files hold.        *)
THEOREM PrintedVerdict == CliSpec => []PrintedIsVerdict
<1>1. CliInv => PrintedIsVerdict
  <2>. SUFFICES ASSUME CliInv, status = 0, command = "verify"
                PROVE  printed[1].receipt_integrity =
                         IF IsList(loaded[1]) /\ IsObj(loaded[2])
                         THEN Verdict(Items(loaded[1]), Members(loaded[2])) ELSE "FAIL"
    BY DEF PrintedIsVerdict
  <2>1. Returned
    BY DEF CliInv, CliTypes, NothingYet, Raised, RefusedFile
  <2>2. printed[1].receipt_integrity = ri
    BY <2>1 DEF Returned, Result
  <2>3. CASE arguments = "well typed"
    <3>1. ri = Verdict(receipts, keys)
      BY <2>1, <2>3 DEF Returned, Called, VerifierInv, ReturnedVerdict
    <3>. QED  BY <2>1, <2>2, <2>3, <3>1 DEF Returned, Called
  <2>4. CASE arguments # "well typed"
    <3>1. ri = "FAIL"
      BY <2>1, <2>4 DEF Returned, Called, VerifierInv, PhaseInv
    <3>. QED  BY <2>1, <2>2, <2>4, <3>1 DEF Returned, Called
  <2>. QED  BY <2>3, <2>4
<1>. QED  BY <1>1, CliInvariant, PTL
=============================================================================
