------------------------------- MODULE MCCli -------------------------------
(***************************************************************************)
(* A small instance of Cli: files that hold a chain of one or two receipts *)
(* with its key set and anchor proof, and files that are spoilt in one way *)
(* or two.                                                                 *)
(***************************************************************************)
EXTENDS Cli, Issuer

RECURSIVE TextOf(_)
TextOf(value) ==
    CASE IsObj(value)  -> LET names == FoldSet(LAMBDA n, ns : Append(ns, n), <<>>,
                                               DOMAIN Members(value))
                          IN  <<"object", [i \in DOMAIN names |->
                                  <<names[i], TextOf(Members(value)[names[i]])>>]>>
      [] IsList(value) -> <<"array", [i \in DOMAIN Items(value) |->
                                        TextOf(Items(value)[i])]>>
      [] OTHER         -> <<"atom", value>>

Garbage == <<"garbage">>
Array(texts) == <<"array", texts>>
And(object, name, text) == <<"object", Append(object[2], <<name, text>>)>>

(* A repeated name and a syntax error, in either order, at either depth.   *)
Spoilt(object, name) ==
    LET again == And(object, name, <<"atom", Null>>)
    IN  {again, And(object, name, object), And(object, "x", Garbage),
         And(object, "x", again), And(again, "x", Garbage),
         And(And(object, "y", again), "x", Garbage),
         And(And(object, "x", Garbage), "y", again)}

receipt1 == TextOf(build_chain(2, 1)[1])
receipt2 == TextOf(build_chain(2, 1)[2])
body1    == chain_bodies(2, 1)[1]
keys1    == TextOf(Obj(DefaultKeys))
hash1    == receipt_hash(body1)
anchor1  == TextOf(Obj(anchor_proof(1, 1, LeafHash(hash1),
                           <<proof_entry(hash1, Decimal(0), <<>>)>>)))

(* The body of the first receipt says its decision twice.                  *)
TwoDecisions ==
    <<"object", <<<<"body", And(TextOf(Obj(body1)), "decision",
                                <<"atom", Text("deny")>>)>>,
                  <<"sig", TextOf(Members(Signed(body1))["sig"])>>>>>>

MCReceiptsFiles ==
    {Unreadable, FileMore(Array(<<receipt1>>)), File(receipt1),
     File(Array(<<receipt1, receipt2>>)), File(Array(<<receipt2>>)),
     File(Array(<<>>)), File(Array(<<<<"atom", Null>>, receipt1>>)),
     File(Array(<<receipt1, Garbage>>)), File(Array(<<TwoDecisions, Garbage>>)),
     File(Array(<<TextOf(Obj([body |-> List(<<>>), sig |-> Null])), receipt1>>))}
    \cup {File(Array(<<text>>)) : text \in Spoilt(receipt1, "sig")}

MCKeysFiles ==
    {Unreadable, File(keys1), File(Array(<<keys1>>)), FileMore(keys1)}
    \cup {File(text) : text \in Spoilt(keys1, "keys")}

MCAnchorFiles ==
    {NoFile, Unreadable, File(<<"atom", Null>>), File(anchor1),
     File(Array(<<>>)), FileMore(anchor1),
     File(TextOf(Obj([root_alg |-> Text("merkle-sha256-v1"),
                      tenant |-> List(<<>>)])))}
    \cup {File(text) : text \in Spoilt(anchor1, "tx")}

RECURSIVE Nested(_), DepthOf(_)
Nested(text) == {text} \cup UNION {Nested(Parts(text)[i]) : i \in DOMAIN Parts(text)}
DepthOf(text) ==
    1 + Max({0} \cup {DepthOf(Parts(text)[i]) : i \in DOMAIN Parts(text)})

MCTexts == UNION {Nested(file.text) : file \in
                     {f \in MCReceiptsFiles \cup MCKeysFiles \cup MCAnchorFiles :
                         f.kind = "text"}}
MCDepth == [text \in MCTexts |-> DepthOf(text)]

StartingKeySets == {DefaultKeys}
StartingAnchors == {Null}
=============================================================================
