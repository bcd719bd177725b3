-------------------------------- MODULE Json --------------------------------
(***************************************************************************)
(* The parsed JSON values the verifier receives, as far as it tells them   *)
(* apart.  A value is a tuple whose first component is its JSON type; a    *)
(* string carries a second component, the kind of text it holds, because   *)
(* the verifier looks inside strings (decimal numerals, hashes,            *)
(* timestamps, signatures).  An object is a function from the names of its *)
(* members to their values, so its DOMAIN is Python's set(obj.keys()).     *)
(***************************************************************************)
EXTENDS Integers, Sequences

Null         == <<"null">>
Num(n)       == <<"int", n>>           \* an integer
Float        == <<"float">>             \* a number with a fractional part
List(s)      == <<"list", s>>
Obj(members) == <<"obj", members>>

Text(s)      == <<"str", "text", s>>    \* a string compared only as a whole
Empty        == Text("")
Surrogate    == <<"str", "surrogate">>  \* a string with an unpaired surrogate
Decimal(n)   == <<"str", "decimal", n>> \* n's numeral without leading zeros
DecimalNL(n) == <<"str", "decimalNL", n>> \* the same and a final newline
Padded(n)    == <<"str", "padded", n>>  \* a numeral with a leading zero
Time(t)      == <<"str", "time", t>>    \* a timestamp in the v0.1 profile

(* Texts of the form sha256:<64 lowercase hex digits>: the genesis marker, *)
(* the hash of a receipt body, and a digest of something else.             *)
Genesis      == <<"str", "genesis">>
HashOf(body) == <<"str", "sha256", body>>
Digest(s)    == <<"str", "digest", s>>

(* A leaf or an inner node of a Merkle tree: SHA-256 under two different   *)
(* domain prefixes.  Bare texts lack the prefix sha256: and BadHex has it  *)
(* before something that is not hexadecimal.                               *)
UnhashedLeaf(hash)   == hash            \* mutant: receipt hashes are the leaves
LeafHash(hash)       == <<"str", "leaf", hash>>
NodeHash(left, right) == <<"str", "node", left, right>>
Bare(hash)           == <<"str", "bare", hash>>
BadHex               == <<"str", "badhex">>

(* The base64url text of the signature of a body by a private key.         *)
SignatureBy(key, body) == <<"str", "signature", key, body>>

IsStr(v)  == v[1] = "str"
IsList(v) == v[1] = "list"
IsObj(v)  == v[1] = "obj"
IsText(v, kinds) == IsStr(v) /\ v[2] \in kinds

(* dict.get(name): None, which is what JSON null parses to, if absent.     *)
Get(members, name) == IF name \in DOMAIN members THEN members[name] ELSE Null

(* dict.get(name, default)                                                 *)
GetOr(members, name, default) ==
    IF name \in DOMAIN members THEN members[name] ELSE default

Members(v) == v[2]      \* of an object
Items(v)   == v[2]      \* of an array

(* Python truth of a value (neither booleans nor empty objects are among   *)
(* the values modelled where it is asked).                                 *)
Truthy(v) == v \notin {Null, Empty, Num(0), List(<<>>)}

(* A list or a dict cannot be a member of a set or the key of a dict:      *)
(* using one as such raises TypeError.                                     *)
Hashable(v) == ~IsList(v) /\ ~IsObj(v)

(* int(v): the numerals Python accepts, final newline and leading zeros    *)
(* included, and JSON integers.  Everything else raises.                   *)
HasInt(v) == v[1] = "int" \/ IsText(v, {"decimal", "decimalNL", "padded"})
IntOf(v)  == IF v[1] = "int" THEN v[2] ELSE v[3]

(* POSITIVE_DECIMAL_PATTERN.match: `$` also matches before a final newline.*)
IsPositiveDecimal(v) == IsText(v, {"decimal", "decimalNL"}) /\ v[3] > 0

(* HASH_PATTERN.match                                                      *)
HashKinds == {"genesis", "sha256", "digest", "leaf", "node"}
IsHash(v) == IsText(v, HashKinds)

(* bytes.fromhex of a text whose prefix, if it has one, is cut off.        *)
IsHex(v)       == IsText(v, HashKinds \cup {"bare"})
HasPrefix(v)   == IsText(v, HashKinds \cup {"badhex"})
StripPrefix(v) == IF IsText(v, {"bare"}) THEN v[3] ELSE v

(* A handler that returns at its first error reports the first non-empty   *)
(* set of codes.                                                           *)
first ?? second == IF first # {} THEN first ELSE second
=============================================================================
