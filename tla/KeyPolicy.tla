----------------------------- MODULE KeyPolicy -----------------------------
(***************************************************************************)
(* The key rules of SPEC.md:380-429 written as the document states them,   *)
(* to compare with what layer 1 decides: a receipt selects exactly one key *)
(* by tenant, kid and alg; its time must fall into the key's window; then  *)
(* revocation applies.                                                     *)
(***************************************************************************)
EXTENDS ReceiptIntegrity

Entries ==
    LET list == GetOr(keys, "keys", List(<<>>))
    IN  IF IsList(list) THEN Items(list) ELSE <<>>

Selects(e, key) ==
    /\ Get(keys, "tenant") = BodyOf(e)["tenant"]
    /\ Get(key, "kid") = GetOr(SigOf(e), "kid", Empty)
    /\ Get(key, "alg") = GetOr(SigOf(e), "alg", Empty)

KeysOf(e) ==
    {i \in DOMAIN Entries : IsObj(Entries[i]) /\ Selects(e, Members(Entries[i]))}

WellFormedKeySet ==
    /\ IsList(Get(keys, "keys"))
    /\ \A i \in DOMAIN Entries : IsObj(Entries[i])

(* The key metadata of SPEC.md:411-413; bounds of the window are optional. *)
IsTime(v) == IsText(v, {"time"})

WellFormedKey(key) ==
    LET status == GetOr(key, "status", Text("active"))
        rt     == Get(key, "revocation_time")
    IN  /\ \A f \in {"not_before", "not_after"} :
              Truthy(Get(key, f)) => IsTime(Get(key, f))
        /\ \/ status \in {Text("active"), Text("retired")} /\ rt = Null
           \/ /\ status \in {Text("revoked_future_only"), Text("revoked_all")}
              /\ IsTime(rt)

(* A timestamp of a receipt or a key stands for a number of ticks, counted *)
(* from a time before all of them.                                         *)
HasTimes(members) ==
    \A f \in {"ts", "not_before", "not_after", "revocation_time"} :
        IsTime(Get(members, f)) => Get(members, f)[3] \in Nat

ASSUME TimesAssumption ==
    /\ \A e \in Envelopes : EnvelopeErrors(e) = {} => HasTimes(BodyOf(e))
    /\ \A ks \in KeySets :
          LET list == GetOr(ks, "keys", List(<<>>))
          IN  IsList(list) =>
                \A i \in DOMAIN Items(list) :
                    IsObj(Items(list)[i]) => HasTimes(Members(Items(list)[i]))

InWindow(key, ts) ==
    /\ Truthy(Get(key, "not_before")) => ParseTs(key["not_before"]) <= ts
    /\ Truthy(Get(key, "not_after")) => ts < ParseTs(key["not_after"])

RevokedAt(key, ts) ==
    \/ Get(key, "status") = Text("revoked_all")
    \/ /\ Get(key, "status") = Text("revoked_future_only")
       /\ ParseTs(key["revocation_time"]) <= ts

Reported(code) == \E e \in errors : e.code = code

(* Nothing else is wrong with a receipt: it is checked against the keys.   *)
NoOtherDefect(e) ==
    /\ EnvelopeErrors(e) = {}
    /\ BodyFieldErrors(BodyOf(e)) = {} /\ FieldTypeErrors(BodyOf(e)) = {}
    /\ CanonicalizationErrors(BodyOf(e)) = {}
    /\ IsTime(BodyOf(e)["ts"])
    /\ GetOr(SigOf(e), "alg", Empty) = Text("EdDSA")

(* What SPEC.md asks of a single receipt that has no other defect: the     *)
(* number of matching keys, the window and the revocation decide the       *)
(* verdict and its code, the window before the revocation.                 *)
LoneReceiptPolicy(e) ==
    LET ts == ParseTs(BodyOf(e)["ts"])
    IN  /\ Reported("AMBIGUOUS_KEY") <=> \E i, j \in KeysOf(e) : i # j
        /\ KeysOf(e) = {} <=> \/ Reported("KEY_NOT_FOUND")
                              \/ Reported("KEY_ALGORITHM_MISMATCH")
        /\ \A i \in KeysOf(e) :
              LET key == Members(Entries[i])
              IN  KeysOf(e) = {i} /\ WellFormedKey(key) =>
                    /\ Reported("KEY_NOT_VALID_AT_RECEIPT_TIME")
                         <=> ~InWindow(key, ts)
                    /\ Reported("KEY_REVOKED")
                         <=> InWindow(key, ts) /\ RevokedAt(key, ts)

(* Layer 1 accepts only what the key rules of SPEC.md:380-429 accept: a    *)
(* PASS has every receipt under the one key it selects, well-formed, and   *)
(* at a time inside the key's window and not revoked (times compared in    *)
(* the microseconds they parse to).                                        *)
PassFollowsKeyPolicy ==
    pc = "anchor" /\ ri = "PASS" =>
        \A p \in DOMAIN receipts :
            LET e  == receipts[p]
                ts == ParseTs(BodyOf(e)["ts"])
            IN  /\ Cardinality(KeysOf(e)) = 1
                /\ \A i \in KeysOf(e) :
                      LET key == Members(Entries[i])
                      IN  /\ WellFormedKey(key)
                          /\ InWindow(key, ts) /\ ~RevokedAt(key, ts)

(* Layer 1 rejects with the rule that was broken: a lone receipt that has  *)
(* no other defect gets the code the rules give it.                        *)
LoneReceiptGetsItsCode ==
    pc = "anchor" /\ Len(receipts) = 1 /\ NoOtherDefect(receipts[1]) /\ WellFormedKeySet
      => LoneReceiptPolicy(receipts[1])
=============================================================================
