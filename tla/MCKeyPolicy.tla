---------------------------- MODULE MCKeyPolicy ----------------------------
(***************************************************************************)
(* Small instances of KeyPolicy: chains of up to two receipts, at times on *)
(* and around the boundaries of the keys' windows and revocations.         *)
(***************************************************************************)
EXTENDS KeyPolicy, MCReceipts

At(t) == With(b1, "ts", Time(t))

TimedEnvelopes ==
    {Signed(At(t)) : t \in 0..9}
      \cup {Signed(With(make_receipt_body(2, HashOf(At(4))), "ts", Time(6))),
            Enveloped(b1, Sig(Text("EdDSA"), Text("k2"), SignatureBy(Text("key2"), b1)))}

(* The lifecycle of the key KID: window and revocation.                   *)
Lifecycle(status, rt, nb, na) ==
    [KeyEntry(KID, PRIVATE_KEY) EXCEPT !.status = Text(status),
        !.revocation_time = rt, !.not_before = nb, !.not_after = na]

Lifecycles ==
    {Lifecycle(s, rt, nb, na) :
        s \in {"active", "retired", "revoked_future_only", "revoked_all"},
        rt \in {Null, Time(4), Text("later")},
        nb \in {Null, Time(3)}, na \in {Empty, Time(7)}}

KeySetOf(entries) == [tenant |-> TENANT, keys |-> List(entries)]

(* After a rotation: the old key and the one that took over.               *)
Rotated == Lifecycle("retired", Null, Time(2), Time(6))
NewKey  == [KeyEntry(Text("k2"), Text("key2")) EXCEPT !.not_before = Time(4)]

LifecycleKeySets ==
    {KeySetOf(<<Obj(key)>>) : key \in Lifecycles}
      \cup {KeySetOf(<<Obj(Rotated), Obj(NewKey)>>),
            KeySetOf(<<Obj(Rotated), Obj(Rotated)>>),
            KeySetOf(<<Obj(Rotated), Obj([Rotated EXCEPT !.alg = Text("ES256")])>>),
            KeySetOf(<<Obj([Rotated EXCEPT !.alg = Text("ES256")])>>),
            KeySetOf(<<Obj(Without(Rotated, "status"))>>),
            KeySetOf(<<Obj(With(Rotated, "status", Text("suspended")))>>),
            KeySetOf(<<Obj(With(Rotated, "status", List(<<>>)))>>),
            KeySetOf(<<Obj(With(Rotated, "not_before", Text("soon")))>>),
            KeySetOf(<<Null>>),
            [tenant |-> TENANT, keys |-> Null],
            [tenant |-> TENANT, keys |-> List(<<>>)],
            [tenant |-> Text("other"), keys |-> List(<<Obj(Rotated)>>)]}
=============================================================================
