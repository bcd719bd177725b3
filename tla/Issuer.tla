------------------------------- MODULE Issuer -------------------------------
(***************************************************************************)
(* The reference issuer, scripts/generate_vectors.py: key sets, receipt    *)
(* bodies, signatures and chains.  Its keyword arguments are EXCEPT: a     *)
(* definition gives the defaults, who wants another value changes a member.*)
(* The members of a key that the verifier never reads are left out.        *)
(***************************************************************************)
EXTENDS Json

TENANT == Text("test-tenant-001")
KID    == Text("tenant-key-2026-05")

(* A private key and its public key are one text.                          *)
PRIVATE_KEY == Text("key1")

(* The times of the defaults, in ticks: the key's window and the receipt's *)
(* ts inside it.                                                           *)
not_before == 2
morning    == 4
not_after  == 40

key_entry ==
    [kid |-> KID, alg |-> Text("EdDSA"), x |-> PRIVATE_KEY,
     not_before |-> Time(not_before), not_after |-> Time(not_after),
     status |-> Text("active"), revocation_time |-> Null]

make_keys_json(tenant, entries) ==
    [tenant |-> tenant,
     keys |-> List([i \in DOMAIN entries |-> Obj(entries[i])])]

DefaultKeys == make_keys_json(TENANT, <<key_entry>>)

make_receipt_body(n, prev_receipt) ==
    [v |-> Text("1"), tenant |-> TENANT, seq |-> Decimal(n),
     ts |-> Time(morning), request_digest |-> Digest(<<"request", n>>),
     policy_version |-> Digest(<<"policy", 1>>),
     decision |-> Text("approve"), reasons |-> List(<<Text("auto_approve")>>),
     prev_receipt |-> prev_receipt]

Sig(alg, kid, value) == Obj([alg |-> alg, kid |-> kid, value |-> value])
Enveloped(body, sig) == Obj([body |-> Obj(body), sig |-> sig])

sign_body(body, private_key, kid) ==
    Enveloped(body, Sig(Text("EdDSA"), kid, SignatureBy(private_key, body)))

Signed(body) == sign_body(body, PRIVATE_KEY, KID)

receipt_hash(body) == HashOf(body)

(* build_chain: the i-th receipt is of the i-th second, written with one   *)
(* digit, so from the eleventh on its ts is no timestamp.  The chain       *)
(* begins with the genesis marker whatever its first number is.            *)
ts_base(i) == IF i < 10 THEN Time(morning + i) ELSE Text("no timestamp")

chain_body(start_seq, i, prev) ==
    [make_receipt_body(start_seq + i, prev) EXCEPT !.ts = ts_base(i)]

chain_bodies(count, start_seq) ==
    LET body[i \in 0..count - 1] ==
            chain_body(start_seq, i,
                       IF i = 0 THEN Genesis ELSE receipt_hash(body[i - 1]))
    IN  [i \in 1..count |-> body[i - 1]]

build_chain(count, start_seq) ==
    LET bodies == chain_bodies(count, start_seq)
    IN  [i \in 1..count |-> Signed(bodies[i])]

-----------------------------------------------------------------------------
(* Anchor proofs, as the vectors with an anchor write them.  Members that  *)
(* the verifier never reads are left out.                                  *)
path_step(position, hash) ==
    Obj([position |-> Text(position), hash |-> hash])

proof_entry(hash, leaf_index, path) ==
    Obj([receipt_hash |-> hash, leaf_index |-> leaf_index,
         merkle_path |-> List(path)])

anchor_proof(start, end, root, proofs) ==
    [tenant |-> TENANT, root_alg |-> Text("merkle-sha256-v1"),
     range_start |-> Decimal(start), range_end |-> Decimal(end),
     batch_root |-> root, commitment_value |-> root,
     tx |-> Text("0xdeadbeef"), proofs |-> List(proofs)]
=============================================================================
