----------------------------- MODULE Disclosure -----------------------------
(***************************************************************************)
(* An operator who issues receipts, rotates and revokes keys, anchors the  *)
(* log and rolls it back, and a verifier who is given, at some moment, the *)
(* key set of that moment, perhaps the anchor proof, and any sequence of   *)
(* the receipts ever issued: some left out, some twice, in any order, some *)
(* of a log that was given up.                                             *)
(***************************************************************************)
EXTENDS Verifier, Issuer

CONSTANTS MaxIssued,    \* bound: receipts ever issued
          MaxEvents     \* bound: rotations, revocations, anchors, rollbacks

VARIABLES
    issued,     \* every receipt ever issued: its body, key and its standing
    log,        \* the numbers in `issued' of the current log's receipts
    former,     \* the logs that were rolled back
    key_list,   \* the entries of the key set
    clock,      \* the time, in ticks
    anchored,   \* what was anchored: its first seq and its part of the log
    events,     \* how many events there were
    stage       \* "operate", then "verify"

operator == <<issued, log, former, key_list, clock, anchored>>
allvars  == <<vars, operator, events, stage>>

Nothing == [start |-> 1, part |-> <<>>]

(* The key set and the arrays begin empty-handed: Disclose gives them.     *)
DisclosureInit ==
    /\ Init
    /\ arguments = "well typed"
    /\ issued = <<>> /\ log = <<>> /\ former = {}
    /\ key_list = <<key_entry>>
    /\ clock = not_before
    /\ anchored = Nothing
    /\ events = 0
    /\ stage = "operate"

-----------------------------------------------------------------------------
BodyAt(i)    == issued[i].body
PrivateKey(k) == key_list[k].x

(* A key is in force until it is retired or revoked.                       *)
InForce(k) == key_list[k].status = Text("active")

(* The next receipt of the log.  A signer that does not know of a rotation *)
(* or revocation goes on signing with its key.                             *)
Issue(k) ==
    /\ Len(issued) < MaxIssued
    /\ LET prev == IF log = <<>> THEN Genesis
                   ELSE receipt_hash(BodyAt(log[Len(log)]))
           body == [make_receipt_body(Len(log) + 1, prev) EXCEPT
                       !.ts = Time(clock)]
       IN  issued' = Append(issued, [body |-> body, key |-> k,
                                     in_force |-> InForce(k)])
    /\ log' = Append(log, Len(issued'))
    /\ clock' = clock + 1
    /\ UNCHANGED <<former, key_list, anchored, events>>

Event == events < MaxEvents /\ events' = events + 1

(* The old key ends and the new one begins at the same instant.            *)
Rotate ==
    /\ Event
    /\ Len(key_list) = 1
    /\ key_list' =
         <<IF InForce(1)
           THEN [key_list[1] EXCEPT !.status = Text("retired"),
                                    !.not_after = Time(clock)]
           ELSE key_list[1],
           [key_entry EXCEPT !.kid = Text("tenant-key-2026-06"), !.x = Text("key2"),
                             !.not_before = Time(clock)]>>
    /\ UNCHANGED <<issued, log, former, clock, anchored>>

Revoked == {Text("revoked_future_only"), Text("revoked_all")}

Revoke(k, status) ==
    /\ Event
    /\ key_list[k].status \notin Revoked
    /\ key_list' = [key_list EXCEPT ![k].status = status,
                                    ![k].revocation_time = Time(clock)]
    /\ UNCHANGED <<issued, log, former, clock, anchored>>

(* The receipts from a number on, up to the last, are anchored together.   *)
Anchor(start) ==
    /\ Event
    /\ anchored = Nothing
    /\ anchored' = [start |-> start, part |-> SubSeq(log, start, Len(log))]
    /\ UNCHANGED <<issued, log, former, key_list, clock>>

(* The log is cut back; what is issued next takes the same numbers again.  *)
Rollback(n) ==
    /\ Event
    /\ former' = former \cup {log}
    /\ log' = SubSeq(log, 1, n)
    /\ UNCHANGED <<issued, key_list, clock, anchored>>

Operate ==
    \/ \E k \in DOMAIN key_list : Issue(k)
    \/ Rotate
    \/ \E k \in DOMAIN key_list, status \in Revoked : Revoke(k, status)
    \/ \E start \in DOMAIN log : Anchor(start)
    \/ \E n \in 0..Len(log) - 1 : Rollback(n)

-----------------------------------------------------------------------------
EnvelopeOf(i) ==
    sign_body(BodyAt(i), PrivateKey(issued[i].key), key_list[issued[i].key].kid)

AnchoredHashes == [i \in DOMAIN anchored.part |->
                      receipt_hash(BodyAt(anchored.part[i]))]

LevelsOf(hashes) ==
    LET level[k \in DOMAIN hashes] ==
            IF k = 1 THEN [i \in DOMAIN hashes |-> LeafHash(hashes[i])]
            ELSE NextLevel(level[k - 1])
    IN  level

AnchorProof ==
    anchor_proof(anchored.start, anchored.start + Len(anchored.part) - 1,
        compute_batch_root(AnchoredHashes),
        [i \in DOMAIN anchored.part |->
            proof_entry(AnchoredHashes[i], Decimal(i - 1),
                        HonestPath(LevelsOf(AnchoredHashes), i - 1))])

Disclose ==
    /\ stage = "operate"
    /\ \E n \in 0..MaxReceipts : \E choice \in [1..n -> DOMAIN issued] :
          receipts' = [i \in 1..n |-> EnvelopeOf(choice[i])]
    /\ keys' = make_keys_json(TENANT, key_list)
    /\ anchor' \in {Null} \cup
                   (IF anchored = Nothing THEN {} ELSE {Obj(AnchorProof)})
    /\ stage' = "verify"
    /\ UNCHANGED <<pc, pos, recorded, ri, errors, arguments, anchor_validity,
                   completeness, operator, events>>

DisclosureNext ==
    \/ stage = "operate" /\ Operate /\ UNCHANGED <<vars, stage>>
    \/ Disclose
    \/ stage = "verify" /\ Next /\ UNCHANGED <<operator, events, stage>>

DisclosureSpec == DisclosureInit /\ [][DisclosureNext]_allvars

-----------------------------------------------------------------------------
Verified == stage = "verify" /\ pc = "done"
Disclosed == {receipts[p] : p \in DOMAIN receipts}
EnvelopesOf(numbers) ==
    {EnvelopeOf(numbers[i]) : i \in DOMAIN numbers}

(* The key of a receipt was in force when it signed, and it was not        *)
(* revoked for everything it ever signed.                                  *)
Stands(i) ==
    /\ issued[i].in_force
    /\ key_list[issued[i].key].status # Text("revoked_all")

(* The whole current log was disclosed, nothing twice, all of it signed by *)
(* keys in force then and now not revoked for everything; nor had the      *)
(* window that the operator planned for the newest key ended.              *)
WholeLogDisclosed ==
    /\ Verified
    /\ log # <<>> /\ Len(receipts) = Len(log)
    /\ Disclosed = EnvelopesOf(log)
    /\ \A i \in DOMAIN log : Stands(log[i])
    /\ clock <= not_after

(* The whole current log passes, in any order and after any rotation or    *)
(* revocation from some time on (SPEC.md:389, "Historical receipts MUST    *)
(* remain verifiable after rotation").                                     *)
HonestPasses == WholeLogDisclosed => ri = "PASS"

(* Of receipts that pass, an anchor whose receipts are all among them is   *)
(* not refused: made when the log was shorter, before a rollback that      *)
(* spared its part, and in whatever order they come.                       *)
HonestAnchorStands ==
    Verified /\ ri = "PASS"
      /\ (\A i \in DOMAIN anchored.part :
             EnvelopeOf(anchored.part[i]) \in Disclosed)
      => anchor_validity # "FAIL"

(* What passes was signed by keys in force when they signed, whatever      *)
(* windows and revocations the key set has by now.                         *)
SignedInForce ==
    Verified /\ ri = "PASS" =>
        \A e \in Disclosed : \E i \in DOMAIN issued :
            EnvelopeOf(i) = e /\ Stands(i)

(* What passes is a log the operator had at some moment, the current one   *)
(* or one that was rolled back, up to some receipt: never a mixture of two *)
(* and never one with a receipt left out before the end.                   *)
PassIsAHistory ==
    Verified /\ ri = "PASS" =>
        \E history \in former \cup {log} :
            /\ Len(receipts) \in 1..Len(history)
            /\ Disclosed = EnvelopesOf(SubSeq(history, 1, Len(receipts)))

(* An anchor proof that is not refused shows that no anchored receipt was  *)
(* left out and none replaced by one issued after a rollback.              *)
AnchorPreventsRollback ==
    Verified /\ anchor # Null /\ recorded # {} /\ anchor_validity # "FAIL" =>
        \A i \in DOMAIN anchored.part :
            EnvelopeOf(anchored.part[i]) \in Disclosed
=============================================================================
