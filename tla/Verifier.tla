------------------------------ MODULE Verifier ------------------------------
(***************************************************************************)
(* verify() of verify.py: its two checks of the arguments, then the three  *)
(* layers, one after the other, on one VerificationResult.                 *)
(***************************************************************************)
EXTENDS Completeness

CONSTANT Anchors    \* the anchor proofs: JSON values, Null if there is none

(* Numerals denote integers, and the proofs are an array.                  *)
AnchorDenotes(a) ==
    IsObj(a) =>
        /\ HasRange(Members(a)) => /\ IntOf(RangeStart(Members(a))) \in Int
                                   /\ IntOf(RangeEnd(Members(a))) \in Int
        /\ IsList(Proofs(Members(a))) =>
              DOMAIN Items(Proofs(Members(a))) \subseteq Nat

ASSUME AnchorsAssumption == \A a \in Anchors : AnchorDenotes(a)

VARIABLES
    arguments,          \* whether the first two arguments have the right type
    anchor,             \* anchor_proof_data: never changes
    anchor_validity,    \* result.anchor_validity
    completeness        \* result.completeness

vars == <<l1vars, arguments, anchor, anchor_validity, completeness>>

Arguments == {"well typed", "receipts not an array", "keys not an object"}

Init ==
    /\ Layer1Init
    /\ arguments \in Arguments
    /\ anchor \in Anchors
    /\ anchor_validity = "INCONCLUSIVE"
    /\ completeness = "INCONCLUSIVE"

(* verify.py:38-56                                                         *)
RejectArguments ==
    /\ arguments # "well typed" /\ pc = "receipts"
    /\ ri' = "FAIL"
    /\ Report({"INVALID_JSON"})
    /\ pc' = "done"
    /\ UNCHANGED <<inputs, pos, recorded, arguments, anchor,
                   anchor_validity, completeness>>

Layer1 ==
    /\ arguments = "well typed"
    /\ Layer1Next
    /\ UNCHANGED <<arguments, anchor, anchor_validity, completeness>>

-----------------------------------------------------------------------------
Layer2(status, new) ==
    /\ pc' = "completeness"
    /\ anchor_validity' = status
    /\ errors' = errors \cup new
    /\ UNCHANGED <<inputs, pos, recorded, ri, arguments, anchor, completeness>>

NoAnchor ==
    /\ pc = "anchor" /\ anchor = Null
    /\ Layer2(anchor_validity,
              IF anchor_validity = "INCONCLUSIVE"
              THEN Warning("anchor_validity", {"ANCHOR_UNCHECKED"}) ELSE {})

AnchorNotObject ==
    /\ pc = "anchor" /\ anchor # Null /\ ~IsObj(anchor)
    /\ Layer2("FAIL", Fatal("anchor_validity", {"ANCHOR_PROOF_INVALID"}))

NothingToAnchor ==
    /\ pc = "anchor" /\ IsObj(anchor) /\ recorded = {}
    /\ Layer2("INCONCLUSIVE", {})

(* Mutant: an invalid anchor proof is reported as a warning.               *)
AnchorDoubted ==
    /\ pc = "anchor" /\ IsObj(anchor) /\ recorded # {}
    /\ ~AnchorRaises(Members(anchor))
    /\ \E codes \in {AnchorErrors(Members(anchor))} :
          codes # {} /\ Layer2("FAIL", Warning("anchor_validity", codes))

AnchorInvalid ==
    /\ pc = "anchor" /\ IsObj(anchor) /\ recorded # {}
    /\ ~AnchorRaises(Members(anchor))
    /\ \E codes \in {AnchorErrors(Members(anchor))} :
          codes # {} /\ Layer2("FAIL", Fatal("anchor_validity", codes))

(* The transaction is never queried; its absence is not reported.          *)
AnchorAccepted ==
    /\ pc = "anchor" /\ IsObj(anchor) /\ recorded # {}
    /\ ~AnchorRaises(Members(anchor))
    /\ AnchorErrors(Members(anchor)) = {}
    /\ Layer2("INCONCLUSIVE",
              IF Truthy(GetOr(Members(anchor), "tx", Empty))
              THEN Warning("anchor_validity", {"ANCHOR_UNCHECKED"}) ELSE {})

RaiseOnAnchor ==
    /\ pc = "anchor"
    /\ IsObj(anchor) /\ recorded # {}
    /\ AnchorRaises(Members(anchor))
    /\ pc' = "raised"
    /\ UNCHANGED <<inputs, pos, recorded, ri, errors, arguments, anchor,
                   anchor_validity, completeness>>

VerifyAnchor ==
    \/ NoAnchor \/ AnchorNotObject \/ NothingToAnchor
    \/ AnchorInvalid \/ AnchorAccepted \/ RaiseOnAnchor

-----------------------------------------------------------------------------
(* Mutant: layer 3 starts a list of errors of its own.                     *)
VerifyCompletenessAfresh ==
    /\ pc = "completeness" /\ pc' = "done"
    /\ completeness' = CompletenessStatus
    /\ errors' = Warning("completeness", CompletenessWarnings(anchor))
    /\ UNCHANGED <<inputs, pos, recorded, ri, arguments, anchor,
                   anchor_validity>>

VerifyCompleteness ==
    /\ pc = "completeness" /\ pc' = "done"
    /\ completeness' = CompletenessStatus
    /\ errors' = errors \cup
                 Warning("completeness", CompletenessWarnings(anchor))
    /\ UNCHANGED <<inputs, pos, recorded, ri, arguments, anchor,
                   anchor_validity>>

Next == RejectArguments \/ Layer1 \/ VerifyAnchor \/ VerifyCompleteness

Spec == Init /\ [][Next]_vars

(* One call of one thread: nothing but its own end can stop it.            *)
FairSpec == Spec /\ WF_vars(Next)

-----------------------------------------------------------------------------
(* The variables hold what the code could hold in them.                    *)
TypeOK ==
    /\ receipts \in UNION {[1..n -> Envelopes] : n \in 0..MaxReceipts}
    /\ keys \in KeySets
    /\ anchor \in Anchors
    /\ arguments \in Arguments
    /\ pc \in Phases
    /\ pos \in 1..Len(receipts) + 1
    /\ recorded \subseteq 1..pos - 1
    /\ ri \in LayerStatus
    /\ anchor_validity \in LayerStatus
    /\ completeness \in LayerStatus
    /\ errors \subseteq VerificationError

(* add_error's structural invariant for all three layers: a layer with a   *)
(* fatal error has a terminal status, and for the first two layers, which  *)
(* also set statuses without add_error, a terminal status has a fatal      *)
(* error that explains it.                                                 *)
FatalForcesStatus ==
    /\ FatalIffTerminal
    /\ HasFatal(errors, "anchor_validity") <=> anchor_validity = "FAIL"
    /\ ~HasFatal(errors, "completeness")

(* Layer 3 says FAIL, which it reports no error for, only about a sequence *)
(* that lacks a number or repeats one (seqs "1" and "1\n") and that layer 1*)
(* let through as UNSUPPORTED_VERSION with a fatal error of its own        *)
(* (verify.py:675 and 709-711).                                            *)
CompletenessFailExplained ==
    completeness = "FAIL" =>
        /\ ri = "UNSUPPORTED_VERSION"
        /\ HasFatal(errors, "receipt_integrity")
        /\ \/ \E n, m \in Numbers : n < m /\ n + 1 \notin Numbers
           \/ \E p, q \in recorded : p # q /\ IntOf(SeqOf(p)) = IntOf(SeqOf(q))

(* An INCONCLUSIVE completeness is never silent: when the range fields     *)
(* make layer 3 return without a warning (verify.py:727-729), layer 2 has  *)
(* already reported the anchor proof as invalid.                           *)
InconclusiveExplained ==
    pc = "done" /\ arguments = "well typed" /\ completeness = "INCONCLUSIVE" =>
        \/ \E e \in errors : e.layer = "completeness"
        \/ HasFatal(errors, "anchor_validity")

(* When layer 2 accepts an anchor proof for recorded receipts, the anchor  *)
(* binds the whole range it claims to exactly the disclosed receipts:      *)
(* every number of the range is the seq of a recorded receipt, and the     *)
(* proof of that receipt is at the leaf its seq says.                      *)
AnchorStands ==
    /\ pc \in {"completeness", "done"}
    /\ IsObj(anchor) /\ recorded # {}
    /\ anchor_validity = "INCONCLUSIVE"

AnchorBindsRange ==
    AnchorStands =>
        \A n \in AnchorRange(Members(anchor)) :
            /\ Decimal(n) \in RecordedSeqs
            /\ LET proofs == Items(Proofs(Members(anchor)))
               IN  \E i \in DOMAIN proofs :
                      LET proof == Members(proofs[i])
                      IN  /\ proof["receipt_hash"] = HashAt(n)
                          /\ IntOf(LeafIndex(proof))
                               = n - IntOf(RangeStart(Members(anchor)))

(* A result is final: verify() returns what its layers left, whatever      *)
(* layer 2 and layer 3 do they take back no verdict and no error of an     *)
(* earlier layer.                                                          *)
LaterLayersKeepVerdicts ==
    [][/\ errors \subseteq errors'
       /\ pc \in {"anchor", "completeness", "done"} => ri' = ri
       /\ pc \in {"completeness", "done"} => anchor_validity' = anchor_validity]_vars

(* verify() comes to an end, and a fatal error of layer 1 reaches the      *)
(* caller: as a FAIL or UNSUPPORTED_VERSION of the returned result, or an  *)
(* exception.                                                              *)
Returns ==
    /\ <>(pc \in {"done", "raised"})
    /\ HasFatal(errors, "receipt_integrity") ~>
         \/ pc = "raised"
         \/ pc = "done" /\ ri \in {"FAIL", "UNSUPPORTED_VERSION"}
=============================================================================
