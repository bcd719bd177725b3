--------------------------- MODULE VerifierProofs ---------------------------
(***************************************************************************)
(* The whole of verify(): what layer 1 guarantees survives layers 2 and 3. *)
(***************************************************************************)
EXTENDS Verifier, ReceiptIntegrityProofs

-----------------------------------------------------------------------------
(* Layers 2 and 3 report codes of ErrorCode.                               *)
LEMMA AnchorCodes ==
    ASSUME NEW a
    PROVE  AnchorErrors(a) \in SUBSET ErrorCode
<1>1. RootAlgErrors(a) \subseteq ErrorCode
  BY DEF RootAlgErrors, ErrorCode
<1>2. TenantErrors(a) \subseteq ErrorCode
  BY DEF TenantErrors, ErrorCode
<1>3. CommitmentErrors(a) \subseteq ErrorCode
  BY DEF CommitmentErrors, ErrorCode
<1>4. RootErrors(a) \subseteq ErrorCode
  BY DEF RootErrors, ErrorCode
<1>5. ProofListErrors(a) \subseteq ErrorCode
  BY DEF ProofListErrors, ErrorCode
<1>6. FirstProofErrors(a) \subseteq ErrorCode
  <2>1. \A proof : ProofErrors(proof, a) \subseteq ErrorCode
    BY DEF ProofErrors, ErrorCode
  <2>. QED  BY <2>1 DEF FirstProofErrors
<1>. QED  BY <1>1, <1>2, <1>3, <1>4, <1>5, <1>6 DEF AnchorErrors, ??

(* Layer 3 reports codes of ErrorCode.                                     *)
LEMMA CompletenessCodes ==
    ASSUME NEW a
    PROVE  CompletenessWarnings(a) \in SUBSET ErrorCode
BY DEF CompletenessWarnings, ErrorCode

-----------------------------------------------------------------------------
(* The types for a call with an array and a key set from anywhere.         *)
CallOK ==
    /\ InputOK
    /\ arguments \in Arguments
    /\ pc \in Phases
    /\ pos \in 1..Len(receipts) + 1
    /\ recorded \subseteq 1..pos - 1
    /\ ri \in LayerStatus
    /\ anchor_validity \in LayerStatus
    /\ completeness \in LayerStatus
    /\ errors \subseteq VerificationError

(* Where verify() is determines what the later layers have decided.        *)
PhaseInv ==
    /\ LoopInv
    /\ arguments # "well typed" =>
          /\ pc \in {"receipts", "done"} /\ recorded = {}
          /\ ri = IF pc = "done" THEN "FAIL" ELSE "INCONCLUSIVE"
    /\ pc \in {"receipts", "anchor"} => anchor_validity = "INCONCLUSIVE"
    /\ pc # "done" => completeness = "INCONCLUSIVE"

(* Layer 1's own invariant holds as long as layer 1 runs.                  *)
LEMMA TypeRestricts ==
    ASSUME CallOK, pc \in {"receipts", "anchor", "raised"}
    PROVE  LoopTypeOK
BY DEF CallOK, LoopTypeOK

(* Layer 1 acts in its own phase only.                                     *)
LEMMA Layer1InReceipts == Layer1Next => pc = "receipts"
BY DEF Layer1Next, CheckEnvelope, RejectEnvelope, RejectBody, RejectFields,
       RejectUncanonical, RejectRepeated, RecordReceipt, RaiseOnReceipt,
       Canonical, Screened, InLoop, SkipSequence, CheckSequence,
       RaiseOnSequence, LoopDone

(* verify() begins in a state of the right types.                          *)
LEMMA VerifierTypeInit == Init => TypeOK /\ CallOK /\ PhaseInv
<1>. SUFFICES ASSUME Init PROVE TypeOK /\ CallOK /\ PhaseInv
  OBVIOUS
<1>1. Layer1TypeOK /\ LoopInv
  BY TypeInit, LoopInit DEF Init
<1>2. LoopTypeOK
  BY <1>1, TypesRestrict
<1>3. TypeOK
  BY <1>1 DEF Init, Layer1Init, Layer1TypeOK, TypeOK, Phases, LayerStatus
<1>. QED  BY <1>1, <1>2, <1>3 DEF Init, Layer1Init, LoopTypeOK, CallOK, Phases,
                            PhaseInv, LayerStatus

(* A step of layer 2 sets one status, adds errors and hands over.          *)
LEMMA AnchorStep ==
    ASSUME CallOK, PhaseInv, VerifyAnchor
    PROVE  /\ pc = "anchor" /\ pc' \in {"completeness", "raised"}
           /\ UNCHANGED <<inputs, pos, recorded, ri, arguments, anchor,
                          completeness>>
           /\ \/ /\ anchor_validity' = "INCONCLUSIVE"
                 /\ \E codes \in SUBSET ErrorCode :
                       errors' = errors \cup Warning("anchor_validity", codes)
              \/ /\ anchor_validity' = "FAIL"
                 /\ \E codes \in SUBSET ErrorCode :
                       /\ codes # {}
                       /\ errors' = errors \cup Fatal("anchor_validity", codes)
<1>0. /\ Warning("anchor_validity", {}) = {}
      /\ {} \in SUBSET ErrorCode
      /\ {"ANCHOR_UNCHECKED"} \in SUBSET ErrorCode
      /\ {"ANCHOR_PROOF_INVALID"} \in SUBSET ErrorCode
  BY DEF Warning, ErrorCode
<1>1. CASE NoAnchor
  BY <1>0, <1>1 DEF NoAnchor, Layer2, PhaseInv
<1>2. CASE AnchorNotObject
  BY <1>0, <1>2 DEF AnchorNotObject, Layer2
<1>3. CASE NothingToAnchor
  BY <1>0, <1>3 DEF NothingToAnchor, Layer2
<1>4. CASE AnchorInvalid
  BY <1>4, AnchorCodes DEF AnchorInvalid, Layer2
<1>5. CASE AnchorAccepted
  BY <1>0, <1>5 DEF AnchorAccepted, Layer2
<1>6. CASE RaiseOnAnchor
  BY <1>0, <1>6 DEF RaiseOnAnchor, PhaseInv
<1>. QED  BY <1>1, <1>2, <1>3, <1>4, <1>5, <1>6 DEF VerifyAnchor

(* No step of verify() changes what it was given.                          *)
LEMMA ArgumentsKept ==
    ASSUME CallOK, PhaseInv, [Next]_vars
    PROVE  UNCHANGED <<inputs, arguments, anchor>>
<1>1. CASE RejectArguments
  BY <1>1 DEF RejectArguments
<1>2. CASE Layer1
  <2>1. LoopTypeOK /\ [Layer1Next]_l1vars
    BY <1>2, Layer1InReceipts, TypeRestricts DEF Layer1
  <2>. QED  BY <1>2, <2>1, InputsKept DEF Layer1
<1>3. CASE VerifyAnchor
  BY <1>3, AnchorStep
<1>4. CASE VerifyCompleteness
  BY <1>4 DEF VerifyCompleteness
<1>5. CASE UNCHANGED vars
  BY <1>5 DEF vars, l1vars, inputs
<1>. QED  BY <1>1, <1>2, <1>3, <1>4, <1>5 DEF Next

-----------------------------------------------------------------------------
(* The argument checks report a code of ErrorCode.                         *)
LEMMA ArgumentCodes == {"INVALID_JSON"} \in SUBSET ErrorCode
BY DEF ErrorCode

(* Every step of verify() keeps the types, and the statuses of the layers  *)
(* that have not run yet.                                                  *)
LEMMA VerifierTypeStep ==
    CallOK /\ PhaseInv /\ [Next]_vars => CallOK' /\ PhaseInv'
<1>. SUFFICES ASSUME CallOK, PhaseInv, [Next]_vars
              PROVE  CallOK' /\ PhaseInv'
  OBVIOUS
<1>0. InputOK'
  BY ArgumentsKept DEF CallOK, InputOK, inputs
<1>1. CASE RejectArguments
  <2>1. errors' \subseteq VerificationError
    BY <1>1, ArgumentCodes, FatalType DEF RejectArguments, Report, CallOK, Layer
  <2>2. ri' \in LayerStatus /\ pc' \in Phases
    BY <1>1 DEF RejectArguments, LayerStatus, Phases
  <2>3. InputOK' /\ recorded' = {} /\ ri' = "FAIL"
    BY <1>0, <1>1 DEF RejectArguments, CallOK, PhaseInv
  <2>. QED  BY <1>1, <2>1, <2>2, <2>3
            DEF RejectArguments, inputs, CallOK, PhaseInv, LoopInv
<1>2. CASE Layer1
  <2>1. pc = "receipts"
    BY <1>2, Layer1InReceipts DEF Layer1
  <2>2. LoopTypeOK /\ LoopInv
    BY <2>1, TypeRestricts DEF PhaseInv
  <2>3. LoopTypeOK' /\ LoopInv'
    BY <1>2, <2>2, TypeStep, LoopStep DEF Layer1
  <2>. QED  BY <1>2, <2>1, <2>3
            DEF Layer1, LoopTypeOK, CallOK, Phases, PhaseInv
<1>3. CASE VerifyAnchor
  <2>1. errors' \subseteq VerificationError
    BY <1>3, AnchorStep, FatalType DEF CallOK, Layer
  <2>2. anchor_validity' \in LayerStatus
    BY <1>3, AnchorStep DEF LayerStatus
  <2>. QED  BY <1>0, <1>3, <2>1, <2>2, AnchorStep
            DEF CallOK, PhaseInv, LoopInv, inputs, Phases
<1>4. CASE VerifyCompleteness
  <2>1. errors' \subseteq VerificationError
    BY <1>4, CompletenessCodes, FatalType DEF VerifyCompleteness, CallOK, Layer
  <2>2. completeness' \in LayerStatus
    BY <1>4 DEF VerifyCompleteness, CompletenessStatus, LayerStatus
  <2>. QED  BY <1>0, <1>4, <2>1, <2>2
            DEF VerifyCompleteness, CallOK, PhaseInv, LoopInv, inputs, Phases
<1>5. CASE UNCHANGED vars
  BY <1>0, <1>5 DEF vars, l1vars, inputs, CallOK, PhaseInv, LoopInv, Numbers
<1>. QED  BY <1>1, <1>2, <1>3, <1>4, <1>5 DEF Next

(* Types and phase invariant hold in every state of verify().              *)
LEMMA VerifierInvariant == Spec => [](CallOK /\ PhaseInv)
BY VerifierTypeInit, VerifierTypeStep, PTL DEF Spec

(* verify() is type-correct, whatever it is given.                         *)
THEOREM VerifierTypeCorrect == Spec => []TypeOK
<1>1. TypeOK /\ CallOK /\ PhaseInv /\ [Next]_vars => TypeOK'
  <2>. SUFFICES ASSUME TypeOK, CallOK, PhaseInv, [Next]_vars
                PROVE  TypeOK'
    OBVIOUS
  <2>1. CallOK' /\ UNCHANGED <<inputs, arguments, anchor>>
    BY VerifierTypeStep, ArgumentsKept
  <2>. QED  BY <2>1 DEF TypeOK, CallOK, inputs
<1>. QED  BY <1>1, VerifierTypeInit, VerifierInvariant, PTL DEF Spec

-----------------------------------------------------------------------------
(* Errors of other layers, and warnings, do not count for a layer.         *)
LEMMA OthersDoNotCount ==
    ASSUME NEW old, NEW codes, NEW layer, NEW other, other # layer
    PROVE  HasFatal(old \cup Fatal(other, codes), layer) <=> HasFatal(old, layer)
<1>1. \A e \in Fatal(other, codes) : e.layer # layer
  BY DEF Fatal
<1>. QED  BY <1>1 DEF HasFatal

(* A warning is no fatal error of any layer.                               *)
LEMMA WarningsDoNotCount ==
    ASSUME NEW old, NEW codes, NEW layer, NEW any
    PROVE  HasFatal(old \cup Warning(any, codes), layer) <=> HasFatal(old, layer)
<1>1. \A e \in Warning(any, codes) : e.severity # "fatal"
  BY DEF Warning
<1>. QED  BY <1>1 DEF HasFatal

(* Layer 1 reports errors of its own layer only.                           *)
LEMMA Layer1Reports ==
    ASSUME LoopTypeOK, Layer1Next
    PROVE  \E codes : errors' = errors \cup Fatal("receipt_integrity", codes)
<1>1. Fatal("receipt_integrity", {}) = {}
  BY DEF Fatal
<1>2. CASE CheckEnvelope
  BY <1>1, <1>2, EnvelopeStep
<1>3. CASE SkipSequence \/ CheckSequence \/ RaiseOnSequence
  BY <1>1, <1>3 DEF SkipSequence, CheckSequence, RaiseOnSequence, Report
<1>. QED  BY <1>2, <1>3 DEF Layer1Next

(* Every step of verify() keeps fatal errors and statuses together.        *)
LEMMA ForcesStep ==
    CallOK /\ PhaseInv /\ FatalForcesStatus /\ [Next]_vars => FatalForcesStatus'
<1>. SUFFICES ASSUME CallOK, PhaseInv, FatalForcesStatus, [Next]_vars
              PROVE  FatalForcesStatus'
  OBVIOUS
<1>1. CASE RejectArguments
  BY <1>1, FatalAdded, OthersDoNotCount
  DEF RejectArguments, Report, FatalForcesStatus, FatalIffTerminal
<1>2. CASE Layer1
  <2>1. LoopTypeOK /\ LoopInv
    <3>1. pc = "receipts"
      BY <1>2, Layer1InReceipts DEF Layer1
    <3>. QED  BY <3>1, TypeRestricts DEF PhaseInv
  <2>2. FatalIffTerminal'
    BY <1>2, <2>1, FatalStep DEF Layer1, FatalForcesStatus
  <2>3. PICK codes : errors' = errors \cup Fatal("receipt_integrity", codes)
    BY <1>2, <2>1, Layer1Reports DEF Layer1
  <2>. QED  BY <1>2, <2>2, <2>3, OthersDoNotCount
            DEF Layer1, FatalForcesStatus
<1>3. CASE VerifyAnchor
  <2>0. ~HasFatal(errors, "anchor_validity") /\ ri' = ri
        /\ completeness' = completeness
    BY <1>3, AnchorStep DEF PhaseInv, FatalForcesStatus
  <2>1. CASE /\ anchor_validity' = "INCONCLUSIVE"
             /\ \E codes \in SUBSET ErrorCode :
                   errors' = errors \cup Warning("anchor_validity", codes)
    <3>1. PICK codes : errors' = errors \cup Warning("anchor_validity", codes)
      BY <2>1
    <3>2. \A l \in Layer : HasFatal(errors', l) <=> HasFatal(errors, l)
      BY <3>1, WarningsDoNotCount
    <3>. QED  BY <2>0, <2>1, <3>2
              DEF FatalForcesStatus, FatalIffTerminal, Layer
  <2>2. CASE /\ anchor_validity' = "FAIL"
             /\ \E codes \in SUBSET ErrorCode :
                   /\ codes # {}
                   /\ errors' = errors \cup Fatal("anchor_validity", codes)
    <3>1. HasFatal(errors', "anchor_validity")
      BY <2>2, FatalAdded
    <3>. QED  BY <2>0, <2>2, <3>1, OthersDoNotCount
              DEF FatalForcesStatus, FatalIffTerminal
  <2>. QED  BY <1>3, <2>1, <2>2, AnchorStep
<1>4. CASE VerifyCompleteness
  BY <1>4, WarningsDoNotCount
  DEF VerifyCompleteness, FatalForcesStatus, FatalIffTerminal
<1>5. CASE UNCHANGED vars
  BY <1>5 DEF vars, l1vars, FatalForcesStatus, FatalIffTerminal
<1>. QED  BY <1>1, <1>2, <1>3, <1>4, <1>5 DEF Next

(* Whatever is verified, a layer with a fatal error has a terminal status, *)
(* and neither layer 1 nor layer 2 has a terminal status without one.      *)
THEOREM FatalErrorsForceStatus == Spec => []FatalForcesStatus
<1>1. Init => FatalForcesStatus
  BY DEF Init, Layer1Init, FatalForcesStatus, FatalIffTerminal, HasFatal
<1>. QED  BY <1>1, ForcesStep, VerifierInvariant, PTL DEF Spec

(* No later layer takes back a verdict or an error of an earlier one.      *)
THEOREM VerdictsAreKept == Spec => LaterLayersKeepVerdicts
<1> DEFINE Kept ==
        /\ errors \subseteq errors'
        /\ pc \in {"anchor", "completeness", "done"} => ri' = ri
        /\ pc \in {"completeness", "done"} => anchor_validity' = anchor_validity
<1>1. CallOK /\ PhaseInv /\ [Next]_vars => [Kept]_vars
  <2>. SUFFICES ASSUME CallOK, PhaseInv, Next
                PROVE  Kept
    OBVIOUS
  <2>1. CASE RejectArguments
    BY <2>1 DEF RejectArguments, Report
  <2>2. CASE Layer1
    <3>1. pc = "receipts"
      BY <2>2, Layer1InReceipts DEF Layer1
    <3>2. errors \subseteq errors'
      BY <2>2, <3>1, TypeRestricts, Layer1Reports DEF Layer1
    <3>. QED  BY <3>1, <3>2
  <2>3. CASE VerifyAnchor
    BY <2>3, AnchorStep
  <2>4. CASE VerifyCompleteness
    BY <2>4 DEF VerifyCompleteness
  <2>. QED  BY <2>1, <2>2, <2>3, <2>4 DEF Next
<1>. QED  BY <1>1, VerifierInvariant, PTL DEF Spec, LaterLayersKeepVerdicts

-----------------------------------------------------------------------------
(* What layer 1 hands to the layers after it: the recorded receipts are    *)
(* objects with a seq; unless the layer is FAIL the seqs are numerals, and *)
(* a gap between them has made the layer UNSUPPORTED_VERSION.  Layer 2 has *)
(* failed an anchor without a range.                                       *)
RecordedHaveSeq ==
    \A p \in recorded : /\ EnvelopeErrors(receipts[p]) = {}
                        /\ "seq" \in DOMAIN BodyOf(receipts[p])

SequenceChecked ==
    pc \in {"anchor", "completeness"} /\ ri # "FAIL" =>
        /\ \A p \in recorded : HasInt(SeqOf(p))
        /\ Gaps # {} => ri = "UNSUPPORTED_VERSION"

RangeChecked ==
    /\ pc = "completeness" /\ IsObj(anchor) /\ recorded # {}
    /\ ~HasRange(Members(anchor))
    => HasFatal(errors, "anchor_validity")

Handover == RecordedHaveSeq /\ SequenceChecked /\ RangeChecked

(* The receipt recorded by a step of the loop is an object with a seq.     *)
LEMMA RecordedStep ==
    ASSUME LoopTypeOK, RecordedHaveSeq, Layer1Next
    PROVE  RecordedHaveSeq'
<1>1. CASE CheckEnvelope
  <2>1. receipts' = receipts
    BY <1>1, EnvelopeStep DEF inputs
  <2>2. CASE RecordReceipt
    <3>1. /\ EnvelopeErrors(receipts[pos]) = {}
          /\ "seq" \in DOMAIN BodyOf(receipts[pos])
      BY <2>2 DEF RecordReceipt, Canonical, Screened, HasSeq, Envelope, Body
    <3>. QED  BY <2>1, <2>2, <3>1 DEF RecordReceipt, RecordedHaveSeq
  <2>3. CASE ~RecordReceipt
    <3>1. recorded' = recorded
      BY <1>1, <2>3
      DEF CheckEnvelope, RejectEnvelope, RejectBody, RejectFields,
          RejectUncanonical, RejectRepeated, RaiseOnReceipt
    <3>. QED  BY <2>1, <3>1 DEF RecordedHaveSeq
  <2>. QED  BY <2>2, <2>3
<1>2. CASE SkipSequence \/ CheckSequence \/ RaiseOnSequence
  BY <1>2 DEF SkipSequence, CheckSequence, RaiseOnSequence, Return, inputs,
              RecordedHaveSeq
<1>. QED  BY <1>1, <1>2 DEF Layer1Next

(* An empty set of receipts has no gaps.                                   *)
LEMMA NothingHasNoGaps == recorded = {} => Gaps = {}
BY DEF Gaps

(* Layer 1 ends with a checked sequence, or FAIL, or an exception.         *)
LEMMA SequenceStep ==
    ASSUME LoopTypeOK, LoopInv, Layer1Next
    PROVE  SequenceChecked'
<1>0. pc = "receipts" /\ ri \in {"INCONCLUSIVE", "FAIL", "UNSUPPORTED_VERSION"}
  BY Layer1InReceipts DEF LoopInv, LoopTypeOK, LayerStatus
<1>1. CASE CheckEnvelope
  <2>1. pc' \in {"receipts", "raised"}
    BY <1>0, <1>1, EnvelopeStep
  <2>. QED  BY <2>1 DEF SequenceChecked
<1>2. CASE RaiseOnSequence
  BY <1>2 DEF RaiseOnSequence, SequenceChecked
<1>3. CASE SkipSequence
  <2>1. recorded' = {} \/ ri' = "FAIL"
    BY <1>3 DEF SkipSequence, Return
  <2>2. recorded' = {} => Gaps' = {}
    BY DEF Gaps
  <2>. QED  BY <2>1, <2>2 DEF SequenceChecked
<1>4. CASE CheckSequence
  <2>1. receipts' = receipts /\ recorded' = recorded
    BY <1>4 DEF CheckSequence, Return, inputs
  <2>2. Gaps' = Gaps
    BY <2>1 DEF Gaps, Adjacent, Before, SeqOf
  <2>3. \A p \in recorded : HasInt(SeqOf(p))
    BY <1>4 DEF CheckSequence, SequenceRaises
  <2>4. Gaps # {} /\ ri' # "FAIL" => ri' = "UNSUPPORTED_VERSION"
    BY <1>0, <1>4 DEF CheckSequence, SequenceErrors, AfterFatal
  <2>. QED  BY <2>1, <2>2, <2>3, <2>4 DEF SequenceChecked, SeqOf
<1>. QED  BY <1>1, <1>2, <1>3, <1>4 DEF Layer1Next

(* Layer 2 reports an anchor whose range is no pair of numerals.           *)
LEMMA RangeIsReported ==
    ASSUME NEW a, ~HasRange(a)
    PROVE  AnchorErrors(a) # {}
<1>1. RootErrors(a) # {}
  BY DEF RootErrors
<1>. QED  BY <1>1 DEF AnchorErrors, ??

(* A step of layer 2 leaves a range it could not read as a fatal error.    *)
LEMMA RangeStep ==
    ASSUME CallOK, PhaseInv, VerifyAnchor
    PROVE  RangeChecked'
<1>. SUFFICES ASSUME IsObj(anchor), recorded # {}, pc' = "completeness",
                     ~HasRange(Members(anchor))
              PROVE  HasFatal(errors', "anchor_validity")
  BY AnchorStep DEF RangeChecked
<1>1. AnchorErrors(Members(anchor)) # {}
  BY RangeIsReported
<1>2. AnchorInvalid
  <2>1. anchor # Null
    BY DEF IsObj, Null
  <2>2. pc' # "raised"
    OBVIOUS
  <2>. QED  BY <1>1, <2>1, <2>2
            DEF VerifyAnchor, NoAnchor, AnchorNotObject, NothingToAnchor,
                AnchorAccepted, RaiseOnAnchor
<1>. QED  BY <1>1, <1>2, FatalAdded DEF AnchorInvalid, Layer2

(* Every step of verify() keeps what layer 1 and layer 2 hand over.        *)
LEMMA HandoverStep ==
    CallOK /\ PhaseInv /\ Handover /\ [Next]_vars => Handover'
<1>. SUFFICES ASSUME CallOK, PhaseInv, Handover, [Next]_vars
              PROVE  Handover'
  OBVIOUS
<1>0. UNCHANGED <<receipts, recorded>> => UNCHANGED Gaps /\ RecordedHaveSeq'
  BY DEF Handover, RecordedHaveSeq, Gaps, Adjacent, Before, SeqOf
<1>1. CASE RejectArguments
  <2>1. UNCHANGED <<receipts, recorded>> /\ pc' = "done"
    BY <1>1 DEF RejectArguments, inputs
  <2>. QED  BY <1>0, <2>1 DEF Handover, SequenceChecked, RangeChecked
<1>2. CASE Layer1
  <2>1. pc = "receipts" /\ Layer1Next
    BY <1>2, Layer1InReceipts DEF Layer1
  <2>2. LoopTypeOK /\ LoopInv
    BY <2>1, TypeRestricts DEF PhaseInv
  <2>3. pc' \in {"receipts", "anchor", "raised"}
    BY <2>1, <2>2, TypeStep DEF LoopTypeOK
  <2>4. RangeChecked'
    BY <2>3 DEF RangeChecked
  <2>. QED  BY <2>1, <2>2, <2>4, RecordedStep, SequenceStep DEF Handover
<1>3. CASE VerifyAnchor
  <2>1. UNCHANGED <<receipts, recorded, ri>> /\ pc = "anchor"
    BY <1>3, AnchorStep DEF inputs
  <2>2. SequenceChecked'
    BY <1>0, <2>1 DEF Handover, SequenceChecked, SeqOf
  <2>. QED  BY <1>0, <1>3, <2>1, <2>2, RangeStep DEF Handover
<1>4. CASE VerifyCompleteness
  <2>1. UNCHANGED <<receipts, recorded>> /\ pc' = "done"
    BY <1>4 DEF VerifyCompleteness, inputs
  <2>. QED  BY <1>0, <2>1 DEF Handover, SequenceChecked, RangeChecked
<1>5. CASE UNCHANGED vars
  BY <1>5 DEF vars, l1vars, Handover, RecordedHaveSeq, SequenceChecked,
              RangeChecked, Gaps, Adjacent, Before, SeqOf
<1>. QED  BY <1>1, <1>2, <1>3, <1>4, <1>5 DEF Next

(* The handover holds in every state of verify().                          *)
LEMMA HandoverInvariant == Spec => []Handover
<1>1. Init => Handover
  BY DEF Init, Layer1Init, Handover, RecordedHaveSeq, SequenceChecked,
         RangeChecked
<1>. QED  BY <1>1, HandoverStep, VerifierInvariant, PTL DEF Spec

-----------------------------------------------------------------------------
(* Recorded are positions of the input.                                    *)
LEMMA RecordedPositions ==
    ASSUME CallOK, NEW p \in recorded
    PROVE  p \in DOMAIN receipts /\ p \in Nat
<1>1. PICK n \in Nat : Len(receipts) = n /\ DOMAIN receipts = 1..n
  BY InputLength DEF CallOK
<1>. QED  BY <1>1 DEF CallOK

(* Recorded seqs that are numerals stand for integers.                     *)
LEMMA RecordedIntegers ==
    ASSUME CallOK, RecordedHaveSeq, NEW p \in recorded, HasInt(SeqOf(p))
    PROVE  p \in Nat /\ IntOf(SeqOf(p)) \in Int
<1>1. PICK n \in Nat : Len(receipts) = n /\ DOMAIN receipts = 1..n
  BY InputLength DEF CallOK
<1>2. p \in 1..n
  BY <1>1 DEF CallOK
<1>3. SeqDenotes(receipts[p])
  BY <1>1, <1>2 DEF CallOK, InputOK
<1>4. Get(BodyOf(receipts[p]), "seq") = SeqOf(p)
  BY DEF RecordedHaveSeq, Get, SeqOf
<1>. QED  BY <1>2, <1>3, <1>4 DEF RecordedHaveSeq, SeqDenotes

(* Where neighbours of the sorted sequence do not follow each other, a     *)
(* number is missing or occurs twice.                                      *)
LEMMA GapsAreGaps ==
    ASSUME CallOK, RecordedHaveSeq, \A p \in recorded : HasInt(SeqOf(p)),
           Gaps # {}
    PROVE  \/ \E n, m \in Numbers : n < m /\ n + 1 \notin Numbers
           \/ \E p, q \in recorded : p # q /\ IntOf(SeqOf(p)) = IntOf(SeqOf(q))
<1> DEFINE num(p) == IntOf(SeqOf(p))
<1>1. \A p \in recorded : p \in Nat /\ num(p) \in Int
  BY RecordedIntegers
<1>2. PICK p \in recorded, q \in recorded :
          Adjacent(p, q) /\ num(q) # num(p) + 1
  BY DEF Gaps
<1>3. CASE num(p) = num(q)
  BY <1>1, <1>2, <1>3 DEF Adjacent, Before
<1>4. CASE num(p) # num(q)
  <2>1. num(p) < num(q)
    BY <1>2, <1>4 DEF Adjacent, Before
  <2>2. ASSUME NEW r \in recorded, num(r) = num(p) + 1
        PROVE  FALSE
    <3>1. num(p) < num(r) /\ num(r) < num(q)
      BY <1>1, <1>2, <2>1, <2>2
    <3>. QED  BY <1>2, <3>1 DEF Adjacent, Before
  <2>. QED  BY <2>1, <2>2 DEF Numbers
<1>. QED  BY <1>3, <1>4

(* Where layer 3 says FAIL, layer 1 has reported why.                      *)
LEMMA FailStep ==
    /\ CallOK /\ PhaseInv /\ Handover /\ FatalForcesStatus
    /\ CompletenessFailExplained /\ [Next]_vars
    => CompletenessFailExplained'
<1>. SUFFICES ASSUME CallOK, PhaseInv, Handover, FatalForcesStatus,
                     CompletenessFailExplained, [Next]_vars,
                     completeness' = "FAIL"
              PROVE  CompletenessFailExplained'
  BY DEF CompletenessFailExplained
<1>1. CASE VerifyCompleteness
  <2>1. /\ UNCHANGED <<receipts, recorded, ri>> /\ pc = "completeness"
        /\ ri # "FAIL" /\ Gaps # {} /\ errors \subseteq errors'
    BY <1>1 DEF VerifyCompleteness, CompletenessStatus, inputs
  <2>2. /\ ri = "UNSUPPORTED_VERSION"
        /\ \A p \in recorded : HasInt(SeqOf(p))
    BY <2>1 DEF Handover, SequenceChecked
  <2>3. HasFatal(errors', "receipt_integrity")
    BY <2>1, <2>2 DEF FatalForcesStatus, FatalIffTerminal, HasFatal
  <2>4. UNCHANGED Numbers /\ \A p \in recorded : SeqOf(p)' = SeqOf(p)
    BY <2>1 DEF Numbers, SeqOf
  <2>5. \/ \E n, m \in Numbers : n < m /\ n + 1 \notin Numbers
        \/ \E p, q \in recorded :
              p # q /\ IntOf(SeqOf(p)) = IntOf(SeqOf(q))
    BY <2>1, <2>2, GapsAreGaps DEF Handover
  <2>. QED  BY <2>1, <2>2, <2>3, <2>4, <2>5
            DEF CompletenessFailExplained, SeqOf
<1>2. CASE RejectArguments \/ Layer1 \/ VerifyAnchor
  <2>1. pc # "done" /\ completeness' = completeness
    BY <1>2, Layer1InReceipts, AnchorStep DEF RejectArguments, Layer1
  <2>. QED  BY <2>1 DEF PhaseInv
<1>3. CASE UNCHANGED vars
  BY <1>3 DEF vars, l1vars, CompletenessFailExplained, Numbers, SeqOf
<1>. QED  BY <1>1, <1>2, <1>3 DEF Next

(* For every input, layer 3 says FAIL only of a sequence that lacks a      *)
(* number or repeats one, and only where layer 1 has said so with a fatal  *)
(* error.                                                                  *)
THEOREM FailExplained == Spec => []CompletenessFailExplained
<1>1. Init => CompletenessFailExplained
  BY DEF Init, CompletenessFailExplained
<1>. QED  BY <1>1, FailStep, VerifierInvariant, HandoverInvariant,
             FatalErrorsForceStatus, PTL DEF Spec

(* Where layer 3 is silent, layer 2 has reported why.                      *)
LEMMA SilenceStep ==
    /\ CallOK /\ PhaseInv /\ Handover
    /\ InconclusiveExplained /\ [Next]_vars
    => InconclusiveExplained'
<1>. SUFFICES ASSUME CallOK, PhaseInv, Handover,
                     InconclusiveExplained, [Next]_vars,
                     pc' = "done", arguments' = "well typed",
                     completeness' = "INCONCLUSIVE"
              PROVE  InconclusiveExplained'
  BY DEF InconclusiveExplained
<1>1. CASE VerifyCompleteness
  <2>0. /\ pc = "completeness" /\ completeness' = CompletenessStatus
        /\ errors' = errors \cup
              Warning("completeness", CompletenessWarnings(anchor))
    BY <1>1 DEF VerifyCompleteness
  <2>1. ASSUME CompletenessWarnings(anchor) # {}
        PROVE  \E e \in errors' : e.layer = "completeness"
    <3>1. PICK c \in CompletenessWarnings(anchor) : TRUE
      BY <2>1
    <3>2. [code |-> c, layer |-> "completeness", severity |-> "warning"]
            \in errors'
      BY <2>0, <3>1 DEF Warning
    <3>. QED  BY <3>2
  <2>2. ASSUME CompletenessWarnings(anchor) = {}
        PROVE  HasFatal(errors', "anchor_validity")
    <3>1. /\ recorded # {} /\ IsObj(anchor)
          /\ ~HasRange(Members(anchor))
      BY <2>0, <2>2 DEF CompletenessStatus, CompletenessWarnings
    <3>2. HasFatal(errors, "anchor_validity")
      BY <2>0, <3>1 DEF Handover, RangeChecked
    <3>. QED  BY <2>0, <3>2, WarningsDoNotCount
  <2>. QED  BY <2>1, <2>2 DEF InconclusiveExplained
<1>2. CASE RejectArguments
  BY <1>2 DEF RejectArguments
<1>3. CASE Layer1
  <2>1. pc' \in {"receipts", "anchor", "raised"}
    BY <1>3, Layer1InReceipts, TypeRestricts, TypeStep
    DEF Layer1, PhaseInv, LoopTypeOK
  <2>. QED  BY <2>1
<1>4. CASE VerifyAnchor
  BY <1>4, AnchorStep
<1>5. CASE UNCHANGED vars
  BY <1>5 DEF vars, l1vars, InconclusiveExplained
<1>. QED  BY <1>1, <1>2, <1>3, <1>4, <1>5 DEF Next

(* For every input, a result whose completeness is INCONCLUSIVE says why,  *)
(* in layer 3 or in layer 2.                                               *)
THEOREM SilenceExplained == Spec => []InconclusiveExplained
<1>1. Init => InconclusiveExplained
  BY DEF Init, Layer1Init, InconclusiveExplained
<1>. QED  BY <1>1, SilenceStep, VerifierInvariant, HandoverInvariant, PTL DEF Spec

-----------------------------------------------------------------------------
(* What a caller reads in the result once layer 1 is over.                 *)
ReturnedVerdict ==
    arguments = "well typed" /\ pc \in {"anchor", "completeness", "done"}
        => ri = Verdict(receipts, keys)

(* The later layers keep the verdict layer 1 returned.                     *)
LEMMA VerdictKept ==
    CallOK /\ PhaseInv /\ ReturnedVerdict /\ [Next]_vars => ReturnedVerdict'
<1>. SUFFICES ASSUME CallOK, PhaseInv, ReturnedVerdict, [Next]_vars
              PROVE  ReturnedVerdict'
  OBVIOUS
<1>1. CASE RejectArguments
  BY <1>1 DEF RejectArguments, ReturnedVerdict
<1>2. CASE Layer1
  <2>1. /\ pc = "receipts" /\ LoopTypeOK /\ LoopInv
        /\ [Layer1Next]_l1vars
    BY <1>2, Layer1InReceipts, TypeRestricts DEF Layer1, PhaseInv
  <2>2. VerdictGiven'
    BY <2>1, VerdictStep DEF VerdictGiven
  <2>3. pc' \in {"receipts", "anchor", "raised"}
    BY <2>1, TypeStep DEF LoopTypeOK
  <2>. QED  BY <2>2, <2>3 DEF VerdictGiven, ReturnedVerdict
<1>3. CASE VerifyAnchor \/ VerifyCompleteness
  <2>1. /\ pc \in {"anchor", "completeness"}
        /\ UNCHANGED <<receipts, keys, ri, arguments>>
    BY <1>3, AnchorStep DEF VerifyCompleteness, inputs
  <2>. QED  BY <2>1 DEF ReturnedVerdict
<1>4. CASE UNCHANGED vars
  BY <1>4 DEF vars, l1vars, ReturnedVerdict
<1>. QED  BY <1>1, <1>2, <1>3, <1>4 DEF Next

(* For every input, the receipt_integrity of the result that verify()      *)
(* returns is the verdict of ReceiptChain: no anchor and no later layer    *)
(* can turn what is not a whole chain of acceptable receipts into a PASS.  *)
THEOREM ResultIsVerdict == Spec => []ReturnedVerdict
<1>1. Init => ReturnedVerdict
  BY DEF Init, Layer1Init, ReturnedVerdict
<1>. QED  BY <1>1, VerdictKept, VerifierInvariant, PTL DEF Spec

-----------------------------------------------------------------------------
(* The later layers leave what layer 1 recorded as sound as it was.        *)
LEMMA SoundKept ==
    CallOK /\ PhaseInv /\ RecordedIsSound /\ [Next]_vars => RecordedIsSound'
<1>. SUFFICES ASSUME CallOK, PhaseInv, RecordedIsSound, [Next]_vars
              PROVE  RecordedIsSound'
  OBVIOUS
<1>1. CASE RejectArguments
  <2>1. recorded' = {}
    BY <1>1 DEF RejectArguments, PhaseInv
  <2>. QED  BY <2>1 DEF RecordedIsSound
<1>2. CASE Layer1
  <2>1. LoopTypeOK /\ LoopInv /\ [Layer1Next]_l1vars
    BY <1>2, Layer1InReceipts, TypeRestricts DEF Layer1, PhaseInv
  <2>. QED  BY <2>1, SoundStep
<1>3. CASE VerifyAnchor \/ VerifyCompleteness \/ UNCHANGED vars
  <2>1. UNCHANGED <<receipts, recorded, ri>>
    BY <1>3, AnchorStep DEF VerifyCompleteness, inputs, vars, l1vars
  <2>. QED  BY <2>1 DEF RecordedIsSound, SeqOf
<1>. QED  BY <1>1, <1>2, <1>3 DEF Next

(* For every input, layers 2 and 3 work on one receipt for each seq and,   *)
(* unless the result is UNSUPPORTED_VERSION, on validated fields only.     *)
THEOREM RecordedStaysSound == Spec => []RecordedIsSound
<1>1. Init => RecordedIsSound
  BY DEF Init, Layer1Init, RecordedIsSound
<1>. QED  BY <1>1, SoundKept, VerifierInvariant, PTL DEF Spec

-----------------------------------------------------------------------------
(* What layer 2 finds in an anchor proof depends on what layer 1 recorded  *)
(* alone, and an anchor proof it does not fail has no error.               *)
AnchorChecked ==
    /\ pc \in {"completeness", "done"} /\ arguments = "well typed"
    /\ IsObj(anchor) /\ recorded # {} /\ anchor_validity # "FAIL"
    => AnchorErrors(Members(anchor)) = {}

LEMMA AnchorErrorsKept ==
    ASSUME UNCHANGED <<receipts, recorded>>, NEW a
    PROVE  AnchorErrors(a)' = AnchorErrors(a)
<1>0. /\ \A p : SeqOf(p)' = SeqOf(p)
      /\ RecordedSeqs' = RecordedSeqs
  BY DEF SeqOf, RecordedSeqs
<1>1. Tenants' = Tenants
  BY <1>0 DEF Tenants, EnvelopesWithSeq
<1>2. Covered(a)' = Covered(a) /\ \A n : HashAt(n)' = HashAt(n)
  BY <1>0 DEF Covered, HashAt, ReceiptHash
<1>3. TenantErrors(a)' = TenantErrors(a)
  BY <1>1 DEF TenantErrors
<1>4. OrderedHashes(a)' = OrderedHashes(a)
  BY <1>2 DEF OrderedHashes
<1>5. RootErrors(a)' = RootErrors(a)
  BY <1>2, <1>4 DEF RootErrors
<1>6. ProofListErrors(a)' = ProofListErrors(a)
  BY <1>2 DEF ProofListErrors
<1>. QED  BY <1>3, <1>5, <1>6 DEF AnchorErrors

LEMMA AnchorCheckedStep ==
    CallOK /\ PhaseInv /\ AnchorChecked /\ [Next]_vars => AnchorChecked'
<1>. SUFFICES ASSUME CallOK, PhaseInv, AnchorChecked, [Next]_vars
              PROVE  AnchorChecked'
  OBVIOUS
<1>1. CASE RejectArguments
  BY <1>1 DEF RejectArguments, AnchorChecked
<1>2. CASE Layer1
  <2>1. pc = "receipts" /\ LoopTypeOK /\ [Layer1Next]_l1vars
    BY <1>2, Layer1InReceipts, TypeRestricts DEF Layer1
  <2>2. pc' \in {"receipts", "anchor", "raised"}
    BY <2>1, TypeStep DEF LoopTypeOK
  <2>. QED  BY <2>2 DEF AnchorChecked
<1>3. CASE VerifyAnchor
  <2>1. UNCHANGED <<receipts, recorded, anchor>>
    BY <1>3, AnchorStep DEF inputs
  <2>2. AnchorErrors(Members(anchor))' = AnchorErrors(Members(anchor))
    BY <2>1, AnchorErrorsKept
  <2>3. CASE AnchorAccepted
    BY <2>1, <2>2, <2>3 DEF AnchorAccepted, AnchorChecked
  <2>4. CASE NoAnchor \/ AnchorNotObject \/ NothingToAnchor
    <3>1. ~IsObj(Null)
      BY DEF IsObj, Null
    <3>2. ~IsObj(anchor) \/ recorded = {}
      BY <2>4, <3>1 DEF NoAnchor, AnchorNotObject, NothingToAnchor
    <3>. QED  BY <2>1, <3>2 DEF AnchorChecked
  <2>5. CASE AnchorInvalid \/ RaiseOnAnchor
    BY <2>5 DEF AnchorInvalid, RaiseOnAnchor, Layer2, AnchorChecked
  <2>. QED  BY <1>3, <2>3, <2>4, <2>5 DEF VerifyAnchor
<1>4. CASE VerifyCompleteness \/ UNCHANGED vars
  <2>1. UNCHANGED <<receipts, recorded, anchor, arguments, anchor_validity>>
        /\ (pc' \in {"completeness", "done"} => pc \in {"completeness", "done"})
    BY <1>4 DEF VerifyCompleteness, vars, l1vars, inputs
  <2>2. AnchorErrors(Members(anchor))' = AnchorErrors(Members(anchor))
    BY <2>1, AnchorErrorsKept
  <2>. QED  BY <2>1, <2>2 DEF AnchorChecked
<1>. QED  BY <1>1, <1>2, <1>3, <1>4 DEF Next

(* Layer 2's check holds in every state of verify().                       *)
LEMMA AnchorCheckedInvariant == Spec => []AnchorChecked
<1>1. Init => AnchorChecked
  BY DEF Init, Layer1Init, AnchorChecked
<1>. QED  BY <1>1, AnchorCheckedStep, VerifierInvariant, PTL DEF Spec

-----------------------------------------------------------------------------
(* The numbers of a set in their order: below each there are a number of   *)
(* its own of them, and each count below the size of the set occurs.       *)
Below(C, n) == {m \in C : m < n}

LEMMA Ranks ==
    ASSUME NEW C, C \subseteq Int, IsFiniteSet(C)
    PROVE  /\ Cardinality(C) \in Nat
           /\ \A n \in C : Cardinality(Below(C, n)) + 1 \in 1..Cardinality(C)
           /\ \A n, m \in C : n < m => Cardinality(Below(C, n)) # Cardinality(Below(C, m))
           /\ \A i \in 1..Cardinality(C) :
                 \E n \in C : Cardinality(Below(C, n)) = i - 1
<1> DEFINE size    == Cardinality(C)
           rank(n) == Cardinality(Below(C, n))
<1>1. size \in Nat
  BY FS_CardinalityType
<1>2. ASSUME NEW n \in C
      PROVE  /\ IsFiniteSet(Below(C, n)) /\ rank(n) \in Nat /\ rank(n) < size
  <2>1. Below(C, n) \in SUBSET C /\ Below(C, n) # C
    BY DEF Below
  <2>2. IsFiniteSet(Below(C, n)) /\ rank(n) <= size /\ rank(n) # size
    BY <2>1, FS_Subset
  <2>. QED  BY <1>1, <2>2, FS_CardinalityType
<1>3. ASSUME NEW n \in C, NEW m \in C, n < m
      PROVE  rank(n) # rank(m)
  <2>0. n \in Int /\ m \in Int /\ \A x \in C : x \in Int
    OBVIOUS
  <2>1. Below(C, n) \in SUBSET Below(C, m) /\ n \in Below(C, m) /\ n \notin Below(C, n)
    <3>1. \A x \in C : x < n => x < m
      BY <1>3, <2>0
    <3>2. Below(C, n) \subseteq Below(C, m)
      BY <3>1 DEF Below
    <3>3. n \in Below(C, m) /\ ~(n < n)
      BY <1>3, <2>0 DEF Below
    <3>. QED  BY <3>2, <3>3 DEF Below
  <2>2. IsFiniteSet(Below(C, m))
    BY <1>2
  <2>. QED  BY <2>1, <2>2, FS_Subset
<1>4. ASSUME NEW i \in 1..size
      PROVE  \E n \in C : rank(n) = i - 1
  <2> DEFINE f == [n \in C |-> rank(n)]
  <2>1. f \in [C -> 0..size - 1]
    BY <1>1, <1>2
  <2>2. f \in Injection(C, 0..size - 1)
    <3>1. \A n, m \in C : n # m => n < m \/ m < n
      OBVIOUS
    <3>2. \A n, m \in C : f[n] = f[m] => n = m
      BY <1>3, <3>1
    <3> HIDE DEF f
    <3>. QED  BY <2>1, <3>2 DEF Injection, IsInjective
  <2>3. IsFiniteSet(0..size - 1) /\ Cardinality(0..size - 1) = size
    <3> HIDE DEF size
    <3>1. size - 1 \in Int /\ 0 \in Int
      BY <1>1
    <3>2. /\ IsFiniteSet(0..size - 1)
          /\ Cardinality(0..size - 1) = IF 0 > size - 1 THEN 0 ELSE size - 1 - 0 + 1
      BY <3>1, FS_Interval
    <3>. QED  BY <1>1, <3>2
  <2>4. f \in Surjection(C, 0..size - 1)
    BY <2>2, <2>3, FS_Injection
  <2>5. i - 1 \in 0..size - 1
    BY <1>1
  <2>6. PICK n \in C : f[n] = i - 1
    <3> HIDE DEF f
    <3>. QED  BY <2>4, <2>5 DEF Surjection
  <2>. QED  BY <2>6
<1>. QED  BY <1>1, <1>2, <1>3, <1>4

(* The hashes that layer 2 recomputes the root from: those of the recorded *)
(* receipts of the range, in the order of their numbers.                   *)
LEMMA OrderedHashesAre ==
    ASSUME NEW a, IsFiniteSet(Covered(a)), Covered(a) \subseteq Int
    PROVE  LET C == Covered(a)
           IN  /\ IsSeq(OrderedHashes(a)) /\ Len(OrderedHashes(a)) = Cardinality(C)
               /\ Cardinality(C) \in Nat /\ (C # {} => Cardinality(C) > 0)
               /\ \A i \in 1..Cardinality(C) :
                     \E n \in C : /\ Cardinality(Below(C, n)) = i - 1
                                   /\ OrderedHashes(a)[i] = HashAt(n)
<1> DEFINE C == Covered(a)
           ith(i) == CHOOSE n \in C : Cardinality({m \in C : m < n}) = i - 1
<1>1. OrderedHashes(a) = [i \in 1..Cardinality(C) |-> HashAt(ith(i))]
  BY DEF OrderedHashes
<1>2. Cardinality(C) \in Nat /\ (C # {} => Cardinality(C) > 0)
  BY FS_CardinalityType, FS_EmptySet
<1>3. ASSUME NEW i \in 1..Cardinality(C)
      PROVE  ith(i) \in C /\ Cardinality(Below(C, ith(i))) = i - 1
  <2>1. \E n \in C : Cardinality({m \in C : m < n}) = i - 1
    <3>1. \A j \in 1..Cardinality(C) : \E n \in C : Cardinality(Below(C, n)) = j - 1
      BY Ranks
    <3>. QED  BY <3>1 DEF Below
  <2>. QED  BY <2>1 DEF Below
<1> HIDE DEF ith, C
<1>4. IsSeq(OrderedHashes(a)) /\ Len(OrderedHashes(a)) = Cardinality(C)
  BY <1>1, <1>2, SeqOfLength
<1>. QED  BY <1>1, <1>2, <1>3, <1>4 DEF C

(* The receipt behind a hash of the range.                                 *)
LEMMA HashOfCovered ==
    ASSUME NEW a, NEW n \in Covered(a)
    PROVE  \E p \in recorded : SeqOf(p) = Decimal(n) /\ HashAt(n) = ReceiptHash(p)
<1>1. \E p \in recorded : SeqOf(p) = Decimal(n)
  BY DEF Covered
<1>. QED  BY <1>1 DEF HashAt

(* An anchor proof without an error has a range and the root of it.        *)
LEMMA NoAnchorErrors ==
    ASSUME NEW a, AnchorErrors(a) = {}
    PROVE  /\ HasRange(a) /\ Covered(a) # {}
           /\ compute_batch_root(OrderedHashes(a)) = BatchRoot(a)
           /\ ProofListErrors(a) = {} /\ FirstProofErrors(a) = {}
<1>1. RootErrors(a) = {} /\ ProofListErrors(a) = {} /\ FirstProofErrors(a) = {}
  BY DEF AnchorErrors, ??
<1>. QED  BY <1>1 DEF RootErrors

-----------------------------------------------------------------------------
(* Different numbers of the range have receipts of different hashes.       *)
LEMMA HashesDiffer ==
    ASSUME NEW a, NEW n \in Covered(a), NEW m \in Covered(a),
           HashAt(n) = HashAt(m)
    PROVE  n = m
<1>1. PICK p \in recorded : SeqOf(p) = Decimal(n) /\ HashAt(n) = ReceiptHash(p)
  BY HashOfCovered
<1>2. PICK q \in recorded : SeqOf(q) = Decimal(m) /\ HashAt(m) = ReceiptHash(q)
  BY HashOfCovered
<1>3. BodyOf(receipts[p]) = BodyOf(receipts[q])
  <2>1. HashOf(BodyOf(receipts[p])) = HashOf(BodyOf(receipts[q]))
    BY <1>1, <1>2 DEF ReceiptHash
  <2>2. \A x : HashOf(x)[3] = x
    BY DEF HashOf
  <2>. QED  BY <2>1, <2>2
<1>. QED  BY <1>1, <1>2, <1>3 DEF SeqOf, Decimal

(* A receipt's hash is a text without anything to strip.                   *)
LEMMA HashIsPlain ==
    ASSUME NEW a, NEW n \in Covered(a)
    PROVE  StripPrefix(HashAt(n)) = HashAt(n) /\ HashAt(n) # Null
<1>1. PICK p \in recorded : HashAt(n) = ReceiptHash(p)
  BY HashOfCovered
<1>2. \A body : StripPrefix(HashOf(body)) = HashOf(body) /\ HashOf(body) # Null
  BY DEF StripPrefix, HashOf, Null, IsText, IsStr
<1>. QED  BY <1>1, <1>2 DEF ReceiptHash

(* The loop over the proofs reports the first faulty one, so where it      *)
(* reports nothing none is.                                                *)
LEMMA NoFaultyProof ==
    ASSUME NEW a, FirstProofErrors(a) = {}, DOMAIN Items(Proofs(a)) \subseteq Nat,
           NEW i \in DOMAIN Items(Proofs(a))
    PROVE  ProofErrors(Items(Proofs(a))[i], a) = {}
<1> DEFINE proofs == Items(Proofs(a))
           faulty == {j \in DOMAIN proofs : ProofErrors(proofs[j], a) # {}}
<1>1. SUFFICES ASSUME faulty # {} PROVE FALSE
  OBVIOUS
<1>2. ProofErrors(proofs[Min(faulty)], a) = {}
  BY <1>1 DEF FirstProofErrors
<1>3. \E j \in faulty : \A k \in faulty : j <= k
  <2>1. faulty \subseteq Nat
    OBVIOUS
  <2> HIDE DEF faulty
  <2>. QED  BY <1>1, <2>1, LeastNat
<1>4. Min(faulty) \in faulty
  <2> HIDE DEF faulty
  <2>. QED  BY <1>3 DEF Min
<1>. QED  BY <1>2, <1>4

(* Each receipt of the range has an accepted proof in the list.            *)
LEMMA CoveredIsProven ==
    ASSUME NEW a, AnchorErrors(a) = {}, NEW n \in Covered(a),
           IsList(Proofs(a)) => DOMAIN Items(Proofs(a)) \subseteq Nat
    PROVE  \E i \in DOMAIN Items(Proofs(a)) :
              LET proof == Members(Items(Proofs(a))[i])
              IN  /\ proof["receipt_hash"] = HashAt(n)
                  /\ IntOf(LeafIndex(proof)) \in 0..BatchSize(a) - 1
                  /\ verify_merkle_proof(HashAt(n), IntOf(LeafIndex(proof)),
                                         Items(proof["merkle_path"]),
                                         BatchRoot(a), BatchSize(a))
<1> DEFINE proofs == Items(Proofs(a))
<1>1. ProofListErrors(a) = {} /\ FirstProofErrors(a) = {}
  BY NoAnchorErrors
<1>2. IsList(Proofs(a)) /\ HashAt(n) \in ProofHashes(proofs)
  BY <1>1 DEF ProofListErrors
<1>3. PICK i \in DOMAIN proofs :
          IsObj(proofs[i]) /\ Get(Members(proofs[i]), "receipt_hash") = HashAt(n)
  BY <1>2 DEF ProofHashes
<1>4. /\ Members(proofs[i])["receipt_hash"] = HashAt(n)
      /\ GetOr(Members(proofs[i]), "receipt_hash", Empty) = HashAt(n)
  BY <1>3, HashIsPlain DEF Get, GetOr
<1>5. ProofErrors(proofs[i], a) = {}
  BY <1>1, <1>2, NoFaultyProof
<1>6. WellFormedProof(proofs[i], BatchSize(a))
  BY <1>5 DEF ProofErrors
<1>7. verify_merkle_proof(HashAt(n), IntOf(LeafIndex(Members(proofs[i]))),
                          Items(Members(proofs[i])["merkle_path"]),
                          BatchRoot(a), BatchSize(a))
  BY <1>4, <1>5, <1>6 DEF ProofErrors
<1>8. IntOf(LeafIndex(Members(proofs[i]))) \in 0..BatchSize(a) - 1
  BY <1>6 DEF WellFormedProof
<1>. QED  BY <1>4, <1>7, <1>8

(* In an interval a number's rank is its distance from the start.          *)
LEMMA RankInInterval ==
    ASSUME NEW a \in Int, NEW b \in Int, NEW n \in a..b
    PROVE  Cardinality(Below(a..b, n)) = n - a
<1>1. n \in Int /\ n - 1 \in Int /\ a <= n /\ n <= b
  OBVIOUS
<1>2. Below(a..b, n) = a..n - 1
  <2>1. ASSUME NEW x PROVE x \in Below(a..b, n) <=> x \in a..n - 1
    BY <1>1 DEF Below
  <2>. QED  BY <2>1
<1>3. Cardinality(a..n - 1) = IF a > n - 1 THEN 0 ELSE (n - 1) - a + 1
  BY <1>1, FS_Interval
<1>. QED  BY <1>1, <1>2, <1>3

(* The root that layer 2 recomputes and the proofs it accepts leave no     *)
(* room: the disclosed receipts of the range are as many as the range has  *)
(* numbers, and the i-th of them has a proof for the i-th leaf.            *)
LEMMA ProofsFillRange ==
    ASSUME NEW a, AnchorErrors(a) = {},
           IntOf(RangeStart(a)) \in Int, IntOf(RangeEnd(a)) \in Int,
           IsList(Proofs(a)) => DOMAIN Items(Proofs(a)) \subseteq Nat
    PROVE  /\ Covered(a) = AnchorRange(a)
           /\ \A n \in Covered(a) :
                \E i \in DOMAIN Items(Proofs(a)) :
                   LET proof == Members(Items(Proofs(a))[i])
                   IN  /\ proof["receipt_hash"] = HashAt(n)
                       /\ IntOf(LeafIndex(proof))
                            = n - IntOf(RangeStart(a))
<1> DEFINE start == IntOf(RangeStart(a))
           end   == IntOf(RangeEnd(a))
           C     == Covered(a)
           s     == OrderedHashes(a)
           size  == BatchSize(a)
           proof(i)   == Members(Items(Proofs(a))[i])
           shows(i, hash) ==
               /\ proof(i)["receipt_hash"] = hash
               /\ IntOf(LeafIndex(proof(i))) \in 0..size - 1
               /\ verify_merkle_proof(hash, IntOf(LeafIndex(proof(i))),
                                      Items(proof(i)["merkle_path"]),
                                      BatchRoot(a), size)
<1>1. /\ C # {} /\ compute_batch_root(s) = BatchRoot(a)
  BY NoAnchorErrors
<1>2. /\ AnchorRange(a) = start..end /\ IsFiniteSet(start..end)
      /\ Cardinality(start..end) = IF start > end THEN 0 ELSE end - start + 1
      /\ size = end - start + 1
  BY FS_Interval DEF AnchorRange, BatchSize
<1>3. /\ C \in SUBSET (start..end) /\ C \subseteq Int
      /\ IsFiniteSet(C) /\ Cardinality(C) <= Cardinality(start..end)
  <2>1. C \in SUBSET (start..end)
    BY <1>2 DEF Covered
  <2>. QED  BY <1>2, <2>1, FS_Subset
<1>4. start <= end /\ size \in Nat \ {0} /\ Cardinality(start..end) = size
  <2>1. PICK n \in start..end : TRUE
    BY <1>1, <1>3
  <2>2. start <= end
    BY <2>1
  <2> HIDE DEF size
  <2>. QED  BY <1>2, <2>2
<1>5. /\ IsSeq(s) /\ Len(s) = Cardinality(C) /\ Len(s) \in Nat /\ Len(s) > 0
      /\ DOMAIN s = 1..Len(s)
      /\ \A m \in 1..Len(s) :
            \E n \in C : Cardinality(Below(C, n)) = m - 1 /\ s[m] = HashAt(n)
  BY <1>1, <1>3, OrderedHashesAre, SeqDomain
<1>6. Distinct(s)
  <2>. SUFFICES ASSUME NEW x \in DOMAIN s, NEW y \in DOMAIN s, s[x] = s[y]
                PROVE  x = y
    BY DEF Distinct
  <2>1. PICK n \in C : Cardinality(Below(C, n)) = x - 1 /\ s[x] = HashAt(n)
    BY <1>5
  <2>2. PICK m \in C : Cardinality(Below(C, m)) = y - 1 /\ s[y] = HashAt(m)
    BY <1>5
  <2>3. n = m
    BY <2>1, <2>2, HashesDiffer
  <2>. QED  BY <1>5, <2>1, <2>2, <2>3
<1>7. \A n \in C : \E i \in DOMAIN Items(Proofs(a)) : shows(i, HashAt(n))
  BY CoveredIsProven
<1> HIDE DEF start, end, C, s, size, proof, shows
<1> DEFINE R == [m \in DOMAIN s |->
                    CHOOSE i \in DOMAIN Items(Proofs(a)) : shows(i, s[m])]
           X == [m \in DOMAIN s |-> IntOf(LeafIndex(proof(R[m])))]
           P == [m \in DOMAIN s |-> Items(proof(R[m])["merkle_path"])]
<1>8. \A m \in DOMAIN s : R[m] \in DOMAIN Items(Proofs(a)) /\ shows(R[m], s[m])
  <2>. SUFFICES ASSUME NEW m \in DOMAIN s
                PROVE  \E i \in DOMAIN Items(Proofs(a)) : shows(i, s[m])
    OBVIOUS
  <2>. QED  BY <1>5, <1>7
<1>9. \A m \in DOMAIN s : StripPrefix(s[m]) = s[m]
  <2>1. \A n \in C : StripPrefix(HashAt(n)) = HashAt(n)
    BY HashIsPlain DEF C
  <2>. QED  BY <1>5, <2>1
<1>10. \A m \in DOMAIN s :
          verify_merkle_proof(s[m], X[m], P[m], compute_batch_root(s), size)
  BY <1>1, <1>8 DEF shows
<1>11. \A m \in DOMAIN s : X[m] = IntOf(LeafIndex(proof(R[m])))
  OBVIOUS
<1> HIDE DEF R, X, P
<1>12. size = Len(s) /\ \A m \in DOMAIN s : X[m] = m - 1
  <2>1. AllAccepted(s, size, s, X, P)
    BY <1>9, <1>10 DEF AllAccepted
  <2>. QED  BY <1>4, <1>5, <1>6, <2>1, ProofsBindPlaces
<1>13. C = start..end
  BY <1>2, <1>3, <1>4, <1>5, <1>12, FS_Subset
<1>14. ASSUME NEW n \in C
       PROVE  \E i \in DOMAIN Items(Proofs(a)) :
                 /\ proof(i)["receipt_hash"] = HashAt(n)
                 /\ IntOf(LeafIndex(proof(i))) = n - start
  <2>0. start \in Int /\ end \in Int /\ n \in Int
    BY <1>3 DEF start, end
  <2>1. Cardinality(Below(C, n)) = n - start
    BY <1>13, <2>0, RankInInterval
  <2> DEFINE m == n - start + 1
  <2>2. m \in DOMAIN s /\ m - 1 = n - start
    <3>1. start <= n /\ n <= end /\ size = end - start + 1
      BY <1>2, <1>13, <2>0
    <3>. QED  BY <1>5, <1>12, <2>0, <3>1
  <2> HIDE DEF m
  <2>3. PICK k \in C : Cardinality(Below(C, k)) = m - 1 /\ s[m] = HashAt(k)
    BY <1>5, <2>2
  <2>4. k = n
    <3>1. Cardinality(Below(C, k)) = k - start /\ k \in Int
      BY <1>3, <1>13, <2>0, RankInInterval
    <3>. QED  BY <2>0, <2>2, <2>3, <3>1
  <2>5. shows(R[m], HashAt(n)) /\ R[m] \in DOMAIN Items(Proofs(a))
    BY <1>8, <2>2, <2>3, <2>4
  <2>6. IntOf(LeafIndex(proof(R[m]))) = n - start
    BY <1>11, <1>12, <2>2
  <2>. QED  BY <2>5, <2>6 DEF shows
<1>. QED  BY <1>2, <1>13, <1>14 DEF C, start, end, proof

(* For every input, an anchor proof that layer 2 accepts for recorded      *)
(* receipts binds its whole range: a receipt is recorded for every number  *)
(* of it, and the proof of each is for the leaf its number says, although  *)
(* batch_size is not read from the proof and one accepted proof alone may  *)
(* claim a wrong size and index (verify.py:489-645).                       *)
THEOREM AnchorBinds == Spec => []AnchorBindsRange
<1>1. PhaseInv /\ AnchorChecked /\ TypeOK => AnchorBindsRange
  <2>. SUFFICES ASSUME PhaseInv, AnchorChecked, TypeOK, AnchorStands
                PROVE  \A n \in AnchorRange(Members(anchor)) :
                         /\ Decimal(n) \in RecordedSeqs
                         /\ \E i \in DOMAIN Items(Proofs(Members(anchor))) :
                               LET proof == Members(Items(Proofs(Members(anchor)))[i])
                               IN  /\ proof["receipt_hash"] = HashAt(n)
                                   /\ IntOf(LeafIndex(proof))
                                        = n - IntOf(RangeStart(Members(anchor)))
    BY DEF AnchorBindsRange
  <2>1. /\ pc \in {"completeness", "done"} /\ IsObj(anchor)
        /\ recorded # {} /\ anchor_validity # "FAIL"
    BY DEF AnchorStands
  <2>2. arguments = "well typed"
    BY <2>1 DEF PhaseInv
  <2>3. AnchorErrors(Members(anchor)) = {}
    BY <2>1, <2>2 DEF AnchorChecked
  <2>4. AnchorDenotes(anchor)
    BY AnchorsAssumption DEF TypeOK
  <2>5. /\ IntOf(RangeStart(Members(anchor))) \in Int
        /\ IntOf(RangeEnd(Members(anchor))) \in Int
        /\ IsList(Proofs(Members(anchor))) =>
              DOMAIN Items(Proofs(Members(anchor))) \subseteq Nat
    BY <2>1, <2>3, <2>4, NoAnchorErrors DEF AnchorDenotes
  <2> DEFINE a == Members(anchor)
  <2>6. /\ Covered(a) = AnchorRange(a)
        /\ \A n \in Covered(a) :
             \E i \in DOMAIN Items(Proofs(a)) :
                LET proof == Members(Items(Proofs(a))[i])
                IN  /\ proof["receipt_hash"] = HashAt(n)
                    /\ IntOf(LeafIndex(proof)) = n - IntOf(RangeStart(a))
    BY <2>3, <2>5, ProofsFillRange
  <2>7. \A n \in Covered(a) : Decimal(n) \in RecordedSeqs
    BY DEF Covered, RecordedSeqs
  <2>. QED  BY <2>6, <2>7
<1>. QED  BY <1>1, VerifierInvariant, AnchorCheckedInvariant,
             VerifierTypeCorrect, PTL

-----------------------------------------------------------------------------
(* Layer 2 fails an anchor proof only for an error it found in it, and     *)
(* never a call without one.                                               *)
AnchorRefused ==
    /\ pc \in {"completeness", "done"} /\ arguments = "well typed"
    /\ anchor_validity = "FAIL"
    => /\ anchor # Null
       /\ IsObj(anchor) => recorded # {} /\ AnchorErrors(Members(anchor)) # {}

LEMMA AnchorRefusedStep ==
    CallOK /\ PhaseInv /\ AnchorRefused /\ [Next]_vars => AnchorRefused'
<1>. SUFFICES ASSUME CallOK, PhaseInv, AnchorRefused, [Next]_vars
              PROVE  AnchorRefused'
  OBVIOUS
<1>1. CASE RejectArguments
  BY <1>1 DEF RejectArguments, AnchorRefused
<1>2. CASE Layer1
  <2>1. pc = "receipts" /\ LoopTypeOK /\ [Layer1Next]_l1vars
    BY <1>2, Layer1InReceipts, TypeRestricts DEF Layer1
  <2>2. pc' \in {"receipts", "anchor", "raised"}
    BY <2>1, TypeStep DEF LoopTypeOK
  <2>. QED  BY <2>2 DEF AnchorRefused
<1>3. CASE VerifyAnchor
  <2>1. UNCHANGED <<receipts, recorded, anchor>>
    BY <1>3, AnchorStep DEF inputs
  <2>2. AnchorErrors(Members(anchor))' = AnchorErrors(Members(anchor))
    BY <2>1, AnchorErrorsKept
  <2>3. CASE AnchorInvalid
    <3>1. IsObj(anchor) /\ recorded # {} /\ AnchorErrors(Members(anchor)) # {}
      BY <2>3 DEF AnchorInvalid
    <3>2. anchor # Null
      BY <3>1 DEF IsObj, Null
    <3>. QED  BY <2>1, <2>2, <3>1, <3>2 DEF AnchorRefused
  <2>4. CASE AnchorNotObject
    BY <2>1, <2>4 DEF AnchorNotObject, AnchorRefused
  <2>5. CASE NoAnchor \/ NothingToAnchor \/ AnchorAccepted \/ RaiseOnAnchor
    <3>1. anchor_validity' # "FAIL" \/ pc' = "raised"
      BY <2>5 DEF NoAnchor, NothingToAnchor, AnchorAccepted, RaiseOnAnchor,
                  Layer2, PhaseInv
    <3>. QED  BY <3>1 DEF AnchorRefused
  <2>. QED  BY <1>3, <2>3, <2>4, <2>5 DEF VerifyAnchor
<1>4. CASE VerifyCompleteness \/ UNCHANGED vars
  <2>1. UNCHANGED <<receipts, recorded, anchor, arguments, anchor_validity>>
        /\ (pc' \in {"completeness", "done"} => pc \in {"completeness", "done"})
    BY <1>4 DEF VerifyCompleteness, vars, l1vars, inputs
  <2>2. AnchorErrors(Members(anchor))' = AnchorErrors(Members(anchor))
    BY <2>1, AnchorErrorsKept
  <2>. QED  BY <2>1, <2>2 DEF AnchorRefused
<1>. QED  BY <1>1, <1>2, <1>3, <1>4 DEF Next

-----------------------------------------------------------------------------
(* A PASS leaves no receipt out of what the later layers are given.        *)
PassRecordsAll ==
    arguments = "well typed" /\ pc \in {"anchor", "completeness", "done"}
      /\ ri = "PASS"
    => recorded = DOMAIN receipts

LEMMA PassRecordsStep ==
    CallOK /\ PhaseInv /\ PassRecordsAll /\ [Next]_vars => PassRecordsAll'
<1>. SUFFICES ASSUME CallOK, PhaseInv, PassRecordsAll, [Next]_vars
              PROVE  PassRecordsAll'
  OBVIOUS
<1>1. CASE RejectArguments
  BY <1>1 DEF RejectArguments, PassRecordsAll
<1>2. CASE Layer1
  <2>1. /\ pc = "receipts" /\ LoopTypeOK /\ LoopInv /\ Layer1Next
    BY <1>2, Layer1InReceipts, TypeRestricts DEF Layer1, PhaseInv
  <2>2. CASE CheckEnvelope
    <3>1. pc' \in {"receipts", "raised"}
      BY <2>1, <2>2, EnvelopeStep DEF InLoop
    <3>. QED  BY <3>1 DEF PassRecordsAll
  <2>3. CASE SkipSequence
    BY <2>1, <2>3 DEF SkipSequence, LoopInv, PassRecordsAll
  <2>4. CASE CheckSequence
    <3>. SUFFICES ASSUME ri' = "PASS" PROVE recorded' = DOMAIN receipts'
      BY DEF PassRecordsAll
    <3>1. ri = "INCONCLUSIVE"
      BY <2>1, <2>4 DEF CheckSequence, AfterFatal, LoopInv, LoopTypeOK, LayerStatus
    <3>2. recorded = 1..pos - 1
      BY <2>1, <3>1 DEF LoopInv
    <3>3. PICK n \in Nat : Len(receipts) = n /\ DOMAIN receipts = 1..n
      BY <2>1, InputLength DEF LoopTypeOK
    <3>4. pos - 1 = n
      BY <2>1, <2>4, <3>3 DEF CheckSequence, LoopDone, LoopTypeOK
    <3>5. UNCHANGED <<recorded, receipts>>
      BY <2>4 DEF CheckSequence, Return, inputs
    <3>. QED  BY <3>2, <3>3, <3>4, <3>5
  <2>5. CASE RaiseOnSequence
    BY <2>5 DEF RaiseOnSequence, PassRecordsAll
  <2>. QED  BY <2>1, <2>2, <2>3, <2>4, <2>5 DEF Layer1Next
<1>3. CASE VerifyAnchor \/ VerifyCompleteness
  <2>1. /\ pc \in {"anchor", "completeness"}
        /\ UNCHANGED <<receipts, recorded, ri, arguments>>
    BY <1>3, AnchorStep DEF VerifyCompleteness, inputs
  <2>. QED  BY <2>1 DEF PassRecordsAll
<1>4. CASE UNCHANGED vars
  BY <1>4 DEF vars, l1vars, inputs, PassRecordsAll
<1>. QED  BY <1>1, <1>2, <1>3, <1>4 DEF Next

-----------------------------------------------------------------------------
(* All of it as one inductive invariant of the steps of verify(), for the  *)
(* modules whose programs call it.                                         *)
VerifierInv ==
    /\ CallOK /\ PhaseInv /\ Handover
    /\ FatalForcesStatus /\ CompletenessFailExplained
    /\ InconclusiveExplained /\ ReturnedVerdict /\ RecordedIsSound
    /\ AnchorChecked /\ AnchorRefused /\ PassRecordsAll

LEMMA VerifierInvStep == VerifierInv /\ [Next]_vars => VerifierInv'
BY VerifierTypeStep, HandoverStep, ForcesStep, FailStep, SilenceStep,
   VerdictKept, SoundKept, AnchorCheckedStep, AnchorRefusedStep, PassRecordsStep
   DEF VerifierInv

(* A call begins with the fields of a new VerificationResult.              *)
Fresh ==
    /\ pc = "receipts" /\ pos = 1 /\ recorded = {}
    /\ ri = "INCONCLUSIVE" /\ errors = {}
    /\ anchor_validity = "INCONCLUSIVE" /\ completeness = "INCONCLUSIVE"

LEMMA FreshCall ==
    InputOK /\ Fresh /\ arguments \in Arguments => VerifierInv
<1>. SUFFICES ASSUME InputOK, Fresh, arguments \in Arguments
              PROVE  VerifierInv
  OBVIOUS
<1>1. CallOK
  <2>1. PICK n \in Nat : Len(receipts) = n
    BY InputLength
  <2>. QED  BY <2>1 DEF CallOK, Fresh, Phases, LayerStatus
<1>2. PhaseInv
  BY DEF PhaseInv, LoopInv, Fresh
<1>3. Handover
  BY DEF Handover, RecordedHaveSeq, SequenceChecked, RangeChecked, Fresh
<1>4. FatalForcesStatus
  BY DEF FatalForcesStatus, FatalIffTerminal, HasFatal, Fresh
<1>. QED  BY <1>1, <1>2, <1>3, <1>4
          DEF VerifierInv, CompletenessFailExplained, InconclusiveExplained,
              ReturnedVerdict, RecordedIsSound, AnchorChecked, AnchorRefused,
              PassRecordsAll, Fresh

LEMMA NextCall ==
    InputOK' /\ Fresh' /\ (arguments \in Arguments)' => VerifierInv'
BY FreshCall, PTL
=============================================================================
