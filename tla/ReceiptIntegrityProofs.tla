----------------------- MODULE ReceiptIntegrityProofs -----------------------
(***************************************************************************)
(* Layer 1 for inputs of every length, from every set of envelopes and key *)
(* sets: the checks of one receipt, the invariants of the loop, the checks *)
(* of the whole sequence, that layer 1 implements IntegrityVerdict, and    *)
(* that what it decides follows the key rules.                             *)
(***************************************************************************)
EXTENDS KeyPolicy, MerkleTreeProofs, FiniteSetTheorems

-----------------------------------------------------------------------------
(* Every check reports codes of ErrorCode.                                 *)
LEMMA KeyCodes ==
    ASSUME NEW key, NEW ts
    PROVE  KeyValidityErrors(key, ts) \subseteq ErrorCode
<1>1. \A t : NotBeforeErrors(key, t) \subseteq ErrorCode
  BY DEF NotBeforeErrors, ErrorCode
<1>2. \A t : NotAfterErrors(key, t) \subseteq ErrorCode
  BY DEF NotAfterErrors, ErrorCode
<1>3. \A t : RevocationErrors(key, t) \subseteq ErrorCode
  BY DEF RevocationErrors, ErrorCode
<1>. QED  BY <1>1, <1>2, <1>3 DEF KeyValidityErrors, WindowErrors, ??, ErrorCode

(* Selecting a key reports codes of ErrorCode.                             *)
LEMMA LookupCodes ==
    ASSUME NEW ks, NEW tenant, NEW kid, NEW alg
    PROVE  LookupErrors(ks, tenant, kid, alg) \subseteq ErrorCode
BY DEF LookupErrors, ErrorCode

(* Checking a signature reports codes of ErrorCode.                        *)
LEMMA SignatureCodes ==
    ASSUME NEW key, NEW body, NEW value
    PROVE  SignatureErrors(key, body, value) \subseteq ErrorCode
BY DEF SignatureErrors, ErrorCode

(* All that is checked of one receipt after its hash reports codes of      *)
(* ErrorCode.                                                              *)
LEMMA ReceiptCodes ==
    ASSUME NEW ks, NEW body, NEW sig, NEW status
    PROVE  ReceiptErrors(ks, body, sig, status) \subseteq ErrorCode
BY KeyCodes, LookupCodes, SignatureCodes DEF ReceiptErrors, ErrorCode

(* The two field validators report codes of ErrorCode.                     *)
LEMMA ValidatorCodes ==
    ASSUME NEW e, NEW body
    PROVE  /\ EnvelopeErrors(e) \subseteq ErrorCode
           /\ BodyFieldErrors(body) \subseteq ErrorCode
           /\ FieldTypeErrors(body) \subseteq ErrorCode
           /\ CanonicalizationErrors(body) \subseteq ErrorCode
BY DEF EnvelopeErrors, BodyFieldErrors, FieldTypeErrors,
       CanonicalizationErrors, ErrorCode

-----------------------------------------------------------------------------
(* A status stays a status.                                                *)
LEMMA StatusType ==
    ASSUME NEW status \in LayerStatus, NEW body, NEW codes
    PROVE  /\ AfterFatal(status, codes) \in LayerStatus
           /\ AfterBodyFields(status, body) \in LayerStatus
           /\ AfterFieldTypes(status, body) \in LayerStatus
<1>1. \A c : \A s \in LayerStatus : AfterFatal(s, c) \in LayerStatus
  BY DEF AfterFatal, LayerStatus
<1>2. AfterBodyFields(status, body) \in LayerStatus
  BY <1>1 DEF AfterBodyFields, LayerStatus
<1>. QED  BY <1>1, <1>2 DEF AfterFieldTypes

(* The status after the two validators, by the status before them.         *)
LEMMA ValidatorsStatus ==
    ASSUME NEW status \in LayerStatus \ {"PASS"}, NEW body
    PROVE  LET fields == AfterBodyFields(status, body)
               types  == AfterFieldTypes(status, body)
               errs   == BodyFieldErrors(body) \cup FieldTypeErrors(body)
           IN  /\ UnsupportedVersion(body) =>
                    /\ fields = "UNSUPPORTED_VERSION"
                    /\ types = "UNSUPPORTED_VERSION"
                    /\ BodyFieldErrors(body) # {}
               /\ status = "UNSUPPORTED_VERSION" =>
                    fields = status /\ types = status
               /\ ~UnsupportedVersion(body) /\ status = "FAIL" =>
                    fields = "FAIL" /\ types = "FAIL"
               /\ ~UnsupportedVersion(body) /\ status = "INCONCLUSIVE" =>
                    /\ fields = IF BodyFieldErrors(body) = {}
                                THEN "INCONCLUSIVE" ELSE "FAIL"
                    /\ types = IF errs = {} THEN "INCONCLUSIVE" ELSE "FAIL"
<1>1. UnsupportedVersion(body) =>
        /\ AfterBodyFields(status, body) = "UNSUPPORTED_VERSION"
        /\ BodyFieldErrors(body) # {}
  BY DEF AfterBodyFields, BodyFieldErrors
<1>2. ~UnsupportedVersion(body) =>
        AfterBodyFields(status, body) = AfterFatal(status, BodyFieldErrors(body))
  BY DEF AfterBodyFields
<1>. QED  BY <1>1, <1>2 DEF AfterFieldTypes, AfterFatal, LayerStatus,
                            AfterBodyFields

(* An unsupported receipt is not acceptable.                               *)
LEMMA UnsupportedNotAcceptable ==
    ASSUME NEW e, NEW ks, Unsupported(e)
    PROVE  ~Acceptable(e, ks)
BY DEF Unsupported, Acceptable, BodyFieldErrors

-----------------------------------------------------------------------------
(* A body that both validators let through has all fields and no others,   *)
(* and its seq is a positive numeral.                                      *)
LEMMA ValidatedBody ==
    ASSUME NEW body, BodyFieldErrors(body) = {}, FieldTypeErrors(body) = {}
    PROVE  /\ ~UnsupportedVersion(body)
           /\ DOMAIN body = RECEIPT_BODY_REQUIRED_FIELDS
           /\ WellTyped(body)
           /\ IsStr(body["seq"])
           /\ HasInt(body["seq"])
           /\ IntOf(body["seq"]) > 0
           /\ Hashable(body["seq"])
<1>1. ~UnsupportedVersion(body) /\ DOMAIN body = RECEIPT_BODY_REQUIRED_FIELDS
  BY DEF BodyFieldErrors
<1>2. WellTyped(body)
  BY DEF FieldTypeErrors
<1>3. "seq" \in DOMAIN body
  BY <1>1 DEF RECEIPT_BODY_REQUIRED_FIELDS
<1>4. IsPositiveDecimal(body["seq"])
  BY <1>2, <1>3 DEF WellTyped
<1>. QED  BY <1>1, <1>2, <1>4
          DEF IsPositiveDecimal, IsText, IsStr, HasInt, IntOf, Hashable,
              IsList, IsObj

(* It has no fractional number either, so canonicalizing it reports no     *)
(* error.                                                                  *)
LEMMA ValidatedCanonical ==
    ASSUME NEW body, BodyFieldErrors(body) = {}, FieldTypeErrors(body) = {}
    PROVE  CanonicalizationErrors(body) = {}
<1>1. DOMAIN body = RECEIPT_BODY_REQUIRED_FIELDS /\ WellTyped(body)
  BY ValidatedBody
<1>2. \A f \in DOMAIN body \ {"reasons"} : IsStr(body[f])
  BY <1>1 DEF WellTyped, StringFields
<1>3. /\ "reasons" \in DOMAIN body
      /\ Get(body, "reasons") = body["reasons"]
  BY <1>1 DEF RECEIPT_BODY_REQUIRED_FIELDS, Get
<1>4. \/ body["reasons"] = Null
      \/ /\ IsList(body["reasons"])
         /\ \A i \in DOMAIN Items(body["reasons"]) :
               IsStr(Items(body["reasons"])[i])
  BY <1>1, <1>3 DEF WellTyped
<1>5. ~IsStr(Float) /\ ~IsList(Float) /\ Float # Null
  BY DEF Float, IsStr, IsList, Null
<1>6. ~IsList(Null) /\ \A v : IsStr(v) => ~IsList(v)
  BY DEF IsStr, IsList, Null
<1>7. \A f \in DOMAIN body : body[f] # Float
  BY <1>2, <1>4, <1>5
<1>8. \A f \in DOMAIN body : IsList(body[f]) =>
          \A i \in DOMAIN Items(body[f]) : Items(body[f])[i] # Float
  BY <1>2, <1>4, <1>5, <1>6
<1>9. Float \notin Values(body)
  BY <1>7, <1>8 DEF Values
<1>. QED  BY <1>9 DEF CanonicalizationErrors

(* Layer 1 raises no exception while it checks an acceptable receipt.      *)
LEMMA AcceptableRaisesNothing ==
    ASSUME NEW e, NEW ks, Acceptable(e, ks)
    PROVE  /\ ~CanonicalizeRaises(BodyOf(e))
           /\ ~ReceiptRaises(ks, BodyOf(e), SigOf(e))
<1> DEFINE body == BodyOf(e)
           kid  == GetOr(SigOf(e), "kid", Empty)
           alg  == GetOr(SigOf(e), "alg", Empty)
           key  == SelectedKey(ks, kid, alg)
<1>1. DOMAIN body = RECEIPT_BODY_REQUIRED_FIELDS
  BY ValidatedBody DEF Acceptable
<1>2. "tenant" \in DOMAIN body /\ "ts" \in DOMAIN body
  BY <1>1 DEF RECEIPT_BODY_REQUIRED_FIELDS
<1>3. ReceiptErrors(ks, body, SigOf(e), "INCONCLUSIVE") = {}
  BY DEF Acceptable
<1>4. KeyValidityErrors(key, body["ts"]) = {}
  <2>1. alg = Text("EdDSA") /\ LookupErrors(ks, body["tenant"], kid, alg) = {}
    BY <1>3 DEF ReceiptErrors
  <2>. QED  BY <1>3, <2>1 DEF ReceiptErrors
<1>5. ~KeyValidityRaises(key, body["ts"])
  <2> DEFINE ts == ParseTs(body["ts"])
  <2>1. ASSUME ts # NoTime, WindowErrors(key, ts) = {}
        PROVE  Hashable(KeyStatus(key))
    <3>1. RevocationErrors(key, ts) = {}
      BY <1>4, <2>1 DEF KeyValidityErrors, ??
    <3>2. \E s : KeyStatus(key) = Text(s)
      BY <3>1, Zenon DEF RevocationErrors
    <3>. QED  BY <3>2 DEF Hashable, Text, IsList, IsObj
  <2>. QED  BY <2>1 DEF KeyValidityRaises
<1>. QED  BY <1>2, <1>5 DEF Acceptable, ReceiptRaises

(* An acceptable receipt is of the key set's tenant and selects one key of *)
(* it, which was valid at its time and signed its body.                    *)
LEMMA AcceptableKey ==
    ASSUME NEW e, NEW ks, Acceptable(e, ks)
    PROVE  LET body    == BodyOf(e)
               kid     == GetOr(SigOf(e), "kid", Empty)
               entries == GetOr(ks, "keys", List(<<>>))
               list    == Items(entries)
           IN  /\ Get(ks, "tenant") = body["tenant"]
               /\ GetOr(SigOf(e), "alg", Empty) = Text("EdDSA")
               /\ IsList(entries) /\ \A i \in DOMAIN list : IsObj(list[i])
               /\ \E i \in DOMAIN list :
                     /\ AlgMatches(list, kid, Text("EdDSA")) = {i}
                     /\ KeyValidityErrors(Members(list[i]), body["ts"]) = {}
<1> DEFINE body == BodyOf(e)
           kid  == GetOr(SigOf(e), "kid", Empty)
           alg  == GetOr(SigOf(e), "alg", Empty)
           entries == GetOr(ks, "keys", List(<<>>))
           list == Items(entries)
           key  == SelectedKey(ks, kid, alg)
<1>1. alg = Text("EdDSA") /\ LookupErrors(ks, body["tenant"], kid, alg) = {}
  BY DEF Acceptable, ReceiptErrors
<1>2. KeyValidityErrors(key, body["ts"]) = {}
  <2>1. \/ AfterFatal("INCONCLUSIVE", KeyValidityErrors(key, body["ts"])) # "FAIL"
        \/ KeyValidityErrors(key, body["ts"]) = {}
    BY <1>1 DEF Acceptable, ReceiptErrors
  <2>. QED  BY <2>1 DEF AfterFatal
<1>3. /\ Get(ks, "tenant") = body["tenant"]
      /\ IsList(entries) /\ \A i \in DOMAIN list : IsObj(list[i])
      /\ AlgMatches(list, kid, alg) # {}
      /\ ~\E i, j \in AlgMatches(list, kid, alg) : i # j
  BY <1>1 DEF LookupErrors
<1>4. PICK i \in AlgMatches(list, kid, alg) : TRUE
  BY <1>3
<1>5. AlgMatches(list, kid, alg) = {i} /\ i \in DOMAIN list
  BY <1>3, <1>4 DEF AlgMatches, Candidates
<1>6. entries = ks["keys"]
  <2>1. CASE "keys" \in DOMAIN ks
    BY <2>1 DEF GetOr
  <2>2. CASE "keys" \notin DOMAIN ks
    <3>1. list = <<>>
      BY <2>2 DEF GetOr, Items, List
    <3>. QED  BY <1>5, <3>1
  <2>. QED  BY <2>1, <2>2
<1>7. key = Members(list[i])
  <2>1. (CHOOSE j \in AlgMatches(list, kid, alg) : TRUE) = i
    BY <1>5
  <2>. QED  BY <1>6, <2>1 DEF SelectedKey
<1>. QED  BY <1>1, <1>2, <1>3, <1>5, <1>7

(* A key without a revocation error.                                       *)
LEMMA NotRevoked ==
    ASSUME NEW key, NEW ts, RevocationErrors(key, ts) = {}
    PROVE  LET rt == Get(key, "revocation_time")
           IN  \/ KeyStatus(key) \in {Text("active"), Text("retired")} /\ rt = Null
               \/ /\ KeyStatus(key) = Text("revoked_future_only")
                  /\ ParseTs(rt) # NoTime /\ ~(ts >= ParseTs(rt))
BY DEF RevocationErrors

-----------------------------------------------------------------------------
(* The types again, for an array and a key set from anywhere: the lemmas   *)
(* about steps of layer 1 serve every module that calls it.                *)
InputOK ==
    /\ receipts \in Seq({receipts[i] : i \in DOMAIN receipts})
    /\ \A i \in DOMAIN receipts : SeqDenotes(receipts[i])

LoopTypeOK ==
    /\ InputOK
    /\ pc \in {"receipts", "anchor", "raised"}
    /\ pos \in 1..Len(receipts) + 1
    /\ recorded \subseteq 1..pos - 1
    /\ ri \in LayerStatus
    /\ errors \subseteq VerificationError

(* An array has a length.                                                  *)
LEMMA InputLength ==
    ASSUME InputOK
    PROVE  \E n \in Nat : /\ Len(receipts) = n /\ DOMAIN receipts = 1..n
                          /\ receipts = <<>> <=> n = 0
<1>1. /\ Len(receipts) \in Nat /\ DOMAIN receipts = 1..Len(receipts)
      /\ receipts = <<>> <=> Len(receipts) = 0
  BY DEF InputOK
<1>. QED  BY <1>1

(* The arrays layer 1 is given in its own module are such.                 *)
LEMMA TypesRestrict == Layer1TypeOK => LoopTypeOK
<1>. SUFFICES ASSUME Layer1TypeOK PROVE LoopTypeOK
  OBVIOUS
<1>1. PICK n \in 0..MaxReceipts : receipts \in [1..n -> Envelopes]
  BY DEF Layer1TypeOK
<1>2. n \in Nat /\ DOMAIN receipts = 1..n
  BY <1>1, MaxReceiptsAssumption
<1>3. receipts \in [1..n -> {receipts[i] : i \in DOMAIN receipts}]
  BY <1>1, <1>2
<1>4. receipts \in Seq({receipts[i] : i \in DOMAIN receipts})
  BY <1>2, <1>3
<1>5. \A i \in DOMAIN receipts : SeqDenotes(receipts[i])
  BY <1>1, <1>2, NumeralsAssumption
<1>. QED  BY <1>4, <1>5 DEF LoopTypeOK, InputOK, Layer1TypeOK

-----------------------------------------------------------------------------
(* What every handled envelope has in common: the loop moves on by one,    *)
(* adds fatal errors and enters at most that one position.                 *)
LEMMA EnvelopeStep ==
    ASSUME LoopTypeOK, CheckEnvelope
    PROVE  /\ InLoop
           /\ UNCHANGED inputs
           /\ \/ /\ pos' = pos + 1 /\ pc' = pc
                 /\ recorded' \in {recorded, recorded \cup {pos}}
                 /\ \E codes \in SUBSET ErrorCode :
                       /\ errors' = errors \cup Fatal("receipt_integrity", codes)
              \/ /\ pc' = "raised"
                 /\ UNCHANGED <<pos, recorded, ri, errors>>
<1>1. CASE RejectEnvelope
  BY <1>1, ValidatorCodes DEF RejectEnvelope, Report, NextEnvelope
<1>2. CASE RejectBody
  BY <1>2, ValidatorCodes DEF RejectBody, Report, NextEnvelope
<1>3. CASE RejectFields
  <2>1. BodyFieldErrors(Body) \cup FieldTypeErrors(Body) \in SUBSET ErrorCode
    BY ValidatorCodes
  <2>. QED  BY <1>3, <2>1 DEF RejectFields, Report, NextEnvelope
<1>4. CASE RejectUncanonical
  <2>1. BodyFieldErrors(Body) \cup FieldTypeErrors(Body)
          \cup CanonicalizationErrors(Body) \in SUBSET ErrorCode
    BY ValidatorCodes
  <2>. QED  BY <1>4, <2>1 DEF RejectUncanonical, Screened, ReportAlso, Report,
                              NextEnvelope
<1>5. CASE RejectRepeated
  <2> DEFINE code == IF \E p \in Earlier : ReceiptHash(p) = HashOf(Body)
                     THEN {"DUPLICATE_SEQUENCE"} ELSE {"FORKED_SEQUENCE"}
  <2>1. BodyFieldErrors(Body) \cup FieldTypeErrors(Body) \cup code
          \in SUBSET ErrorCode
    BY ValidatorCodes DEF ErrorCode
  <2>. QED  BY <1>5, <2>1 DEF RejectRepeated, Canonical, Screened, ReportAlso,
                              Report, NextEnvelope
<1>6. CASE RecordReceipt
  <2> DEFINE found == ReceiptErrors(keys, Body, SigOf(Envelope),
                                    AfterFieldTypes(ri, Body))
  <2>1. BodyFieldErrors(Body) \cup FieldTypeErrors(Body) \cup found
          \in SUBSET ErrorCode
    BY ValidatorCodes, ReceiptCodes
  <2>. QED  BY <1>6, <2>1 DEF RecordReceipt, Canonical, Screened, ReportAlso,
                              Report, NextEnvelope
<1>7. CASE RaiseOnReceipt
  BY <1>7 DEF RaiseOnReceipt, Screened, inputs
<1>. QED  BY <1>1, <1>2, <1>3, <1>4, <1>5, <1>6, <1>7 DEF CheckEnvelope

(* Only an exception ends the loop early.                                  *)
LEMMA EnvelopeStaysInLoop ==
    ASSUME LoopTypeOK, CheckEnvelope, ~RaiseOnReceipt
    PROVE  InLoop /\ pc' = pc /\ UNCHANGED inputs
BY EnvelopeStep
DEF CheckEnvelope, RejectEnvelope, RejectBody, RejectFields, RejectUncanonical,
    RejectRepeated, RecordReceipt, NextEnvelope

(* Whatever it reports, a step leaves the layer with a status.             *)
LEMMA EnvelopeStatus ==
    ASSUME LoopTypeOK, CheckEnvelope
    PROVE  ri' \in LayerStatus
<1>1. ri \in LayerStatus /\ "FAIL" \in LayerStatus
  BY DEF LoopTypeOK, LayerStatus
<1>2. \A codes : AfterFatal(AfterFieldTypes(ri, Body), codes) \in LayerStatus
  BY <1>1, StatusType
<1>3. \A codes : AfterFatal(ri, codes) \in LayerStatus
  BY <1>1, StatusType
<1>. QED
  BY <1>1, <1>2, <1>3
  DEF CheckEnvelope, RejectEnvelope, RejectBody, RejectFields,
      RejectUncanonical, RejectRepeated, RecordReceipt, RaiseOnReceipt,
      ReportAlso

(* The checks of the whole sequence report codes of ErrorCode.             *)
LEMMA SequenceCodes == SequenceErrors \in SUBSET ErrorCode
BY DEF SequenceErrors, ErrorCode

(* Fatal errors and warnings of a layer, with codes of ErrorCode, are      *)
(* errors of a result.                                                     *)
LEMMA FatalType ==
    ASSUME NEW codes \in SUBSET ErrorCode, NEW layer \in Layer
    PROVE  /\ Fatal(layer, codes) \subseteq VerificationError
           /\ Warning(layer, codes) \subseteq VerificationError
BY DEF Fatal, Warning, VerificationError

-----------------------------------------------------------------------------
(* Layer 1 begins in a state of the right types.                           *)
LEMMA TypeInit == Layer1Init => Layer1TypeOK
<1>. SUFFICES ASSUME Layer1Init PROVE Layer1TypeOK
  OBVIOUS
<1>1. PICK n \in 0..MaxReceipts : receipts \in [1..n -> Envelopes]
  BY DEF Layer1Init
<1>2. Len(receipts) = n
  BY <1>1
<1>. QED  BY <1>2, MaxReceiptsAssumption
          DEF Layer1Init, Layer1TypeOK, LayerStatus

(* No step of layer 1 changes what it was given.                           *)
LEMMA InputsKept ==
    ASSUME LoopTypeOK, [Layer1Next]_l1vars
    PROVE  UNCHANGED inputs
<1>1. CASE CheckEnvelope
  BY <1>1, EnvelopeStep
<1>2. CASE SkipSequence \/ CheckSequence \/ RaiseOnSequence
  BY <1>2 DEF SkipSequence, CheckSequence, RaiseOnSequence, Return
<1>3. CASE UNCHANGED l1vars
  BY <1>3 DEF l1vars, inputs
<1>. QED  BY <1>1, <1>2, <1>3 DEF Layer1Next

(* Every step of layer 1, and every stutter, keeps the types.              *)
LEMMA TypeStep == LoopTypeOK /\ [Layer1Next]_l1vars => LoopTypeOK'
<1>. SUFFICES ASSUME LoopTypeOK, [Layer1Next]_l1vars
              PROVE  LoopTypeOK'
  OBVIOUS
<1>1. PICK n \in Nat : Len(receipts) = n
  BY InputLength DEF LoopTypeOK
<1>0. InputOK'
  BY InputsKept DEF LoopTypeOK, InputOK, inputs
<1>2. CASE CheckEnvelope
  <2>1. ri' \in LayerStatus /\ UNCHANGED inputs /\ InLoop
    BY <1>2, EnvelopeStep, EnvelopeStatus
  <2>2. pos' \in 1..Len(receipts') + 1 /\ recorded' \subseteq 1..pos' - 1
    <3>1. receipts' = receipts /\ pos \in 1..n /\ recorded \subseteq 1..pos - 1
      BY <1>1, <2>1 DEF LoopTypeOK, inputs, InLoop
    <3>2. CASE pos' = pos + 1 /\ recorded' \in {recorded, recorded \cup {pos}}
      BY <1>1, <3>1, <3>2
    <3>3. CASE UNCHANGED <<pos, recorded>>
      BY <1>1, <3>1, <3>3
    <3>. QED  BY <1>2, <3>2, <3>3, EnvelopeStep
  <2>3. errors' \subseteq VerificationError
    BY <1>2, EnvelopeStep, FatalType DEF LoopTypeOK, Layer
  <2>4. pc' \in {"receipts", "anchor", "raised"}
    BY <1>2, EnvelopeStep DEF LoopTypeOK
  <2>. QED  BY <1>0, <2>1, <2>2, <2>3, <2>4 DEF LoopTypeOK
<1>3. CASE SkipSequence
  BY <1>0, <1>3 DEF SkipSequence, Return, inputs, LoopTypeOK
<1>4. CASE CheckSequence
  <2>1. errors' \subseteq VerificationError
    BY <1>4, SequenceCodes, FatalType
    DEF CheckSequence, Report, LoopTypeOK, Layer
  <2>2. ri' \in LayerStatus
    BY <1>4, StatusType DEF CheckSequence, LoopTypeOK, LayerStatus
  <2>. QED  BY <1>0, <1>4, <2>1, <2>2
            DEF CheckSequence, Return, inputs, LoopTypeOK
<1>5. CASE RaiseOnSequence
  BY <1>0, <1>5 DEF RaiseOnSequence, inputs, LoopTypeOK
<1>6. CASE UNCHANGED l1vars
  BY <1>0, <1>6 DEF l1vars, LoopTypeOK
<1>. QED  BY <1>2, <1>3, <1>4, <1>5, <1>6 DEF Layer1Next

(* Layer 1 is type-correct, whatever it is given to verify.                *)
THEOREM Layer1TypeCorrect == Layer1Spec => []Layer1TypeOK
<1>1. Layer1TypeOK /\ [Layer1Next]_l1vars => Layer1TypeOK'
  <2>. SUFFICES ASSUME Layer1TypeOK, [Layer1Next]_l1vars
                PROVE  Layer1TypeOK'
    OBVIOUS
  <2>1. LoopTypeOK' /\ UNCHANGED inputs
    BY TypesRestrict, TypeStep, InputsKept
  <2>. QED  BY <2>1 DEF Layer1TypeOK, LoopTypeOK, inputs
<1>. QED  BY <1>1, TypeInit, PTL DEF Layer1Spec

-----------------------------------------------------------------------------
(* Where the loop stands after the envelopes before pos: the layer is      *)
(* UNSUPPORTED_VERSION exactly if one of them is unsupported, INCONCLUSIVE *)
(* only if all are acceptable and recorded, and FAIL only if the input is  *)
(* no whole chain of acceptable receipts.                                  *)
LoopInv ==
    pc = "receipts" =>
        /\ ri # "PASS"
        /\ ri = "UNSUPPORTED_VERSION"
             <=> \E p \in 1..pos - 1 : Unsupported(receipts[p])
        /\ ri = "INCONCLUSIVE" =>
             /\ recorded = 1..pos - 1
             /\ \A p \in 1..pos - 1 : Acceptable(receipts[p], keys)
        /\ ri = "FAIL" =>
             ~(AllAcceptable(receipts, keys) /\ Chained(receipts))

(* A screened body is in an unsupported array or free of errors.           *)
LEMMA ScreenedStatus ==
    ASSUME ri \in LayerStatus \ {"PASS"}, Screened
    PROVE  \/ /\ AfterFieldTypes(ri, Body) = "UNSUPPORTED_VERSION"
              /\ ri = "UNSUPPORTED_VERSION" \/ Unsupported(Envelope)
              /\ ri = "INCONCLUSIVE" => BodyFieldErrors(Body) # {}
           \/ /\ AfterFieldTypes(ri, Body) = "INCONCLUSIVE"
              /\ ri = "INCONCLUSIVE"
              /\ ~Unsupported(Envelope)
              /\ BodyFieldErrors(Body) = {} /\ FieldTypeErrors(Body) = {}
<1>1. CASE UnsupportedVersion(Body)
  BY <1>1, ValidatorsStatus DEF Screened, Unsupported, Body
<1>2. CASE ri = "UNSUPPORTED_VERSION"
  BY <1>2, ValidatorsStatus
<1>3. CASE ~UnsupportedVersion(Body) /\ ri # "UNSUPPORTED_VERSION"
  <2>1. ri \in {"INCONCLUSIVE", "FAIL"}
    BY <1>3 DEF LayerStatus
  <2>2. ri = "INCONCLUSIVE"
    BY <1>3, <2>1, ValidatorsStatus DEF Screened
  <2>. QED  BY <1>3, <2>2, ValidatorsStatus DEF Screened, Unsupported, Body
<1>. QED  BY <1>1, <1>2, <1>3

(* What an envelope does to the status of the layer, and why.              *)
Outcome(codes) ==
    /\ errors' = errors \cup Fatal("receipt_integrity", codes)
    /\ ri' # "PASS"
    /\ ri' = "UNSUPPORTED_VERSION"
         <=> ri = "UNSUPPORTED_VERSION" \/ Unsupported(Envelope)
    /\ ri' = "INCONCLUSIVE" <=> ri = "INCONCLUSIVE" /\ codes = {}
    /\ ri' = "INCONCLUSIVE" =>
         Acceptable(Envelope, keys) /\ recorded' = recorded \cup {pos}
    /\ ri' = "FAIL" => \/ ri = "FAIL" \/ ~Acceptable(Envelope, keys)
                       \/ \E p \in recorded : SeqOf(p) = Body["seq"]
                                              /\ p \in DOMAIN receipts

(* A round of the loop that raises nothing has an outcome: the codes it    *)
(* reports, and the status they leave.                                     *)
LEMMA EnvelopeOutcome ==
    ASSUME LoopTypeOK, LoopInv, CheckEnvelope, ~RaiseOnReceipt
    PROVE  \E codes : Outcome(codes)
<1>0. ri \in LayerStatus \ {"PASS"} /\ recorded \subseteq DOMAIN receipts
  BY EnvelopeStep DEF LoopInv, LoopTypeOK, InLoop
<1> DEFINE fields == BodyFieldErrors(Body)
           types  == FieldTypeErrors(Body)
<1>1. CASE RejectEnvelope
  <2>1. Outcome(EnvelopeErrors(Envelope))
    BY <1>0, <1>1 DEF RejectEnvelope, Report, Outcome, AfterFatal, LayerStatus,
                      Unsupported, Acceptable
  <2>. QED  BY <2>1
<1>2. CASE RejectBody
  <2>1. ~UnsupportedVersion(Body) /\ ri # "UNSUPPORTED_VERSION"
    BY <1>0, <1>2, ValidatorsStatus DEF RejectBody
  <2>2. ri = "FAIL" \/ fields # {}
    BY <1>0, <1>2, <2>1, ValidatorsStatus DEF RejectBody, LayerStatus
  <2>3. Outcome(fields)
    BY <1>2, <2>1, <2>2
    DEF RejectBody, Report, Outcome, Unsupported, Acceptable, Body
  <2>. QED  BY <2>3
<1>3. CASE RejectFields
  <2>1. ~UnsupportedVersion(Body) /\ ri = "INCONCLUSIVE"
    BY <1>0, <1>3, ValidatorsStatus DEF RejectFields, LayerStatus
  <2>2. types # {}
    BY <1>0, <1>3, <2>1, ValidatorsStatus DEF RejectFields
  <2>3. Outcome(fields \cup types)
    BY <1>3, <2>1, <2>2
    DEF RejectFields, Report, Outcome, Unsupported, Acceptable, Body
  <2>. QED  BY <2>3
<1>4. CASE RejectUncanonical
  <2>1. AfterFieldTypes(ri, Body) = "UNSUPPORTED_VERSION"
    BY <1>0, <1>4, ScreenedStatus, ValidatedCanonical DEF RejectUncanonical
  <2>2. Outcome(fields \cup types \cup CanonicalizationErrors(Body))
    BY <1>0, <1>4, <2>1, ScreenedStatus
    DEF RejectUncanonical, ReportAlso, Report, Outcome, AfterFatal
  <2>. QED  BY <2>2
<1>5. CASE RejectRepeated
  <2> DEFINE code == IF \E p \in Earlier : ReceiptHash(p) = HashOf(Body)
                     THEN {"DUPLICATE_SEQUENCE"} ELSE {"FORKED_SEQUENCE"}
  <2>0. Screened /\ code # {} /\ ReportAlso(code)
    BY <1>5 DEF RejectRepeated, Canonical
  <2>1. \E p \in recorded : SeqOf(p) = Body["seq"] /\ p \in DOMAIN receipts
    BY <1>0, <1>5 DEF RejectRepeated, Earlier
  <2> HIDE DEF code
  <2>2. Outcome(fields \cup types \cup code)
    BY <1>0, <2>0, <2>1, ScreenedStatus
    DEF ReportAlso, Report, Outcome, AfterFatal
  <2>. QED  BY <2>2
<1>6. CASE RecordReceipt
  <2> DEFINE found == ReceiptErrors(keys, Body, SigOf(Envelope),
                                    AfterFieldTypes(ri, Body))
  <2>0. Screened /\ ReportAlso(found) /\ recorded' = recorded \cup {pos}
    BY <1>6 DEF RecordReceipt, Canonical
  <2>1. CASE AfterFieldTypes(ri, Body) = "UNSUPPORTED_VERSION"
    <3> HIDE DEF found
    <3>1. Outcome(fields \cup types \cup found)
      BY <1>0, <2>0, <2>1, ScreenedStatus
      DEF ReportAlso, Report, Outcome, AfterFatal
    <3>. QED  BY <3>1
  <2>2. CASE AfterFieldTypes(ri, Body) = "INCONCLUSIVE"
    <3>1. /\ ri = "INCONCLUSIVE" /\ ~Unsupported(Envelope)
          /\ fields = {} /\ types = {}
      BY <1>0, <2>0, <2>2, ScreenedStatus
    <3>2. Acceptable(Envelope, keys) <=> found = {}
      BY <1>6, <2>2, <3>1
      DEF RecordReceipt, Canonical, Screened, Acceptable, Body
    <3> HIDE DEF found
    <3>3. Outcome(fields \cup types \cup found)
      BY <2>0, <2>2, <3>1, <3>2 DEF ReportAlso, Report, Outcome, AfterFatal
    <3>. QED  BY <3>3
  <2>. QED  BY <1>0, <2>0, <2>1, <2>2, ScreenedStatus
<1>. QED  BY <1>1, <1>2, <1>3, <1>4, <1>5, <1>6 DEF CheckEnvelope

-----------------------------------------------------------------------------
(* The loop invariant holds before the first round.                        *)
LEMMA LoopInit == Layer1Init => LoopInv
BY DEF Layer1Init, LoopInv

(* Every step of layer 1 keeps the loop invariant.                         *)
LEMMA LoopStep ==
    LoopTypeOK /\ LoopInv /\ [Layer1Next]_l1vars => LoopInv'
<1>. SUFFICES ASSUME LoopTypeOK, LoopInv, [Layer1Next]_l1vars,
                     pc' = "receipts"
              PROVE  LoopInv'
  BY DEF LoopInv
<1>1. CASE CheckEnvelope
  <2>0. /\ InLoop /\ UNCHANGED inputs
        /\ pos' = pos + 1
        /\ ~RaiseOnReceipt
    BY <1>1, EnvelopeStep DEF RaiseOnReceipt
  <2>1. PICK codes : Outcome(codes)
    BY <1>1, <2>0, EnvelopeOutcome
  <2>2. /\ pos \in Nat \ {0} /\ pos \in DOMAIN receipts
        /\ recorded \subseteq 1..pos - 1
        /\ 1..pos' - 1 = (1..pos - 1) \cup {pos}
    <3>1. PICK n \in Nat : Len(receipts) = n /\ DOMAIN receipts = 1..n
      BY InputLength DEF LoopTypeOK
    <3>. QED  BY <2>0, <3>1 DEF LoopTypeOK, InLoop
  <2>3. pc = "receipts" /\ receipts' = receipts /\ keys' = keys
    BY <2>0 DEF InLoop, inputs
  <2>4. (ri = "UNSUPPORTED_VERSION"
           <=> \E p \in 1..pos - 1 : Unsupported(receipts[p]))'
    BY <2>1, <2>2, <2>3 DEF LoopInv, Outcome, Envelope
  <2>5. (ri = "INCONCLUSIVE" =>
             /\ recorded = 1..pos - 1
             /\ \A p \in 1..pos - 1 : Acceptable(receipts[p], keys))'
    BY <2>1, <2>2, <2>3 DEF LoopInv, Outcome, Envelope
  <2>6. (ri = "FAIL" =>
             ~(AllAcceptable(receipts, keys) /\ Chained(receipts)))'
    <3>. SUFFICES ASSUME ri' = "FAIL"
                  PROVE  ~(AllAcceptable(receipts, keys) /\ Chained(receipts))
      BY <2>3
    <3>1. CASE ri = "FAIL"
      BY <2>3, <3>1 DEF LoopInv
    <3>2. CASE ~Acceptable(Envelope, keys)
      BY <2>2, <3>2 DEF AllAcceptable, Envelope
    <3>3. CASE \E p \in recorded : SeqOf(p) = Body["seq"]
                                   /\ p \in DOMAIN receipts
      <4>1. PICK p \in recorded : /\ SeqOf(p) = Body["seq"]
                                  /\ p \in DOMAIN receipts
        BY <3>3
      <4>2. Number(receipts[p]) = Number(receipts[pos]) /\ p # pos
        BY <2>2, <4>1 DEF Number, SeqOf, Body, Envelope
      <4>. QED  BY <2>2, <4>1, <4>2 DEF Chained
    <3>. QED  BY <2>1, <3>1, <3>2, <3>3 DEF Outcome
  <2>. QED  BY <2>1, <2>4, <2>5, <2>6 DEF LoopInv, Outcome
<1>2. CASE SkipSequence \/ CheckSequence \/ RaiseOnSequence
  BY <1>2 DEF SkipSequence, CheckSequence, RaiseOnSequence, Return
<1>3. CASE UNCHANGED l1vars
  BY <1>3 DEF l1vars, LoopInv
<1>. QED  BY <1>1, <1>2, <1>3 DEF Layer1Next

(* Types and loop invariant hold in every state of layer 1.                *)
LEMMA Layer1Invariant == Layer1Spec => [](LoopTypeOK /\ LoopInv)
BY TypeInit, TypesRestrict, TypeStep, LoopInit, LoopStep, PTL DEF Layer1Spec

-----------------------------------------------------------------------------
(* A layer has a fatal error if it had one or if codes were added to it.   *)
LEMMA FatalAdded ==
    ASSUME NEW old, NEW codes, NEW layer
    PROVE  HasFatal(old \cup Fatal(layer, codes), layer)
             <=> HasFatal(old, layer) \/ codes # {}
<1>1. \A e \in Fatal(layer, codes) : e.layer = layer /\ e.severity = "fatal"
  BY DEF Fatal
<1>2. Fatal(layer, codes) # {} <=> codes # {}
  BY DEF Fatal
<1>. QED  BY <1>1, <1>2 DEF HasFatal

(* Every step of layer 1 keeps fatal errors and terminal status together.  *)
LEMMA FatalStep ==
    /\ LoopTypeOK /\ LoopInv /\ FatalIffTerminal
    /\ [Layer1Next]_l1vars
    => FatalIffTerminal'
<1>. SUFFICES ASSUME LoopTypeOK, LoopInv, FatalIffTerminal,
                     [Layer1Next]_l1vars
              PROVE  FatalIffTerminal'
  OBVIOUS
<1>0. ri \in LayerStatus
  BY DEF LoopTypeOK
<1>1. CASE CheckEnvelope /\ ~RaiseOnReceipt
  <2>1. PICK codes : Outcome(codes)
    BY <1>1, EnvelopeOutcome
  <2>2. ri' \in LayerStatus \ {"PASS"}
    BY <1>1, <2>1, EnvelopeStatus DEF Outcome
  <2>3. ri # "PASS"
    BY <1>1, EnvelopeStep DEF LoopInv, InLoop
  <2>4. HasFatal(errors', "receipt_integrity")
           <=> HasFatal(errors, "receipt_integrity") \/ codes # {}
    BY <2>1, FatalAdded DEF Outcome
  <2>. QED  BY <1>0, <2>1, <2>2, <2>3, <2>4
            DEF FatalIffTerminal, Outcome, LayerStatus
<1>2. CASE CheckSequence
  <2>1. HasFatal(errors', "receipt_integrity")
          <=> HasFatal(errors, "receipt_integrity") \/ SequenceErrors # {}
    BY <1>2, FatalAdded DEF CheckSequence, Report
  <2>. QED  BY <1>0, <1>2, <2>1
            DEF CheckSequence, AfterFatal, FatalIffTerminal, LayerStatus
<1>3. CASE RaiseOnReceipt \/ SkipSequence \/ RaiseOnSequence
           \/ UNCHANGED l1vars
  BY <1>3 DEF RaiseOnReceipt, SkipSequence, RaiseOnSequence, l1vars,
              FatalIffTerminal
<1>. QED  BY <1>1, <1>2, <1>3 DEF Layer1Next

(* A layer with a fatal error has a terminal status, and a layer with a    *)
(* terminal status has a fatal error that explains it.                     *)
THEOREM FatalErrorsDecide == Layer1Spec => []FatalIffTerminal
<1>1. Layer1Init => FatalIffTerminal
  BY DEF Layer1Init, FatalIffTerminal, HasFatal
<1>. QED  BY <1>1, FatalStep, Layer1Invariant, PTL DEF Layer1Spec

(* No receipt takes back the verdict on an earlier one.                    *)
THEOREM StatusNeverImproves == Layer1Spec => StatusOnlyWorsens
<1> DEFINE Worsens == ri' # ri => \/ <<ri, ri'>> \in StatusMoves
                                  \/ /\ ri = "INCONCLUSIVE"
                                     /\ ri' = "PASS" /\ pc' = "anchor"
<1>1. LoopTypeOK /\ LoopInv /\ [Layer1Next]_l1vars => [Worsens]_l1vars
  <2>. SUFFICES ASSUME LoopTypeOK, LoopInv, Layer1Next
                PROVE  Worsens
    OBVIOUS
  <2>0. ri \in LayerStatus
    BY DEF LoopTypeOK
  <2>1. CASE CheckEnvelope /\ ~RaiseOnReceipt
    <3>1. PICK codes : Outcome(codes)
      BY <2>1, EnvelopeOutcome
    <3>2. ri' \in LayerStatus
      BY <2>1, EnvelopeStatus
    <3>3. ri # "PASS"
      BY <2>1, EnvelopeStep DEF LoopInv, InLoop
    <3>. QED  BY <2>0, <3>1, <3>2, <3>3 DEF Outcome, StatusMoves, LayerStatus
  <2>2. CASE CheckSequence
    BY <2>0, <2>2 DEF CheckSequence, Return, LoopDone, AfterFatal, LoopInv,
                      StatusMoves, LayerStatus
  <2>3. CASE RaiseOnReceipt \/ SkipSequence \/ RaiseOnSequence
    BY <2>3 DEF RaiseOnReceipt, SkipSequence, RaiseOnSequence
  <2>. QED  BY <2>1, <2>2, <2>3 DEF Layer1Next
<1>. QED  BY <1>1, Layer1Invariant, PTL DEF Layer1Spec, StatusOnlyWorsens

(* Every step of layer 1 keeps what is recorded sound.                     *)
LEMMA SoundStep ==
    /\ LoopTypeOK /\ LoopInv /\ RecordedIsSound
    /\ [Layer1Next]_l1vars
    => RecordedIsSound'
<1>. SUFFICES ASSUME LoopTypeOK, LoopInv, RecordedIsSound,
                     [Layer1Next]_l1vars
              PROVE  RecordedIsSound'
  OBVIOUS
<1>1. CASE CheckEnvelope /\ ~RaiseOnReceipt
  <2>0. /\ receipts' = receipts /\ ri \in LayerStatus \ {"PASS"}
        /\ ri' # "UNSUPPORTED_VERSION" => ri # "UNSUPPORTED_VERSION"
    <3>1. PICK codes : Outcome(codes)
      BY <1>1, EnvelopeOutcome
    <3>2. UNCHANGED inputs /\ InLoop
      BY <1>1, EnvelopeStep
    <3>. QED  BY <3>1, <3>2 DEF Outcome, LoopInv, LoopTypeOK, inputs, InLoop
  <2>1. CASE ~RecordReceipt
    <3>1. recorded' = recorded
      BY <1>1, <2>1 DEF CheckEnvelope, RejectEnvelope, RejectBody,
                        RejectFields, RejectUncanonical, RejectRepeated
    <3>. QED  BY <2>0, <3>1 DEF RecordedIsSound, SeqOf
  <2>2. CASE RecordReceipt
    <3>1. recorded' = recorded \cup {pos} /\ Body = BodyOf(receipts[pos])
      BY <2>2 DEF RecordReceipt, Body, Envelope
    <3>2. \A p \in recorded : SeqOf(p) # SeqOf(pos)
      BY <2>2 DEF RecordReceipt, Earlier, SeqOf, Body, Envelope
    <3>3. \A p, q \in recorded' : SeqOf(p) = SeqOf(q) => p = q
      BY <3>1, <3>2 DEF RecordedIsSound
    <3>4. ri' # "UNSUPPORTED_VERSION" =>
            BodyFieldErrors(Body) = {} /\ FieldTypeErrors(Body) = {}
      <4>1. Screened /\ ri' = AfterFatal(AfterFieldTypes(ri, Body),
                                 ReceiptErrors(keys, Body, SigOf(Envelope),
                                               AfterFieldTypes(ri, Body)))
        BY <2>2 DEF RecordReceipt, ReportAlso, Canonical
      <4>2. AfterFieldTypes(ri, Body) = "UNSUPPORTED_VERSION"
              => ri' = "UNSUPPORTED_VERSION"
        BY <4>1 DEF AfterFatal
      <4>. QED  BY <2>0, <4>1, <4>2, ScreenedStatus
    <3>. QED  BY <2>0, <3>1, <3>3, <3>4 DEF RecordedIsSound, SeqOf
  <2>. QED  BY <2>1, <2>2
<1>2. CASE CheckSequence
  BY <1>2 DEF CheckSequence, Return, AfterFatal, inputs, RecordedIsSound,
              SeqOf
<1>3. CASE RaiseOnReceipt \/ SkipSequence \/ RaiseOnSequence
           \/ UNCHANGED l1vars
  BY <1>3 DEF RaiseOnReceipt, SkipSequence, Return, RaiseOnSequence, l1vars,
              inputs, RecordedIsSound, SeqOf
<1>. QED  BY <1>1, <1>2, <1>3 DEF Layer1Next

(* What layers 2 and 3 take from layer 1 is sound: one receipt for each    *)
(* seq, and validated fields, whatever other receipts were in the input.   *)
THEOREM RecordedSound == Layer1Spec => []RecordedIsSound
<1>1. Layer1Init => RecordedIsSound
  BY DEF Layer1Init, RecordedIsSound
<1>. QED  BY <1>1, SoundStep, Layer1Invariant, PTL DEF Layer1Spec

-----------------------------------------------------------------------------
(* The state after the loop when every receipt was acceptable.             *)
AllRecorded ==
    /\ InputOK
    /\ recorded = DOMAIN receipts
    /\ AllAcceptable(receipts, keys)

(* Then the seqs are positive numerals and the bodies have all members.    *)
LEMMA RecordedNumbers ==
    ASSUME AllRecorded, NEW p \in recorded
    PROVE  /\ p \in Nat
           /\ IntOf(SeqOf(p)) \in Nat \ {0}
           /\ HasInt(SeqOf(p)) /\ IsStr(SeqOf(p))
           /\ Number(receipts[p]) = IntOf(SeqOf(p))
           /\ DOMAIN BodyOf(receipts[p]) = RECEIPT_BODY_REQUIRED_FIELDS
           /\ Get(BodyOf(receipts[p]), "seq") = SeqOf(p)
<1>1. PICK n \in Nat : DOMAIN receipts = 1..n
  BY InputLength DEF AllRecorded
<1>2. p \in Nat /\ SeqDenotes(receipts[p])
  BY <1>1 DEF AllRecorded, InputOK
<1>3. /\ EnvelopeErrors(receipts[p]) = {}
      /\ BodyFieldErrors(BodyOf(receipts[p])) = {}
      /\ FieldTypeErrors(BodyOf(receipts[p])) = {}
  BY DEF AllRecorded, AllAcceptable, Acceptable
<1>4. /\ DOMAIN BodyOf(receipts[p]) = RECEIPT_BODY_REQUIRED_FIELDS
      /\ HasInt(SeqOf(p)) /\ IsStr(SeqOf(p)) /\ IntOf(SeqOf(p)) > 0
  BY <1>3, ValidatedBody DEF SeqOf
<1>5. Get(BodyOf(receipts[p]), "seq") = SeqOf(p)
  BY <1>4 DEF Get, SeqOf, RECEIPT_BODY_REQUIRED_FIELDS
<1>6. IntOf(SeqOf(p)) \in Int
  BY <1>2, <1>3, <1>4, <1>5 DEF SeqDenotes
<1>. QED  BY <1>2, <1>4, <1>5, <1>6 DEF Number, SeqOf

(* If no two receipts have one seq, the body that seq_to_body holds for a  *)
(* receipt's seq is its own.                                               *)
LEMMA LinkIsOwn ==
    ASSUME AllRecorded, NEW p \in recorded,
           \A q \in recorded : SeqOf(q) = SeqOf(p) => q = p
    PROVE  LinkOf(p) = BodyOf(receipts[p])["prev_receipt"]
<1>1. \A q \in recorded :
        IsObj(receipts[q]) /\ IsObj(Get(Members(receipts[q]), "body"))
  BY DEF AllRecorded, AllAcceptable, Acceptable, EnvelopeErrors
<1>2. \A q \in recorded : Get(BodyOf(receipts[q]), "seq") = SeqOf(q)
  BY RecordedNumbers
<1>3. EnvelopesWithSeq(SeqOf(p)) = {p}
  BY <1>1, <1>2 DEF EnvelopesWithSeq, AllRecorded
<1>4. p \in Nat /\ IsStr(SeqOf(p))
      /\ "prev_receipt" \in DOMAIN BodyOf(receipts[p])
  BY RecordedNumbers DEF RECEIPT_BODY_REQUIRED_FIELDS
<1>5. (CHOOSE q \in {p} : \A r \in {p} : r <= q) = p
  BY <1>4
<1>. QED  BY <1>3, <1>4, <1>5 DEF LinkOf, GetOr

-----------------------------------------------------------------------------
(* In a whole chain neither check of the sequence finds an error.          *)
LEMMA ChainHasNoErrors ==
    ASSUME AllRecorded, Chained(receipts)
    PROVE  Gaps = {} /\ Unlinked = {}
<1> DEFINE num(p) == IntOf(SeqOf(p))
<1>1. \A p \in recorded : p \in Nat /\ num(p) \in Nat \ {0}
                          /\ Number(receipts[p]) = num(p)
  BY RecordedNumbers
<1>2. \A p, q \in recorded : num(p) = num(q) => p = q
  BY <1>1 DEF Chained, AllRecorded
<1>3. \A q \in recorded :
        \/ num(q) = 1 /\ BodyOf(receipts[q])["prev_receipt"] = Genesis
        \/ \E j \in recorded :
              /\ num(q) = num(j) + 1
              /\ BodyOf(receipts[q])["prev_receipt"] = ReceiptHash(j)
  BY <1>1 DEF Chained, AllRecorded, IsGenesis, Follows, ReceiptHash
<1>4. \A q \in recorded : LinkOf(q) = BodyOf(receipts[q])["prev_receipt"]
  BY <1>2, LinkIsOwn
<1>5. \A p, q \in recorded : Before(p, q) <=> num(p) < num(q)
  BY <1>1, <1>2 DEF Before
<1> HIDE DEF num
<1>6. \A p, q \in recorded : Adjacent(p, q) => num(q) = num(p) + 1
  <2>. SUFFICES ASSUME NEW p \in recorded, NEW q \in recorded, Adjacent(p, q)
                PROVE  num(q) = num(p) + 1
    OBVIOUS
  <2>1. num(p) < num(q)
    BY <1>5 DEF Adjacent
  <2>2. PICK j \in recorded : num(q) = num(j) + 1
    BY <1>1, <1>3, <2>1
  <2>3. ~(num(p) < num(j))
    BY <1>1, <1>5, <2>2 DEF Adjacent
  <2>. QED  BY <1>1, <2>1, <2>2, <2>3
<1>7. Gaps = {}
  BY <1>6 DEF Gaps, num
<1>8. Unlinked = {}
  <2>. SUFFICES ASSUME NEW q \in recorded
                PROVE  q \notin Unlinked
    BY DEF Unlinked
  <2>1. CASE First(q)
    <3>1. ~\E j \in recorded : num(q) = num(j) + 1
      BY <1>1, <1>5, <2>1 DEF First
    <3>2. num(q) = 1 /\ LinkOf(q) = Genesis
      BY <1>3, <1>4, <3>1
    <3>. QED  BY <2>1, <3>2 DEF Unlinked, num
  <2>2. CASE ~First(q)
    <3>. SUFFICES ASSUME NEW p \in recorded, Adjacent(p, q)
                  PROVE  LinkOf(q) = ReceiptHash(p)
      BY <2>2 DEF Unlinked
    <3>1. num(q) = num(p) + 1 /\ num(q) # 1
      BY <1>1, <1>6
    <3>2. PICK j \in recorded :
              /\ num(q) = num(j) + 1
              /\ BodyOf(receipts[q])["prev_receipt"] = ReceiptHash(j)
      BY <1>3, <3>1
    <3>3. num(j) = num(p)
      BY <1>1, <3>1, <3>2
    <3>4. j = p
      BY <1>2, <3>3 DEF num
    <3>. QED  BY <1>4, <3>2, <3>4
  <2>. QED  BY <2>1, <2>2
<1>. QED  BY <1>7, <1>8

(* Without gaps, neighbours in the sorted sequence have adjacent numbers.  *)
LEMMA NoGapsAdjacent ==
    ASSUME Gaps = {}, NEW p \in recorded, NEW q \in recorded, Adjacent(p, q)
    PROVE  IntOf(SeqOf(q)) = IntOf(SeqOf(p)) + 1
<1> DEFINE pair == <<p, q>>
<1>1. pair \in recorded \X recorded /\ pair[1] = p /\ pair[2] = q
  OBVIOUS
<1>2. pair \notin Gaps
  OBVIOUS
<1> HIDE DEF pair
<1>. QED  BY <1>1, <1>2 DEF Gaps

(* Receipts with one number would stand next to each other somewhere in    *)
(* the sorted sequence, and count as a gap there.                          *)
LEMMA NoGapsNoRepetition ==
    ASSUME AllRecorded, Gaps = {}
    PROVE  \A p, q \in recorded : IntOf(SeqOf(p)) = IntOf(SeqOf(q)) => p = q
<1> DEFINE num(p) == IntOf(SeqOf(p))
<1>1. \A p \in recorded : p \in Nat /\ num(p) \in Nat
  BY RecordedNumbers
<1>2. ASSUME NEW p \in recorded, NEW q \in recorded,
             num(p) = num(q), p < q
      PROVE  FALSE
  <2> DEFINE T == {r \in recorded : num(r) = num(p) /\ p < r}
  <2>1. PICK m \in T : \A y \in T : m <= y
    <3>1. T \subseteq Nat /\ T # {}
      BY <1>1, <1>2
    <3>. HIDE DEF T
    <3>. QED  BY <3>1, LeastNat
  <2>2. Adjacent(p, m)
    <3>1. Before(p, m)
      BY <2>1 DEF Before
    <3>2. ASSUME NEW r \in recorded, Before(p, r), Before(r, m)
          PROVE  FALSE
      <4>1. num(r) = num(p) /\ p < r /\ r < m
        BY <1>1, <2>1, <3>2 DEF Before
      <4>2. m <= r
        BY <2>1, <4>1
      <4>. QED  BY <1>1, <2>1, <4>1, <4>2
    <3>. QED  BY <3>1, <3>2 DEF Adjacent
  <2>3. num(m) = num(p) + 1
    BY <2>1, <2>2, NoGapsAdjacent
  <2>. QED  BY <1>1, <2>1, <2>3
<1>. QED  BY <1>1, <1>2

(* Conversely, a sequence with no error is a whole chain.                  *)
LEMMA NoErrorsMeansChain ==
    ASSUME AllRecorded, Gaps = {}, Unlinked = {}
    PROVE  Chained(receipts)
<1> DEFINE num(p) == IntOf(SeqOf(p))
<1>1. \A p \in recorded : p \in Nat /\ num(p) \in Nat \ {0}
                          /\ Number(receipts[p]) = num(p)
  BY RecordedNumbers
<1>2. \A p, q \in recorded : num(p) = num(q) => p = q
  BY NoGapsNoRepetition
<1>3. \A q \in recorded : LinkOf(q) = BodyOf(receipts[q])["prev_receipt"]
  BY <1>2, LinkIsOwn
<1>4. \A p, q \in recorded : Before(p, q) <=> num(p) < num(q)
  BY <1>1, <1>2 DEF Before
<1>5. ASSUME NEW q \in recorded
      PROVE  \/ IsGenesis(receipts[q])
             \/ \E j \in recorded : Follows(receipts[q], receipts[j])
  <2>0. q \notin Unlinked
    OBVIOUS
  <2>1. CASE First(q)
    <3>1. num(q) = 1 /\ LinkOf(q) = Genesis
      BY <2>0, <2>1 DEF Unlinked
    <3>. QED  BY <1>1, <1>3, <3>1 DEF IsGenesis
  <2>2. CASE ~First(q)
    <3> HIDE DEF num
    <3> DEFINE T == {num(q) - num(r) : r \in {s \in recorded : num(s) < num(q)}}
    <3>1. T \subseteq Nat /\ T # {}
      BY <1>1, <1>4, <2>2 DEF First
    <3>2. PICK m \in T : \A y \in T : m <= y
      <4>. HIDE DEF T
      <4>. QED  BY <3>1, LeastNat
    <3>3. PICK p \in recorded : num(p) < num(q) /\ m = num(q) - num(p)
      BY <3>2
    <3>4. Adjacent(p, q)
      <4>1. ASSUME NEW r \in recorded, num(p) < num(r), num(r) < num(q)
            PROVE  FALSE
        <5>1. num(q) - num(r) \in T
          BY <4>1
        <5>2. num(q) - num(p) <= num(q) - num(r)
          BY <3>2, <3>3, <5>1
        <5>. QED  BY <1>1, <4>1, <5>2
      <4>. QED  BY <1>4, <3>3, <4>1 DEF Adjacent
    <3>5. num(q) = num(p) + 1
      BY <3>4, NoGapsAdjacent DEF num
    <3>6. LinkOf(q) = ReceiptHash(p)
      BY <2>0, <2>2, <3>4 DEF Unlinked
    <3>7. Follows(receipts[q], receipts[p])
      BY <1>1, <1>3, <3>5, <3>6 DEF Follows, ReceiptHash
    <3>. QED  BY <3>7
  <2>. QED  BY <2>1, <2>2
<1>. QED  BY <1>1, <1>2, <1>5 DEF Chained, AllRecorded

-----------------------------------------------------------------------------
(* Checking the sequence raises only if a receipt is not acceptable.       *)
LEMMA RecordedRaiseNothing ==
    ASSUME AllAcceptable(receipts, keys), recorded \subseteq DOMAIN receipts
    PROVE  ~SequenceRaises
<1>1. \A p \in DOMAIN receipts :
        /\ EnvelopeErrors(receipts[p]) = {}
        /\ BodyFieldErrors(BodyOf(receipts[p])) = {}
        /\ FieldTypeErrors(BodyOf(receipts[p])) = {}
  BY DEF AllAcceptable, Acceptable
<1>2. \A p \in DOMAIN receipts : HasInt(SeqOf(p))
  BY <1>1, ValidatedBody DEF SeqOf
<1>3. \A p \in DOMAIN receipts :
        /\ IsObj(receipts[p])
        /\ GetOr(Members(receipts[p]), "body", Obj(<<>>))[1] = "obj"
  <2>1. \A p \in DOMAIN receipts :
          IsObj(receipts[p]) /\ IsObj(Get(Members(receipts[p]), "body"))
    BY <1>1 DEF EnvelopeErrors
  <2>. QED  BY <2>1 DEF GetOr, Get, IsObj, Null
<1>. QED  BY <1>2, <1>3 DEF SequenceRaises

-----------------------------------------------------------------------------
(* An exception in the loop is about a receipt that is not acceptable.     *)
LEMMA RaisingReceipt ==
    ASSUME LoopTypeOK, RaiseOnReceipt
    PROVE  ~AllAcceptable(receipts, keys)
<1>. SUFFICES ASSUME AllAcceptable(receipts, keys) PROVE FALSE
  OBVIOUS
<1>1. Acceptable(Envelope, keys)
  <2>1. PICK n \in Nat : Len(receipts) = n /\ DOMAIN receipts = 1..n
    BY InputLength DEF LoopTypeOK
  <2>2. pos \in DOMAIN receipts
    BY <2>1 DEF LoopTypeOK, RaiseOnReceipt, Screened, InLoop
  <2>. QED  BY <2>2 DEF AllAcceptable, Envelope
<1>2. ~CanonicalizeRaises(Body) /\ ~ReceiptRaises(keys, Body, SigOf(Envelope))
  BY <1>1, AcceptableRaisesNothing DEF Body
<1>3. BodyFieldErrors(Body) = {} /\ FieldTypeErrors(Body) = {}
  BY <1>1 DEF Acceptable, Body
<1>4. HasSeq
  BY <1>3, ValidatedBody DEF HasSeq, RECEIPT_BODY_REQUIRED_FIELDS
<1>. QED  BY <1>2, <1>4 DEF RaiseOnReceipt

(* The status the layer is left with is the verdict on its input.          *)
LEMMA LeavesVerdict ==
    ASSUME LoopTypeOK, LoopInv, SkipSequence \/ CheckSequence
    PROVE  ri' = Verdict(receipts, keys)
<1>1. PICK n \in Nat : /\ Len(receipts) = n /\ DOMAIN receipts = 1..n
                       /\ receipts = <<>> <=> n = 0
  BY InputLength DEF LoopTypeOK
<1>2. pos = n + 1 /\ pc = "receipts" /\ 1..pos - 1 = 1..n
  BY <1>1 DEF LoopTypeOK, SkipSequence, CheckSequence, LoopDone
<1>3. receipts = <<>> <=> n = 0
  BY <1>1
<1>4. ri \in {"INCONCLUSIVE", "FAIL", "UNSUPPORTED_VERSION"}
  BY <1>2 DEF LoopTypeOK, LoopInv, LayerStatus
<1>5. ri = "UNSUPPORTED_VERSION"
        <=> \E i \in DOMAIN receipts : Unsupported(receipts[i])
  BY <1>1, <1>2 DEF LoopInv
<1>6. CASE ri = "UNSUPPORTED_VERSION"
  <2>1. ri' = ri
    BY <1>6 DEF SkipSequence, CheckSequence, AfterFatal
  <2>2. n # 0
    BY <1>1, <1>5, <1>6
  <2>. QED  BY <1>3, <1>5, <1>6, <2>1, <2>2 DEF Verdict
<1>7. CASE ri = "FAIL"
  <2>1. ri' = "FAIL" /\ ~(AllAcceptable(receipts, keys) /\ Chained(receipts))
    BY <1>1, <1>2, <1>7 DEF SkipSequence, CheckSequence, LoopInv
  <2>2. n # 0
    <3>. SUFFICES ASSUME n = 0 PROVE FALSE
      OBVIOUS
    <3>1. DOMAIN receipts = {}
      BY <1>1
    <3>. QED  BY <2>1, <3>1 DEF AllAcceptable, Chained
  <2>. QED  BY <1>3, <1>5, <1>7, <2>1, <2>2 DEF Verdict
<1>8. CASE ri = "INCONCLUSIVE"
  <2>1. /\ recorded = 1..n
        /\ AllAcceptable(receipts, keys)
    BY <1>1, <1>2, <1>8 DEF LoopInv, AllAcceptable
  <2>2. AllRecorded
    BY <1>1, <2>1 DEF AllRecorded, LoopTypeOK
  <2>3. SequenceErrors = {} <=> Chained(receipts)
    BY <2>2, ChainHasNoErrors, NoErrorsMeansChain DEF SequenceErrors
  <2>4. CASE n = 0
    <3>1. recorded = {}
      BY <2>1, <2>4
    <3>2. ri' = ri
      BY <3>1 DEF SkipSequence, CheckSequence
    <3>. QED  BY <1>3, <1>8, <2>4, <3>2 DEF Verdict
  <2>5. CASE n # 0
    <3>1. recorded # {}
      BY <1>2, <2>1, <2>5
    <3>2. ri' = IF SequenceErrors = {} THEN "PASS" ELSE "FAIL"
      BY <1>8, <3>1 DEF SkipSequence, CheckSequence, AfterFatal
    <3>. QED  BY <1>3, <1>5, <1>8, <2>1, <2>3, <2>5, <3>2 DEF Verdict
  <2>. QED  BY <2>4, <2>5
<1>. QED  BY <1>4, <1>6, <1>7, <1>8

(* When layer 1 has returned, its status is the verdict on the input.      *)
VerdictGiven == pc = "anchor" => ri = Verdict(receipts, keys)

(* The step that leaves layer 1 gives the verdict.                         *)
LEMMA VerdictStep ==
    LoopTypeOK /\ LoopInv /\ VerdictGiven /\ [Layer1Next]_l1vars
        => VerdictGiven'
<1>. SUFFICES ASSUME LoopTypeOK, LoopInv, VerdictGiven,
                     [Layer1Next]_l1vars, pc' = "anchor"
              PROVE  ri' = Verdict(receipts', keys')
  BY DEF VerdictGiven
<1>1. CASE CheckEnvelope
  <2>1. pc' \in {"receipts", "raised"}
    BY <1>1, EnvelopeStep DEF InLoop
  <2>. QED  BY <2>1
<1>2. CASE SkipSequence \/ CheckSequence
  <2>1. ri' = Verdict(receipts, keys)
    BY <1>2, LeavesVerdict
  <2>2. receipts' = receipts /\ keys' = keys
    BY <1>2 DEF SkipSequence, CheckSequence, Return, inputs
  <2>. QED  BY <2>1, <2>2
<1>3. CASE RaiseOnSequence
  BY <1>3 DEF RaiseOnSequence
<1>4. CASE UNCHANGED l1vars
  BY <1>4 DEF l1vars, VerdictGiven
<1>. QED  BY <1>1, <1>2, <1>3, <1>4 DEF Layer1Next

(* A PASS is given to a whole chain of acceptable receipts.                *)
LEMMA PassIsEarned ==
    ASSUME VerdictGiven, pc = "anchor", ri = "PASS"
    PROVE  AllAcceptable(receipts, keys) /\ Chained(receipts)
BY DEF VerdictGiven, Verdict

(* For inputs of every length, in every order, layer 1 decides as          *)
(* ReceiptChain says: PASS is given to whole chains of acceptable receipts *)
(* and to nothing else, and only an input with an unacceptable receipt can *)
(* make it raise.                                                          *)
THEOREM Layer1KeepsPromise == Layer1Spec => ImplementsVerdict
<1>1. Layer1Init => Promise!Init
  BY DEF Layer1Init, Promise!Init, LayerVerdict
<1>2. LoopTypeOK /\ LoopInv /\ [Layer1Next]_l1vars
        => [Promise!Next]_(Promise!vars)
  <2>. SUFFICES ASSUME LoopTypeOK, LoopInv, [Layer1Next]_l1vars
                PROVE  [Promise!Next]_(Promise!vars)
    OBVIOUS
  <2>0. ri \in LayerStatus
    BY DEF LoopTypeOK
  <2>1. CASE CheckEnvelope /\ ~RaiseOnReceipt
    <3>1. pc = "receipts" /\ pc' = "receipts" /\ UNCHANGED inputs
      BY <2>1, EnvelopeStaysInLoop DEF InLoop
    <3>. QED  BY <3>1 DEF Promise!vars, LayerVerdict, inputs
  <2>2. CASE RaiseOnReceipt
    <3>1. ~AllAcceptable(receipts, keys)
      BY <2>2, RaisingReceipt
    <3>2. Promise!Raise
      BY <2>2, <3>1 DEF RaiseOnReceipt, Screened, InLoop, inputs,
                        Promise!Raise, LayerVerdict
    <3>. QED  BY <3>2 DEF Promise!Next
  <2>3. CASE SkipSequence \/ CheckSequence
    <3>1. ri' = Verdict(receipts, keys)
      BY <2>3, LeavesVerdict
    <3>2. Promise!Decide
      BY <2>3, <3>1 DEF SkipSequence, CheckSequence, LoopDone, Return, inputs,
                        Promise!Decide, LayerVerdict
    <3>. QED  BY <3>2 DEF Promise!Next
  <2>4. CASE RaiseOnSequence
    <3>1. ~AllAcceptable(receipts, keys)
      <4>1. PICK n \in Nat : Len(receipts) = n /\ DOMAIN receipts = 1..n
        BY InputLength DEF LoopTypeOK
      <4>2. recorded \subseteq DOMAIN receipts
        BY <4>1 DEF LoopTypeOK
      <4>. QED  BY <2>4, <4>2, RecordedRaiseNothing DEF RaiseOnSequence
    <3>2. Promise!Raise
      BY <2>4, <3>1 DEF RaiseOnSequence, LoopDone, inputs,
                        Promise!Raise, LayerVerdict
    <3>. QED  BY <3>2 DEF Promise!Next
  <2>5. CASE UNCHANGED l1vars
    BY <2>5 DEF l1vars, Promise!vars, LayerVerdict
  <2>. QED  BY <2>1, <2>2, <2>3, <2>4, <2>5 DEF Layer1Next
<1>. QED  BY <1>1, <1>2, Layer1Invariant, PTL
          DEF Layer1Spec, ImplementsVerdict, Promise!Spec

-----------------------------------------------------------------------------
(* Cutting off the finer digits leaves a number of microseconds.           *)
LEMMA ParsedTime ==
    ASSUME NEW v, IsTime(v) => v[3] \in Int
    PROVE  ParseTs(v) \in Int
<1>1. CASE IsTime(v)
  BY <1>1, TicksAssumption DEF ParseTs, IsTime
<1>2. CASE ~IsTime(v)
  BY <1>2 DEF ParseTs, IsTime, NoTime
<1>. QED  BY <1>1, <1>2

(* A time that parses is a timestamp.                                      *)
LEMMA OnlyTimesParse ==
    ASSUME NEW v, ParseTs(v) # NoTime
    PROVE  IsTime(v)
BY DEF ParseTs, IsTime

(* A key without a validity error is well-formed, and the receipt's time   *)
(* is in its window and before any revocation.                             *)
LEMMA ValidKey ==
    ASSUME NEW key, NEW v, HasTimes(key), IsTime(v) => v[3] \in Int,
           KeyValidityErrors(key, v) = {}
    PROVE  /\ WellFormedKey(key)
           /\ InWindow(key, ParseTs(v)) /\ ~RevokedAt(key, ParseTs(v))
<1> DEFINE ts == ParseTs(v)
           nb == Get(key, "not_before")
           na == Get(key, "not_after")
           rt == Get(key, "revocation_time")
           status == KeyStatus(key)
<1>1. /\ NotBeforeErrors(key, ts) = {} /\ NotAfterErrors(key, ts) = {}
      /\ RevocationErrors(key, ts) = {}
  BY DEF KeyValidityErrors, WindowErrors, ??
<1>2. ts \in Int
  BY ParsedTime
<1>3. ParseTs(nb) \in Int /\ ParseTs(na) \in Int /\ ParseTs(rt) \in Int
  BY ParsedTime DEF HasTimes
<1>4. Truthy(nb) => /\ nb = key["not_before"] /\ IsTime(nb)
                    /\ ParseTs(nb) <= ts
  <2>1. Truthy(nb) => nb = key["not_before"]
    BY DEF Get, Truthy
  <2>2. Truthy(nb) => ParseTs(nb) # NoTime /\ ~(ts < ParseTs(nb))
    BY <1>1 DEF NotBeforeErrors
  <2>. QED  BY <1>2, <1>3, <2>1, <2>2, OnlyTimesParse
<1>5. Truthy(na) => /\ na = key["not_after"] /\ IsTime(na)
                    /\ ts < ParseTs(na)
  <2>1. Truthy(na) => na = key["not_after"]
    BY DEF Get, Truthy
  <2>2. Truthy(na) => ParseTs(na) # NoTime /\ ~(ts >= ParseTs(na))
    BY <1>1 DEF NotAfterErrors
  <2>. QED  BY <1>2, <1>3, <2>1, <2>2, OnlyTimesParse
<1>6. \/ status \in {Text("active"), Text("retired")} /\ rt = Null
      \/ /\ status = Text("revoked_future_only")
         /\ ParseTs(rt) # NoTime /\ ~(ts >= ParseTs(rt))
  BY <1>1, NotRevoked
<1>7. status = Text("revoked_future_only") => IsTime(rt) /\ ~(ParseTs(rt) <= ts)
  <2>1. Text("revoked_future_only") \notin {Text("active"), Text("retired")}
    BY DEF Text
  <2>. QED  BY <1>2, <1>3, <1>6, <2>1, OnlyTimesParse
<1>8. WellFormedKey(key)
  BY <1>4, <1>5, <1>6, <1>7 DEF WellFormedKey, KeyStatus
<1>9. InWindow(key, ts)
  BY <1>4, <1>5 DEF InWindow
<1>10. ~RevokedAt(key, ts)
  <2>1. /\ Get(key, "status") = Text("revoked_all") => status = Text("revoked_all")
        /\ Get(key, "status") = Text("revoked_future_only")
             => status = Text("revoked_future_only")
    BY DEF Get, GetOr, KeyStatus, Text, Null
  <2>2. Text("revoked_all") \notin {Text("active"), Text("retired"),
                                    Text("revoked_future_only")}
    BY DEF Text
  <2>3. status = Text("revoked_future_only") => rt = key["revocation_time"]
    BY <1>7 DEF Get, IsTime, IsText, IsStr, Null
  <2>. QED  BY <1>6, <1>7, <2>1, <2>2, <2>3 DEF RevokedAt
<1>. QED  BY <1>8, <1>9, <1>10

(* An acceptable receipt selects exactly one key, without a validity error.*)
LEMMA AcceptableSelects ==
    ASSUME NEW e, Acceptable(e, keys)
    PROVE  \E i : /\ KeysOf(e) = {i} /\ i \in DOMAIN Entries
                  /\ IsObj(Entries[i])
                  /\ IsList(GetOr(keys, "keys", List(<<>>)))
                  /\ KeyValidityErrors(Members(Entries[i]), BodyOf(e)["ts"]) = {}
<1> DEFINE kid     == GetOr(SigOf(e), "kid", Empty)
           entries == GetOr(keys, "keys", List(<<>>))
           list    == Items(entries)
<1>1. /\ Get(keys, "tenant") = BodyOf(e)["tenant"]
      /\ GetOr(SigOf(e), "alg", Empty) = Text("EdDSA") /\ IsList(entries)
      /\ \A i \in DOMAIN list : IsObj(list[i])
  BY AcceptableKey
<1>2. PICK i \in DOMAIN list :
          /\ AlgMatches(list, kid, Text("EdDSA")) = {i}
          /\ KeyValidityErrors(Members(list[i]), BodyOf(e)["ts"]) = {}
  BY AcceptableKey
<1>3. Entries = list
  BY <1>1 DEF Entries
<1>4. KeysOf(e) = {i}
  BY <1>1, <1>2, <1>3 DEF KeysOf, Selects, AlgMatches, Candidates
<1>. QED  BY <1>1, <1>2, <1>3, <1>4

(* For every key set and every input, a PASS of layer 1 follows the key    *)
(* rules.                                                                  *)
THEOREM KeyRulesHold == Layer1Spec => []PassFollowsKeyPolicy
<1>1. Layer1TypeOK /\ VerdictGiven => PassFollowsKeyPolicy
  <2>. SUFFICES ASSUME Layer1TypeOK, VerdictGiven, pc = "anchor", ri = "PASS",
                       NEW p \in DOMAIN receipts
                PROVE  LET e  == receipts[p]
                           ts == ParseTs(BodyOf(e)["ts"])
                       IN  /\ Cardinality(KeysOf(e)) = 1
                           /\ \A i \in KeysOf(e) :
                                LET key == Members(Entries[i])
                                IN  /\ WellFormedKey(key)
                                    /\ InWindow(key, ts) /\ ~RevokedAt(key, ts)
    BY DEF PassFollowsKeyPolicy
  <2> DEFINE e == receipts[p]
             v == BodyOf(e)["ts"]
  <2>1. Acceptable(e, keys)
    BY PassIsEarned DEF AllAcceptable
  <2>2. e \in Envelopes
    BY DEF Layer1TypeOK
  <2>3. IsTime(v) => v[3] \in Int
    <3>1. HasTimes(BodyOf(e))
      BY <2>1, <2>2, TimesAssumption DEF Acceptable
    <3>2. "ts" \in DOMAIN BodyOf(e)
      BY <2>1, ValidatedBody DEF Acceptable, RECEIPT_BODY_REQUIRED_FIELDS
    <3>. QED  BY <3>1, <3>2 DEF HasTimes, Get
  <2>4. PICK i : /\ KeysOf(e) = {i} /\ i \in DOMAIN Entries
                 /\ IsObj(Entries[i])
                 /\ IsList(GetOr(keys, "keys", List(<<>>)))
                 /\ KeyValidityErrors(Members(Entries[i]), v) = {}
    BY <2>1, AcceptableSelects
  <2>5. HasTimes(Members(Entries[i]))
    <3>1. keys \in KeySets
      BY DEF Layer1TypeOK
    <3>. QED  BY <2>4, <3>1, TimesAssumption DEF Entries
  <2>6. Cardinality({i}) = 1
    BY FS_Singleton
  <2>7. /\ WellFormedKey(Members(Entries[i]))
        /\ InWindow(Members(Entries[i]), ParseTs(v))
        /\ ~RevokedAt(Members(Entries[i]), ParseTs(v))
    BY <2>3, <2>4, <2>5, ValidKey
  <2>. QED  BY <2>4, <2>6, <2>7
<1>2. Layer1Init => VerdictGiven
  BY DEF Layer1Init, VerdictGiven
<1>3. Layer1Spec => []VerdictGiven
  BY <1>2, VerdictStep, Layer1Invariant, PTL DEF Layer1Spec
<1>. QED  BY <1>1, <1>3, Layer1TypeCorrect, PTL

-----------------------------------------------------------------------------
(* Cutting off the digits of a time leaves a natural number, which is not  *)
(* the mark of a text that does not parse.                                 *)
LEMMA TimeParses ==
    ASSUME NEW v, IsTime(v), v[3] \in Nat
    PROVE  ParseTs(v) \in Nat /\ ParseTs(v) # NoTime
<1>1. ParseTs(v) = v[3] \div TicksPerMicrosecond
  BY DEF ParseTs, IsTime
<1>2. ParseTs(v) \in Nat
  BY <1>1, TicksAssumption
<1>. QED  BY <1>2 DEF NoTime

(* The window and the revocation of a well-formed key decide the code of a *)
(* time, the window first.                                                 *)
LEMMA ValidityDecides ==
    ASSUME NEW key, NEW v, HasTimes(key), WellFormedKey(key),
           IsTime(v), v[3] \in Nat
    PROVE  LET ts == ParseTs(v)
           IN  KeyValidityErrors(key, v) =
                 IF ~InWindow(key, ts) THEN {"KEY_NOT_VALID_AT_RECEIPT_TIME"}
                 ELSE IF RevokedAt(key, ts) THEN {"KEY_REVOKED"}
                 ELSE {}
<1> DEFINE ts == ParseTs(v)
           nb == Get(key, "not_before")
           na == Get(key, "not_after")
           rt == Get(key, "revocation_time")
           status == KeyStatus(key)
<1>1. ts \in Nat /\ ts # NoTime
  BY TimeParses
<1>2. Truthy(nb) => /\ nb = key["not_before"]
                    /\ ParseTs(nb) \in Nat /\ ParseTs(nb) # NoTime
  <2>1. Truthy(nb) => nb = key["not_before"]
    BY DEF Get, Truthy
  <2>. QED  BY <2>1, TimeParses DEF WellFormedKey, HasTimes
<1>3. Truthy(na) => /\ na = key["not_after"]
                    /\ ParseTs(na) \in Nat /\ ParseTs(na) # NoTime
  <2>1. Truthy(na) => na = key["not_after"]
    BY DEF Get, Truthy
  <2>. QED  BY <2>1, TimeParses DEF WellFormedKey, HasTimes
<1>4. NotBeforeErrors(key, ts) =
        IF Truthy(nb) /\ ~(ParseTs(nb) <= ts)
        THEN {"KEY_NOT_VALID_AT_RECEIPT_TIME"} ELSE {}
  BY <1>1, <1>2 DEF NotBeforeErrors
<1>5. NotAfterErrors(key, ts) =
        IF Truthy(na) /\ ~(ts < ParseTs(na))
        THEN {"KEY_NOT_VALID_AT_RECEIPT_TIME"} ELSE {}
  BY <1>1, <1>3 DEF NotAfterErrors
<1>6. WindowErrors(key, ts) =
        IF InWindow(key, ts) THEN {} ELSE {"KEY_NOT_VALID_AT_RECEIPT_TIME"}
  <2>1. InWindow(key, ts) <=> /\ Truthy(nb) => ParseTs(nb) <= ts
                              /\ Truthy(na) => ts < ParseTs(na)
    BY <1>2, <1>3 DEF InWindow
  <2>. QED  BY <1>4, <1>5, <2>1 DEF WindowErrors, ??
<1>7. RevocationErrors(key, ts) =
        IF RevokedAt(key, ts) THEN {"KEY_REVOKED"} ELSE {}
  <2>1. /\ Get(key, "status") = Text("revoked_all")
             <=> status = Text("revoked_all")
        /\ Get(key, "status") = Text("revoked_future_only")
             <=> status = Text("revoked_future_only")
    BY DEF Get, GetOr, KeyStatus, Text, Null
  <2>2. /\ Text("revoked_all") \notin {Text("active"), Text("retired"),
                                       Text("revoked_future_only")}
        /\ Text("revoked_future_only") \notin {Text("active"), Text("retired")}
    BY DEF Text
  <2>3. IsTime(rt) => /\ rt = key["revocation_time"] /\ Truthy(rt)
                      /\ ParseTs(rt) \in Nat /\ ParseTs(rt) # NoTime
    <3>1. IsTime(rt) => rt = key["revocation_time"]
      BY DEF Get, IsTime, IsText, IsStr, Null
    <3>2. IsTime(rt) => Truthy(rt)
      <4>1. /\ Null[1] # "str" /\ Num(0)[1] # "str" /\ List(<<>>)[1] # "str"
            /\ Empty[2] # "time"
        BY DEF Null, Num, List, Empty, Text
      <4>2. IsTime(rt) => rt[1] = "str" /\ rt[2] = "time"
        BY DEF IsTime, IsText, IsStr
      <4>. QED  BY <4>1, <4>2 DEF Truthy
    <3>. QED  BY <3>1, <3>2, TimeParses DEF HasTimes
  <2>4. \/ status \in {Text("active"), Text("retired")} /\ rt = Null
        \/ /\ status \in {Text("revoked_future_only"), Text("revoked_all")}
           /\ IsTime(rt)
    BY DEF WellFormedKey, KeyStatus
  <2>5. CASE status = Text("revoked_all")
    <3>1. RevocationErrors(key, ts) = {"KEY_REVOKED"}
      BY <2>2, <2>3, <2>4, <2>5 DEF RevocationErrors
    <3>. QED  BY <2>1, <2>5, <3>1 DEF RevokedAt
  <2>6. CASE status = Text("revoked_future_only")
    <3>1. IsTime(rt)
      BY <2>2, <2>4, <2>6
    <3>2. RevocationErrors(key, ts) =
            IF ts >= ParseTs(rt) THEN {"KEY_REVOKED"} ELSE {}
      BY <2>2, <2>3, <2>6, <3>1 DEF RevocationErrors
    <3>. QED  BY <1>1, <2>1, <2>2, <2>3, <2>6, <3>1, <3>2 DEF RevokedAt
  <2>7. CASE status \in {Text("active"), Text("retired")} /\ rt = Null
    <3>1. RevocationErrors(key, ts) = {}
      BY <2>2, <2>7 DEF RevocationErrors
    <3>. QED  BY <2>1, <2>2, <2>7, <3>1 DEF RevokedAt
  <2>. QED  BY <2>4, <2>5, <2>6, <2>7
<1>. QED  BY <1>1, <1>6, <1>7 DEF KeyValidityErrors, ??

(* What a receipt without another defect is reported for, by the keys it   *)
(* selects.                                                                *)
LEMMA KeysDecide ==
    ASSUME NEW e, NoOtherDefect(e), WellFormedKeySet
    PROVE  LET found == ReceiptErrors(keys, BodyOf(e), SigOf(e), "INCONCLUSIVE")
           IN  /\ KeysOf(e) = {} =>
                    found \in {{"KEY_NOT_FOUND"}, {"KEY_ALGORITHM_MISMATCH"}}
               /\ (\E i, j \in KeysOf(e) : i # j) => found = {"AMBIGUOUS_KEY"}
               /\ \A i \in KeysOf(e) : KeysOf(e) = {i} =>
                    LET validity == KeyValidityErrors(Members(Entries[i]),
                                                      BodyOf(e)["ts"])
                    IN  \E signature \in SUBSET {"UNSUPPORTED_ALGORITHM",
                                                 "SIGNATURE_INVALID"} :
                            found = validity \cup signature
<1> DEFINE body == BodyOf(e)
           kid  == GetOr(SigOf(e), "kid", Empty)
           alg  == GetOr(SigOf(e), "alg", Empty)
           entries == GetOr(keys, "keys", List(<<>>))
           list == Items(entries)
           found == ReceiptErrors(keys, body, SigOf(e), "INCONCLUSIVE")
           lookup == LookupErrors(keys, body["tenant"], kid, alg)
<1>1. "keys" \in DOMAIN keys /\ entries = keys["keys"] /\ IsList(entries)
  BY DEF WellFormedKeySet, Get, GetOr, IsList, Null
<1>2. Entries = list /\ \A i \in DOMAIN list : IsObj(list[i])
  BY <1>1 DEF Entries, WellFormedKeySet
<1>3. alg = Text("EdDSA")
  BY DEF NoOtherDefect
<1>4. KeysOf(e) = IF Get(keys, "tenant") = body["tenant"]
                  THEN AlgMatches(list, kid, alg) ELSE {}
  BY <1>2 DEF KeysOf, Selects, AlgMatches, Candidates
<1>5. CASE KeysOf(e) = {}
  <2>1. lookup \in {{"KEY_NOT_FOUND"}, {"KEY_ALGORITHM_MISMATCH"}}
    BY <1>1, <1>2, <1>4, <1>5 DEF LookupErrors
  <2>. QED  BY <1>3, <1>5, <2>1 DEF ReceiptErrors
<1>6. CASE \E i, j \in KeysOf(e) : i # j
  <2>0. Get(keys, "tenant") = body["tenant"] /\ KeysOf(e) = AlgMatches(list, kid, alg)
    BY <1>4, <1>6
  <2>1. lookup = {"AMBIGUOUS_KEY"}
    <3>1. Candidates(list, kid) # {}
      BY <1>6, <2>0 DEF AlgMatches
    <3>. QED  BY <1>1, <1>2, <1>6, <2>0, <3>1 DEF LookupErrors
  <2>. QED  BY <1>3, <1>6, <2>1 DEF ReceiptErrors
<1>7. ASSUME NEW i \in KeysOf(e), KeysOf(e) = {i}
      PROVE  LET validity == KeyValidityErrors(Members(Entries[i]), body["ts"])
             IN  \E signature \in SUBSET {"UNSUPPORTED_ALGORITHM",
                                          "SIGNATURE_INVALID"} :
                     found = validity \cup signature
  <2> DEFINE key == SelectedKey(keys, kid, alg)
             validity == KeyValidityErrors(key, body["ts"])
             signature == SignatureErrors(key, body, GetOr(SigOf(e), "value", Empty))
  <2>0. Get(keys, "tenant") = body["tenant"] /\ AlgMatches(list, kid, alg) = {i}
    BY <1>4, <1>7
  <2>1. lookup = {}
    <3>1. Candidates(list, kid) # {}
      BY <2>0 DEF AlgMatches
    <3>. QED  BY <1>1, <1>2, <2>0, <3>1 DEF LookupErrors
  <2>2. key = Members(Entries[i])
    <3>1. (CHOOSE j \in AlgMatches(list, kid, alg) : TRUE) = i
      BY <2>0
    <3>. QED  BY <1>1, <1>2, <3>1 DEF SelectedKey
  <2>3. found = validity \/ found = validity \cup signature
    BY <1>3, <2>1 DEF ReceiptErrors
  <2>4. signature \in SUBSET {"UNSUPPORTED_ALGORITHM", "SIGNATURE_INVALID"}
    BY DEF SignatureErrors
  <2>. QED
    <3>1. CASE found = validity
      <4>1. found = validity \cup {}
        BY <3>1
      <4>. QED  BY <2>2, <4>1
    <3>2. CASE found = validity \cup signature
      BY <2>2, <2>4, <3>2
    <3>. QED  BY <2>3, <3>1, <3>2
<1>8. (\E i, j \in KeysOf(e) : i # j) => KeysOf(e) # {}
  OBVIOUS
<1>9. \A i : KeysOf(e) = {i} => ~\E k, j \in KeysOf(e) : k # j
  OBVIOUS
<1>. QED  BY <1>5, <1>6, <1>7, <1>8, <1>9

(* The errors of a receipt without another defect, those of the sequence   *)
(* aside, are the ones the key rules give it.                              *)
LEMMA PolicyDecides ==
    ASSUME NEW e, NoOtherDefect(e), WellFormedKeySet, HasTimes(BodyOf(e)),
           \A i \in DOMAIN Entries : HasTimes(Members(Entries[i])),
           NEW codes \in SUBSET {"SEQUENCE_GAP", "MISSING_PREVIOUS_RECEIPT"},
           errors = Fatal("receipt_integrity",
                          ReceiptErrors(keys, BodyOf(e), SigOf(e), "INCONCLUSIVE")
                            \cup codes)
    PROVE  LoneReceiptPolicy(e)
<1> DEFINE found == ReceiptErrors(keys, BodyOf(e), SigOf(e), "INCONCLUSIVE")
           v == BodyOf(e)["ts"]
           ts == ParseTs(v)
           ranges == {"SEQUENCE_GAP", "MISSING_PREVIOUS_RECEIPT"}
<1>1. \A c : c \notin ranges => (Reported(c) <=> c \in found)
  <2> DEFINE Err(c) == [code |-> c, layer |-> "receipt_integrity",
                        severity |-> "fatal"]
  <2>1. errors = {Err(c) : c \in found \cup codes}
    BY DEF Fatal
  <2>2. \A c : Err(c).code = c
    OBVIOUS
  <2> HIDE DEF Err, found
  <2>3. \A c : Reported(c) <=> c \in found \cup codes
    BY <2>1, <2>2 DEF Reported
  <2>. QED  BY <2>3
<1>2. /\ "KEY_NOT_FOUND" \notin ranges /\ "KEY_ALGORITHM_MISMATCH" \notin ranges
      /\ "AMBIGUOUS_KEY" \notin ranges /\ "KEY_REVOKED" \notin ranges
      /\ "KEY_NOT_VALID_AT_RECEIPT_TIME" \notin ranges
  OBVIOUS
<1>3. IsTime(v) /\ v[3] \in Nat
  <2>1. "ts" \in DOMAIN BodyOf(e)
    BY ValidatedBody DEF NoOtherDefect, RECEIPT_BODY_REQUIRED_FIELDS
  <2>. QED  BY <2>1 DEF HasTimes, Get, NoOtherDefect
<1>4. \A i \in KeysOf(e) : i \in DOMAIN Entries
  BY DEF KeysOf
<1>5. CASE KeysOf(e) = {}
  <2>1. found \in {{"KEY_NOT_FOUND"}, {"KEY_ALGORITHM_MISMATCH"}}
    BY <1>5, KeysDecide
  <2>. QED  BY <1>1, <1>2, <1>5, <2>1 DEF LoneReceiptPolicy
<1>6. CASE \E i, j \in KeysOf(e) : i # j
  <2>1. found = {"AMBIGUOUS_KEY"}
    BY <1>6, KeysDecide
  <2>2. \A i : KeysOf(e) # {i}
    BY <1>6
  <2>. QED  BY <1>1, <1>2, <1>6, <2>1, <2>2 DEF LoneReceiptPolicy
<1>7. CASE \E i : KeysOf(e) = {i}
  <2>1. PICK i \in KeysOf(e) : KeysOf(e) = {i}
    BY <1>7
  <2> DEFINE key == Members(Entries[i])
             validity == KeyValidityErrors(key, v)
  <2>2. PICK signature \in SUBSET {"UNSUPPORTED_ALGORITHM", "SIGNATURE_INVALID"} :
            found = validity \cup signature
    BY <2>1, KeysDecide
  <2>3. validity \subseteq {"INVALID_FIELD_TYPE", "KEY_NOT_VALID_AT_RECEIPT_TIME",
                            "KEY_REVOKED"}
    <3>1. \A t : /\ NotBeforeErrors(key, t) \subseteq
                       {"INVALID_FIELD_TYPE", "KEY_NOT_VALID_AT_RECEIPT_TIME"}
                 /\ NotAfterErrors(key, t) \subseteq
                       {"INVALID_FIELD_TYPE", "KEY_NOT_VALID_AT_RECEIPT_TIME"}
      BY DEF NotBeforeErrors, NotAfterErrors
    <3>2. \A t : RevocationErrors(key, t) \subseteq
                   {"INVALID_FIELD_TYPE", "KEY_REVOKED"}
      BY DEF RevocationErrors
    <3>. QED  BY <3>1, <3>2 DEF KeyValidityErrors, WindowErrors, ??
  <2>4. WellFormedKey(key) =>
          validity = IF ~InWindow(key, ts) THEN {"KEY_NOT_VALID_AT_RECEIPT_TIME"}
                     ELSE IF RevokedAt(key, ts) THEN {"KEY_REVOKED"}
                     ELSE {}
    BY <1>3, <1>4, ValidityDecides
  <2>5. ~Reported("AMBIGUOUS_KEY") /\ ~Reported("KEY_NOT_FOUND")
        /\ ~Reported("KEY_ALGORITHM_MISMATCH")
    BY <1>1, <1>2, <2>2, <2>3
  <2>6. WellFormedKey(key) =>
          /\ Reported("KEY_NOT_VALID_AT_RECEIPT_TIME") <=> ~InWindow(key, ts)
          /\ Reported("KEY_REVOKED") <=> InWindow(key, ts) /\ RevokedAt(key, ts)
    BY <1>1, <1>2, <2>2, <2>4
  <2>7. ~(\E j, k \in KeysOf(e) : j # k) /\ KeysOf(e) # {}
        /\ \A j \in KeysOf(e) : j = i
    BY <2>1
  <2>. QED  BY <2>5, <2>6, <2>7 DEF LoneReceiptPolicy
<1>. QED  BY <1>5, <1>6, <1>7

(* Where the loop is with a lone receipt that has no other defect: before  *)
(* it, or past it with the errors of the checks against the keys.          *)
LoneReceiptState ==
    Len(receipts) = 1 /\ NoOtherDefect(receipts[1]) =>
        \/ /\ pos = 1 /\ pc # "anchor"
           /\ ri = "INCONCLUSIVE" /\ errors = {} /\ recorded = {}
        \/ /\ pos = 2
           /\ \E codes \in SUBSET {"SEQUENCE_GAP", "MISSING_PREVIOUS_RECEIPT"} :
                 errors = Fatal("receipt_integrity",
                                ReceiptErrors(keys, BodyOf(receipts[1]),
                                              SigOf(receipts[1]), "INCONCLUSIVE")
                                  \cup codes)

(* Every step of layer 1 keeps it.                                         *)
LEMMA LoneReceiptStep ==
    LoopTypeOK /\ LoneReceiptState /\ [Layer1Next]_l1vars => LoneReceiptState'
<1>. SUFFICES ASSUME LoopTypeOK, LoneReceiptState, [Layer1Next]_l1vars,
                     (Len(receipts) = 1 /\ NoOtherDefect(receipts[1]))'
              PROVE  LoneReceiptState'
  BY DEF LoneReceiptState
<1> DEFINE e == receipts[1]
           found == ReceiptErrors(keys, BodyOf(e), SigOf(e), "INCONCLUSIVE")
           OfSequence == SUBSET {"SEQUENCE_GAP", "MISSING_PREVIOUS_RECEIPT"}
<1>1. receipts' = receipts /\ keys' = keys
  BY InputsKept DEF inputs
<1>2. Len(receipts) = 1 /\ NoOtherDefect(e)
  BY <1>1 DEF NoOtherDefect
<1>3. CASE CheckEnvelope
  <2>1. InLoop /\ pos = 1 /\ ri = "INCONCLUSIVE" /\ errors = {} /\ recorded = {}
    BY <1>2, <1>3, EnvelopeStep DEF LoneReceiptState, InLoop, LoopTypeOK
  <2>2. Envelope = e /\ Body = BodyOf(e)
    BY <2>1 DEF Envelope, Body
  <2>3. /\ EnvelopeErrors(e) = {} /\ BodyFieldErrors(Body) = {}
        /\ FieldTypeErrors(Body) = {} /\ CanonicalizationErrors(Body) = {}
    BY <1>2, <2>2 DEF NoOtherDefect
  <2>4. /\ AfterBodyFields(ri, Body) = "INCONCLUSIVE"
        /\ AfterFieldTypes(ri, Body) = "INCONCLUSIVE"
    BY <2>1, <2>3 DEF AfterBodyFields, AfterFieldTypes, AfterFatal, BodyFieldErrors
  <2>5. ~RejectEnvelope /\ ~RejectBody /\ ~RejectFields /\ ~RejectUncanonical
    BY <2>2, <2>3, <2>4
    DEF RejectEnvelope, RejectBody, RejectFields, RejectUncanonical
  <2>6. ~RejectRepeated
    BY <2>1 DEF RejectRepeated, Earlier
  <2>7. CASE RecordReceipt
    <3>1. pos' = 2
      BY <2>1, <2>7 DEF RecordReceipt, NextEnvelope
    <3>2. errors' = Fatal("receipt_integrity", found \cup {})
      <4>1. errors' = errors \cup Fatal("receipt_integrity",
                         BodyFieldErrors(Body) \cup FieldTypeErrors(Body) \cup found)
        BY <2>2, <2>4, <2>7 DEF RecordReceipt, ReportAlso, Report
      <4>. QED  BY <2>1, <2>3, <4>1
    <3>. QED  BY <1>1, <3>1, <3>2 DEF LoneReceiptState
  <2>8. CASE RaiseOnReceipt
    <3>1. pc' = "raised" /\ UNCHANGED <<pos, recorded, ri, errors>>
      BY <2>8 DEF RaiseOnReceipt
    <3>. QED  BY <1>1, <2>1, <3>1 DEF LoneReceiptState
  <2>. QED  BY <1>3, <2>5, <2>6, <2>7, <2>8 DEF CheckEnvelope
<1>4. CASE SkipSequence \/ CheckSequence \/ RaiseOnSequence
  <2>1. pos = 2 /\ pos' = pos
    BY <1>2, <1>4 DEF SkipSequence, CheckSequence, RaiseOnSequence, LoopDone,
                      Return, LoneReceiptState
  <2>2. PICK codes \in OfSequence :
            errors = Fatal("receipt_integrity", found \cup codes)
    BY <1>2, <2>1 DEF LoneReceiptState
  <2>3. \E more \in OfSequence : errors' = errors \cup Fatal("receipt_integrity", more)
    <3>1. SequenceErrors \in OfSequence
      BY DEF SequenceErrors
    <3>2. errors = errors \cup Fatal("receipt_integrity", {})
      BY DEF Fatal
    <3>3. CASE CheckSequence
      BY <3>1, <3>3 DEF CheckSequence, Report
    <3>4. CASE SkipSequence \/ RaiseOnSequence
      <4>1. errors' = errors /\ {} \in OfSequence
        BY <3>4 DEF SkipSequence, RaiseOnSequence
      <4>. QED  BY <3>2, <4>1
    <3>. QED  BY <1>4, <3>3, <3>4
  <2>4. PICK more \in OfSequence :
            errors' = errors \cup Fatal("receipt_integrity", more)
    BY <2>3
  <2>5. errors' = Fatal("receipt_integrity", found \cup (codes \cup more))
    BY <2>2, <2>4 DEF Fatal
  <2>6. codes \cup more \in OfSequence
    OBVIOUS
  <2>. QED  BY <1>1, <2>1, <2>5, <2>6 DEF LoneReceiptState
<1>5. CASE UNCHANGED l1vars
  BY <1>1, <1>2, <1>5 DEF l1vars, LoneReceiptState
<1>. QED  BY <1>3, <1>4, <1>5 DEF Layer1Next

(* For every key set, a lone receipt with no other defect gets the code of *)
(* the key rule it breaks, and only that.                                  *)
THEOREM LoneReceiptsGetTheirCode == Layer1Spec => []LoneReceiptGetsItsCode
<1>1. Layer1Init => LoneReceiptState
  BY DEF Layer1Init, LoneReceiptState
<1>2. Layer1TypeOK /\ LoneReceiptState => LoneReceiptGetsItsCode
  <2>. SUFFICES ASSUME Layer1TypeOK, LoneReceiptState, pc = "anchor",
                       Len(receipts) = 1, NoOtherDefect(receipts[1]), WellFormedKeySet
                PROVE  LoneReceiptPolicy(receipts[1])
    BY DEF LoneReceiptGetsItsCode
  <2>1. PICK codes \in SUBSET {"SEQUENCE_GAP", "MISSING_PREVIOUS_RECEIPT"} :
            errors = Fatal("receipt_integrity",
                           ReceiptErrors(keys, BodyOf(receipts[1]),
                                         SigOf(receipts[1]), "INCONCLUSIVE")
                             \cup codes)
    BY DEF LoneReceiptState
  <2>2. HasTimes(BodyOf(receipts[1]))
    <3>1. receipts[1] \in Envelopes
      BY MaxReceiptsAssumption DEF Layer1TypeOK
    <3>. QED  BY <3>1, TimesAssumption DEF NoOtherDefect
  <2>3. \A i \in DOMAIN Entries : HasTimes(Members(Entries[i]))
    <3>1. keys \in KeySets
      BY DEF Layer1TypeOK
    <3>2. IsList(GetOr(keys, "keys", List(<<>>)))
      BY DEF WellFormedKeySet, Get, GetOr, IsList, Null
    <3>3. /\ Entries = Items(GetOr(keys, "keys", List(<<>>)))
          /\ \A i \in DOMAIN Entries : IsObj(Entries[i])
      BY <3>2 DEF Entries, WellFormedKeySet
    <3>. QED  BY <3>1, <3>2, <3>3, TimesAssumption
  <2>. QED  BY <2>1, <2>2, <2>3, PolicyDecides
<1>3. Layer1Spec => []LoneReceiptState
  BY <1>1, LoneReceiptStep, Layer1Invariant, PTL DEF Layer1Spec
<1>. QED  BY <1>2, <1>3, Layer1TypeCorrect, PTL
=============================================================================
