-------------------------- MODULE ReceiptIntegrity --------------------------
(***************************************************************************)
(* Layer 1, _verify_receipt_integrity of verify.py: one step for each      *)
(* envelope of the input, in order, then one for the checks of the whole   *)
(* sequence.  The dicts receipt_hashes and seen_seqs always hold the same  *)
(* entries; both are the set `recorded' of the positions whose receipts    *)
(* were entered in them, because a receipt determines its seq and hash and *)
(* a position says when it was entered.                                    *)
(***************************************************************************)
EXTENDS ReceiptChain, FiniteSets

CONSTANTS Envelopes,      \* the JSON values an input array may hold
          KeySets,        \* the key set objects (their members)
          MaxReceipts     \* the longest input array

ASSUME MaxReceiptsAssumption == MaxReceipts \in Nat

(* A seq that is a numeral denotes an integer.                             *)
SeqDenotes(e) ==
    EnvelopeErrors(e) = {} /\ HasInt(Get(BodyOf(e), "seq"))
      => IntOf(Get(BodyOf(e), "seq")) \in Int

ASSUME NumeralsAssumption == \A e \in Envelopes : SeqDenotes(e)

VARIABLES
    receipts,   \* receipts_data, an array: never changes
    keys,       \* keys_data: never changes
    pc,         \* where verify() is: see Phases
    pos,        \* position in receipts of the next envelope to check
    recorded,   \* positions entered in seen_seqs and receipt_hashes
    ri,         \* result.receipt_integrity
    errors      \* result.errors, without messages, order and repetitions

inputs == <<receipts, keys>>
l1vars == <<receipts, keys, pc, pos, recorded, ri, errors>>

-----------------------------------------------------------------------------
SeqOf(p) == BodyOf(receipts[p])["seq"]

(* The entry of receipt_hashes for the receipt at p.                       *)
ReceiptHash(p) == HashOf(BodyOf(receipts[p]))

(* sorted(receipt_hashes.keys(), key=int): stable, so entries with equal   *)
(* numbers keep the order in which they were entered.                      *)
Before(p, q) ==
    \/ IntOf(SeqOf(p)) < IntOf(SeqOf(q))
    \/ IntOf(SeqOf(p)) = IntOf(SeqOf(q)) /\ p < q

Adjacent(p, q) ==
    Before(p, q) /\ ~\E r \in recorded : Before(p, r) /\ Before(r, q)

First(p) == ~\E r \in recorded : Before(r, p)

Gaps == {pq \in recorded \X recorded :
           /\ Adjacent(pq[1], pq[2])
           /\ IntOf(SeqOf(pq[2])) # IntOf(SeqOf(pq[1])) + 1}

(* seq_to_body: built from every envelope, the last with a seq wins.       *)
EnvelopesWithSeq(s) ==
    {p \in DOMAIN receipts :
        /\ IsObj(receipts[p]) /\ IsObj(Get(Members(receipts[p]), "body"))
        /\ Get(BodyOf(receipts[p]), "seq") = s}

LinkOf(p) ==
    LET same == EnvelopesWithSeq(SeqOf(p))
        last == CHOOSE q \in same : \A r \in same : r <= q
    IN  IF IsStr(SeqOf(p))
        THEN GetOr(BodyOf(receipts[last]), "prev_receipt", Empty)
        ELSE Empty

Unlinked ==
    {q \in recorded :
        IF First(q)
        THEN ~(IntOf(SeqOf(q)) = 1 /\ LinkOf(q) = Genesis)
        ELSE \E p \in recorded :
                 Adjacent(p, q) /\ LinkOf(q) # ReceiptHash(p)}

(* Mutant: the links between the receipts are not compared.                *)
SequenceErrorsUnlinked ==
    IF Gaps # {} THEN {"SEQUENCE_GAP"} ELSE {}

SequenceErrors ==
    (IF Gaps # {} THEN {"SEQUENCE_GAP"} ELSE {}) \cup
    (IF Unlinked # {} THEN {"MISSING_PREVIOUS_RECEIPT"} ELSE {})

(* int() of a recorded seq, envelope.get on something other than an object *)
(* and `"seq" in body' for a body that is null or a number raise.          *)
SequenceRaises ==
    \/ \E p \in recorded : ~HasInt(SeqOf(p))
    \/ \E p \in DOMAIN receipts :
          IsObj(receipts[p]) =>
              GetOr(Members(receipts[p]), "body", Obj(<<>>))[1]
                  \in {"null", "int", "float"}

-----------------------------------------------------------------------------
Phases == {"receipts", "anchor", "completeness", "done", "raised"}

(* result.add_error(FATAL) for each code.                                  *)
Report(codes) == errors' = errors \cup Fatal("receipt_integrity", codes)

Envelope == receipts[pos]
Body     == BodyOf(Envelope)

(* Mutant: the loop skips an envelope.                                     *)
NextEnvelopeButOne == pos' = pos + 2 /\ UNCHANGED <<inputs, pc>>

NextEnvelope == pos' = pos + 1 /\ UNCHANGED <<inputs, pc>>

InLoop == pc = "receipts" /\ pos <= Len(receipts)

(* Mutants: a malformed envelope is reported without failing the layer, or *)
(* the loop does not get past it.                                          *)
RejectEnvelopeOnly ==
    /\ InLoop
    /\ EnvelopeErrors(Envelope) # {}
    /\ Report(EnvelopeErrors(Envelope))
    /\ NextEnvelope /\ UNCHANGED <<recorded, ri>>

RejectEnvelopeAgain ==
    /\ InLoop
    /\ EnvelopeErrors(Envelope) # {}
    /\ Report(EnvelopeErrors(Envelope))
    /\ ri' = AfterFatal(ri, EnvelopeErrors(Envelope))
    /\ UNCHANGED <<inputs, pc, pos, recorded>>

(* verify.py:211-248: the envelope itself is malformed.                    *)
RejectEnvelope ==
    /\ InLoop
    /\ EnvelopeErrors(Envelope) # {}
    /\ Report(EnvelopeErrors(Envelope))
    /\ ri' = AfterFatal(ri, EnvelopeErrors(Envelope))
    /\ NextEnvelope /\ UNCHANGED recorded

(* 250-253: the layer is FAIL after the fields check, or was before it.    *)
RejectBody ==
    /\ InLoop
    /\ EnvelopeErrors(Envelope) = {}
    /\ AfterBodyFields(ri, Body) = "FAIL"
    /\ Report(BodyFieldErrors(Body))
    /\ ri' = "FAIL"
    /\ NextEnvelope /\ UNCHANGED recorded

(* 255-258                                                                 *)
RejectFields ==
    /\ InLoop
    /\ EnvelopeErrors(Envelope) = {}
    /\ AfterBodyFields(ri, Body) # "FAIL"
    /\ AfterFieldTypes(ri, Body) = "FAIL"
    /\ Report(BodyFieldErrors(Body) \cup FieldTypeErrors(Body))
    /\ ri' = "FAIL"
    /\ NextEnvelope /\ UNCHANGED recorded

(* The body passed the two `if FAIL: continue' guards.  Under              *)
(* UNSUPPORTED_VERSION they let everything through, errors included.       *)
Screened ==
    /\ InLoop
    /\ EnvelopeErrors(Envelope) = {}
    /\ AfterBodyFields(ri, Body) # "FAIL"
    /\ AfterFieldTypes(ri, Body) # "FAIL"

ReportAlso(codes) ==
    /\ Report(BodyFieldErrors(Body) \cup FieldTypeErrors(Body) \cup codes)
    /\ ri' = AfterFatal(AfterFieldTypes(ri, Body), codes)

(* 260-270                                                                 *)
RejectUncanonical ==
    /\ Screened
    /\ CanonicalizationErrors(Body) # {}
    /\ ReportAlso(CanonicalizationErrors(Body))
    /\ NextEnvelope /\ UNCHANGED recorded

Canonical ==
    /\ Screened
    /\ CanonicalizationErrors(Body) = {}
    /\ ~CanonicalizeRaises(Body)

HasSeq == "seq" \in DOMAIN Body /\ Hashable(Body["seq"])

(* Mutant: only an identical receipt counts as a repetition.               *)
EarlierCopies == {p \in recorded : ReceiptHash(p) = HashOf(Body)}

Earlier == {p \in recorded : SeqOf(p) = Body["seq"]}

(* 275-291                                                                 *)
RejectRepeated ==
    /\ Canonical /\ HasSeq
    /\ Earlier # {}
    /\ ReportAlso(IF \E p \in Earlier : ReceiptHash(p) = HashOf(Body)
                  THEN {"DUPLICATE_SEQUENCE"} ELSE {"FORKED_SEQUENCE"})
    /\ NextEnvelope /\ UNCHANGED recorded

(* 293-323: the receipt is recorded first, its key and signature checked   *)
(* next; their errors do not take it out of the dicts again.               *)
RecordReceipt ==
    /\ Canonical /\ HasSeq
    /\ Earlier = {}
    /\ ~ReceiptRaises(keys, Body, SigOf(Envelope))
    /\ recorded' = recorded \cup {pos}
    /\ ReportAlso(ReceiptErrors(keys, Body, SigOf(Envelope),
                                AfterFieldTypes(ri, Body)))
    /\ NextEnvelope

(* An exception that no handler of verify() catches leaves it.             *)
RaiseOnReceipt ==
    /\ Screened
    /\ CanonicalizationErrors(Body) = {}
    /\ \/ CanonicalizeRaises(Body)
       \/ ~HasSeq
       \/ HasSeq /\ Earlier = {} /\ ReceiptRaises(keys, Body, SigOf(Envelope))
    /\ pc' = "raised"
    /\ UNCHANGED <<inputs, pos, recorded, ri, errors>>

-----------------------------------------------------------------------------
(* 325-385, after the loop; also 204-206, where the input is empty.        *)
LoopDone == pc = "receipts" /\ pos > Len(receipts)

Return ==
    /\ pc' = "anchor"
    /\ UNCHANGED <<inputs, pos, recorded>>

SkipSequence ==
    /\ LoopDone
    /\ recorded = {} \/ ri = "FAIL"
    /\ Return /\ UNCHANGED <<ri, errors>>

CheckSequence ==
    /\ LoopDone
    /\ recorded # {} /\ ri # "FAIL"
    /\ ~SequenceRaises
    /\ Report(SequenceErrors)
    /\ ri' = IF AfterFatal(ri, SequenceErrors) = "INCONCLUSIVE" THEN "PASS"
             ELSE AfterFatal(ri, SequenceErrors)
    /\ Return

RaiseOnSequence ==
    /\ LoopDone
    /\ recorded # {} /\ ri # "FAIL"
    /\ SequenceRaises
    /\ pc' = "raised"
    /\ UNCHANGED <<inputs, pos, recorded, ri, errors>>

-----------------------------------------------------------------------------
Layer1Init ==
    /\ receipts \in UNION {[1..n -> Envelopes] : n \in 0..MaxReceipts}
    /\ keys \in KeySets
    /\ pc = "receipts"
    /\ pos = 1
    /\ recorded = {}
    /\ ri = "INCONCLUSIVE"
    /\ errors = {}

CheckEnvelope ==
    \/ RejectEnvelope \/ RejectBody \/ RejectFields \/ RejectUncanonical
    \/ RejectRepeated \/ RecordReceipt \/ RaiseOnReceipt

Layer1Next ==
    CheckEnvelope \/ SkipSequence \/ CheckSequence \/ RaiseOnSequence

Layer1Spec == Layer1Init /\ [][Layer1Next]_l1vars

-----------------------------------------------------------------------------
(* The variables hold what the code could hold in them.                    *)
Layer1TypeOK ==
    /\ receipts \in UNION {[1..n -> Envelopes] : n \in 0..MaxReceipts}
    /\ keys \in KeySets
    /\ pc \in {"receipts", "anchor", "raised"}
    /\ pos \in 1..Len(receipts) + 1
    /\ recorded \subseteq 1..pos - 1
    /\ ri \in LayerStatus
    /\ errors \subseteq VerificationError

(* add_error's structural invariant (models.py:97-100) for this layer, in  *)
(* both directions: whatever path the loop takes, the layer is FAIL or     *)
(* UNSUPPORTED_VERSION exactly when a fatal error was recorded.            *)
FatalIffTerminal ==
    HasFatal(errors, "receipt_integrity")
      <=> ri \in {"FAIL", "UNSUPPORTED_VERSION"}

(* Layer 1 implements its promise: the verdict it returns is the one of    *)
(* ReceiptChain, which no order of the input array can change: PASS means  *)
(* a whole chain from the genesis receipt on.  An exception leaves the     *)
(* loop only on an input with an unacceptable receipt.                     *)
LayerVerdict ==
    IF pc = "receipts" THEN "undecided"
    ELSE IF pc = "raised" THEN "raised"
    ELSE ri

Promise == INSTANCE IntegrityVerdict WITH verdict <- LayerVerdict

ImplementsVerdict == Promise!Spec

(* The status of the layer moves only along INCONCLUSIVE -> PASS and       *)
(* INCONCLUSIVE -> FAIL -> UNSUPPORTED_VERSION: nothing the loop meets     *)
(* after a bad receipt takes the verdict back, and PASS is given only when *)
(* the call leaves the layer.                                              *)
StatusMoves ==
    {<<"INCONCLUSIVE", "FAIL">>, <<"INCONCLUSIVE", "UNSUPPORTED_VERSION">>,
     <<"FAIL", "UNSUPPORTED_VERSION">>}

StatusOnlyWorsens ==
    [][ri' # ri => \/ <<ri, ri'>> \in StatusMoves
                   \/ ri = "INCONCLUSIVE" /\ ri' = "PASS" /\ pc' = "anchor"]_l1vars

(* receipt_hashes never holds two receipts with one seq, and under a       *)
(* verdict that is not UNSUPPORTED_VERSION only receipts whose fields were *)
(* validated: layers 2 and 3 index it by seq and convert the seqs.         *)
RecordedIsSound ==
    /\ \A p, q \in recorded : SeqOf(p) = SeqOf(q) => p = q
    /\ ri # "UNSUPPORTED_VERSION" =>
          \A p \in recorded : /\ BodyFieldErrors(BodyOf(receipts[p])) = {}
                             /\ FieldTypeErrors(BodyOf(receipts[p])) = {}
=============================================================================
