---------------------------- MODULE Completeness ----------------------------
(***************************************************************************)
(* Layer 3, _verify_completeness of verify.py.                             *)
(***************************************************************************)
EXTENDS AnchorValidity

Numbers == {IntOf(SeqOf(p)) : p \in recorded}

(* Mutant: a failed layer 1 does not keep layer 3 from judging.            *)
CompletenessStatusAlways ==
    IF Gaps # {} THEN "FAIL" ELSE "INCONCLUSIVE"

CompletenessStatus ==
    IF ri # "FAIL" /\ Gaps # {} THEN "FAIL" ELSE "INCONCLUSIVE"

(* Mutant: after a failed layer 1 the function returns silently.           *)
CompletenessWarningsIfIntact(anchor) ==
    IF ri = "FAIL" \/ Gaps # {} THEN {}
    ELSE IF recorded = {} \/ ~IsObj(anchor) THEN {"COMPLETENESS_NOT_PROVABLE"}
    ELSE IF ~HasRange(Members(anchor)) THEN {}
    ELSE IF Numbers \subseteq AnchorRange(Members(anchor))
         THEN {"COMPLETENESS_NOT_PROVABLE"}
    ELSE {"RANGE_NOT_COVERED"}

(* The warning of each return; two returns give none: a sequence with a    *)
(* gap, and a range that is no pair of numerals.                           *)
CompletenessWarnings(anchor) ==
    IF ri = "FAIL" \/ recorded = {} THEN {"COMPLETENESS_NOT_PROVABLE"}
    ELSE IF Gaps # {} THEN {}
    ELSE IF ~IsObj(anchor) THEN {"COMPLETENESS_NOT_PROVABLE"}
    ELSE IF ~HasRange(Members(anchor)) THEN {}
    ELSE IF Numbers \subseteq AnchorRange(Members(anchor))
         THEN {"COMPLETENESS_NOT_PROVABLE"}
    ELSE {"RANGE_NOT_COVERED"}
=============================================================================
