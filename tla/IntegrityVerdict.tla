-------------------------- MODULE IntegrityVerdict --------------------------
(***************************************************************************)
(* What layer 1 promises.  One step decides: the verdict is a function of  *)
(* the receipts and the key set.  Instead, an exception may leave verify(),*)
(* but not when every receipt is acceptable.                               *)
(***************************************************************************)
EXTENDS Naturals, Sequences

CONSTANTS
    Envelopes, KeySets, MaxReceipts,
    Verdict(_, _),          \* the verdict on receipts under a key set
    AllAcceptable(_, _)     \* whether each receipt alone is in order

VARIABLES receipts, keys, verdict

vars == <<receipts, keys, verdict>>

Init ==
    /\ receipts \in UNION {[1..n -> Envelopes] : n \in 0..MaxReceipts}
    /\ keys \in KeySets
    /\ verdict = "undecided"

Decide ==
    /\ verdict = "undecided"
    /\ verdict' = Verdict(receipts, keys)
    /\ UNCHANGED <<receipts, keys>>

Raise ==
    /\ verdict = "undecided"
    /\ ~AllAcceptable(receipts, keys)
    /\ verdict' = "raised"
    /\ UNCHANGED <<receipts, keys>>

Next == Decide \/ Raise

Spec == Init /\ [][Next]_vars
=============================================================================
