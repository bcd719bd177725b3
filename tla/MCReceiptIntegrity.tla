------------------------- MODULE MCReceiptIntegrity -------------------------
(***************************************************************************)
(* Small instances of ReceiptIntegrity, on the inputs of MCReceipts.       *)
(***************************************************************************)
EXTENDS ReceiptIntegrity, MCReceipts

=============================================================================
