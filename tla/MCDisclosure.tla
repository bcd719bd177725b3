---------------------------- MODULE MCDisclosure ----------------------------
(***************************************************************************)
(* A small instance of Disclosure: its inputs are what Disclose builds, so *)
(* the sets Verifier draws its inputs from only hold the starting values.  *)
(***************************************************************************)
EXTENDS Disclosure

StartingKeySets == {DefaultKeys}
StartingAnchors == {Null}
=============================================================================
