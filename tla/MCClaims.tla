------------------------------ MODULE MCClaims ------------------------------
(***************************************************************************)
(* The instances in which DocumentedClaims fail.                           *)
(***************************************************************************)
EXTENDS DocumentedClaims, MCVerifier

NoAnchors == {Null}
=============================================================================
