--------------------------- MODULE MCVerifierPage ----------------------------
(***************************************************************************)
(* A web page for TLC, with two polls and a cancel out at once and one     *)
(* reload.  The runs check liveness, so nothing is declared symmetric.     *)
(***************************************************************************)
EXTENDS VerifierPage

=============================================================================
