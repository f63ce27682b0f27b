---------------------------- MODULE MCVerifierApp -----------------------------
(***************************************************************************)
(* The mobile app for TLC, through two sessions with two calls of start.   *)
(* The run checks liveness, so nothing is declared symmetric.              *)
(***************************************************************************)
EXTENDS VerifierApp

=============================================================================
