------------------------------ MODULE MCVerify ------------------------------
(* Verify for TLC; the values of the constants are in verify.cfg. *)
EXTENDS Verify
=============================================================================
