----------------------------- MODULE MCCoalesce -----------------------------
(* Coalesce for TLC; the values of the constants are in coalesce.cfg. *)
EXTENDS Coalesce
=============================================================================
