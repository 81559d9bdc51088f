------------------------------ MODULE MCRestore ------------------------------
(* Restore for TLC: worklists --range can ask for, next to the whole image. *)
EXTENDS Restore

\* Two ranges out of order; the same sector twice; none.
SomeSpecs == { << <<1, 2>>, <<0, 1>> >>, << <<0, 1>>, <<0, 1>> >>, <<>> }

NoSpecs == {}
=============================================================================
