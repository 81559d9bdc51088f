----------------------------- MODULE MCFraming -----------------------------
(* Framing for TLC: frames of seven bytes without an SOH in their data, no *)
(* two of them one fault apart, and one of eight bytes with two, the       *)
(* second as the start of a frame.  A lost type byte leaves an 'I' or an   *)
(* 'E' in its place.                                                       *)
EXTENDS Framing

InfoNext == <<"SOH", "D", "I", "x", "D", "x", "c">>
EotNext == <<"SOH", "D", "E", "x", "x", "I", "d">>
Plain == <<"SOH", "D", "a", "D", "x", "x", "e">>
PlainWorks == {<<InfoNext, Plain>>, <<EotNext, InfoNext>>, <<Plain, EotNext, InfoNext>>}

\* A CMD of fewer bytes than LinkTries, and one of as many.
ShortCmd == <<"SOH", "C", "x", "x">>
LongCmd == <<"SOH", "C", "x", "x", "x">>

Nested == <<"SOH", "D", "a", "SOH", "x", "SOH", "D", "c">>
NestedWorks == {<<Nested>>}
=============================================================================
