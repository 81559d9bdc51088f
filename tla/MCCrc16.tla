------------------------------ MODULE MCCrc16 ------------------------------
(* Crc16 for TLC: 0x1021 over the length of a DATA frame. *)
EXTENDS Crc16, SequencesExt

\* 0xFFFF, and a frame of bytes 0x5A.
Ones == {Bits}
Filler == {{1, 3, 4, 6}}

\* The register after each turn of the loop, a byte's turns at a time.
Turns(a) == LET g[n \in 1 .. B] == Step(IF n = 1 THEN a ELSE g[n - 1]) IN g
Powers == FoldLeft(LAMBDA s, n : s \o Turns(Last(s)), << {W - 1} >>, [n \in 1 .. MaxLen |-> n])

\* What the theorem on two damaged bits assumes holds for 0x1021.
ASSUME OrderAssumption == LongOrbit([d \in 0 .. MaxLen * B |-> Powers[d + 1]])
=============================================================================
