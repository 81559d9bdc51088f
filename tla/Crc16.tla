------------------------------- MODULE Crc16 -------------------------------
(***************************************************************************)
(* The checksum of a frame, CRC-16/CCITT-FALSE, as rx.py, emu8086.py,      *)
(* crc16.c and crc_byte compute it, over a body that is damaged on the     *)
(* line.  The sender's register and the receiver's run side by side: one   *)
(* action takes a byte into the top of both, another shifts both by a bit. *)
(* A byte and a register are sets of bits.                                 *)
(*                                                                         *)
(* What comes before the first damaged byte is the same on both sides, so  *)
(* the registers start equal and the first byte is damaged.                *)
(***************************************************************************)
EXTENDS Integers, FiniteSets

CONSTANTS W,        \* bits of the register, 16
          B,        \* bits of a byte, 8
          Poly,     \* 0x1021: bits 0, 5 and 12
          Starts,   \* contents of the register before the first damaged byte
          Bytes,    \* bytes that are sent
          MaxLen,   \* bound: bytes taken
          MaxBurst  \* bound: bytes taken once two bits are damaged

Bits == 0 .. W - 1

ASSUME WidthAssumption == W \in Nat /\ B \in 1 .. W
ASSUME PolyAssumption == Poly \subseteq Bits /\ 0 \in Poly
ASSUME InputAssumption ==
  /\ Starts \subseteq SUBSET Bits /\ Bytes \subseteq SUBSET (0 .. B - 1)
  /\ MaxLen \in Nat /\ MaxBurst \in Nat

VARIABLES sent, rcvd,  \* the register of the sender, of the receiver
          left,        \* shifts left for the current byte
          len,         \* bytes taken
          flips        \* damaged bits, counted in the order they are sent

vars == <<sent, rcvd, left, len, flips>>

Xor(a, b) == (a \ b) \cup (b \ a)

ShiftLeft(a) == {k \in 1 .. W - 1 : k - 1 \in a}

\* Mutant of Step: the polynomial is left out.
StepPlain(a) == ShiftLeft(a)

\* One turn of the inner loop: the bit shifted out decides.
Step(a) == IF W - 1 \in a THEN Xor(ShiftLeft(a), Poly) ELSE ShiftLeft(a)

\* Mutant of Top: shifted the other way, crc ^= b >> 8.
TopLost(byte) == {k - B : k \in byte} \cap Bits

\* Mutant of Top: a byte goes into the bottom of the register.
TopLow(byte) == byte

\* A byte goes into the top of the register: crc ^= b << 8.
Top(byte) == {k + W - B : k \in byte}

Init ==
  /\ sent \in Starts /\ rcvd = sent
  /\ left = 0 /\ len = 0 /\ flips = {}

\* Positions in the message of the damaged bits of the next byte: a byte is
\* worked off from its top bit.
At(damage) == {len * B + B - 1 - k : k \in damage}

\* The damages a CRC is there for: one burst no longer than the register, or two
\* bits anywhere.
Typical(f) == Cardinality(f) <= 2 \/ \E p \in f : f \subseteq p .. p + W - 1

TakeByte ==
  /\ left = 0 /\ len < MaxLen /\ (len < MaxBurst \/ Cardinality(flips) < 2)
  /\ \E byte \in Bytes, damage \in SUBSET (0 .. B - 1) :
       /\ len = 0 => damage # {}
       /\ Typical(flips \cup At(damage))
       /\ flips' = flips \cup At(damage)
       /\ sent' = Xor(sent, Top(byte))
       /\ rcvd' = Xor(rcvd, Top(Xor(byte, damage)))
  /\ left' = B /\ len' = len + 1

ShiftBit ==
  /\ left > 0 /\ left' = left - 1
  /\ sent' = Step(sent) /\ rcvd' = Step(rcvd)
  /\ UNCHANGED <<len, flips>>

Next == TakeByte \/ ShiftBit

Spec == Init /\ [][Next]_vars

---------------------------------------------------------------------------

\* crc16 tells a damaged body from the one that was sent, as long as the damage is
\* a burst no longer than the register or two bits anywhere in the frame: the
\* registers differ after every byte from the first damaged one on.
DamageDetected == left = 0 /\ flips # {} => sent # rcvd

\* f[d] is what a register with the top bit alone holds after d turns of the
\* loop, and within the longest frame that is not the top bit again: the order of
\* the polynomial exceeds the length of the frame.
LongOrbit(f) ==
  /\ f[0] = {W - 1}
  /\ \A d \in 1 .. MaxLen * B : f[d] = Step(f[d - 1]) /\ f[d] # {W - 1}

\* One step of a long division by x^W + Poly: it takes exponent x away.
DivStep(a, x) == IF x \in a THEN Xor(a, {x} \cup {k + x - W : k \in Poly}) ELSE a

\* Long division of a polynomial, given by its exponents below n + W, by
\* x^W + Poly, from the highest exponent down.
Remainder(p, n) ==
  LET D[e \in W - 1 .. n + W] == IF e = n + W THEN p ELSE DivStep(D[e + 1], e + 1)
  IN D[W - 1]

\* The loops of crc16 (a byte into the top, a shift for each bit) compute the
\* remainder of the polynomial division that defines a CRC: what the registers
\* differ by is the remainder of the damage, over the first MaxBurst bytes.
IsRemainder ==
  left = 0 /\ len <= MaxBurst =>
    Xor(sent, rcvd) = Remainder({len * B - 1 - p + W : p \in flips}, len * B)

\* A difference between the registers is never lost again while undamaged bytes
\* are taken: no rest of a frame makes a damaged one acceptable.
DifferencePersists ==
  [][sent # rcvd /\ flips' = flips => sent' # rcvd']_vars

TypeOK ==
  /\ sent \subseteq Bits /\ rcvd \subseteq Bits
  /\ left \in 0 .. B /\ len \in 0 .. MaxLen
  /\ flips \subseteq 0 .. len * B - 1
=============================================================================
