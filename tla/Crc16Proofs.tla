---------------------------- MODULE Crc16Proofs ----------------------------
(***************************************************************************)
(* Why a damaged frame stays damaged: a turn of crc16's inner loop loses   *)
(* nothing, for any register width and any polynomial with a constant      *)
(* term.  And what the loops compute: the remainder of the damage, divided *)
(* by the polynomial.                                                      *)
(***************************************************************************)
EXTENDS Crc16, FiniteSetTheorems, NaturalsInduction, WellFoundedInduction, TLAPS

(* Xor by a fixed set is injective, and a set xored with itself vanishes. *)
LEMMA XorCancel ==
  ASSUME NEW a, NEW b, NEW c, Xor(a, c) = Xor(b, c)
  PROVE a = b
<1>1. ASSUME NEW x PROVE x \in a <=> x \in b
  <2>1. x \in Xor(a, c) <=> x \in Xor(b, c)
    OBVIOUS
  <2> QED
    BY <2>1 DEF Xor
<1> QED
  BY <1>1

LEMMA XorEmpty ==
  ASSUME NEW a
  PROVE Xor(a, {}) = a
  BY DEF Xor

LEMMA StepTyped ==
  ASSUME NEW a, a \subseteq Bits
  PROVE Step(a) \subseteq Bits
<1>1. ShiftLeft(a) \subseteq Bits
  BY WidthAssumption DEF ShiftLeft, Bits
<1>2. Xor(ShiftLeft(a), Poly) \subseteq Bits
  BY <1>1, PolyAssumption DEF Xor
<1> QED
  BY <1>1, <1>2 DEF Step

LEMMA ShiftInjective ==
  ASSUME NEW a, a \subseteq Bits, NEW b, b \subseteq Bits,
         ShiftLeft(a) = ShiftLeft(b), W - 1 \in a <=> W - 1 \in b
  PROVE a = b
<1>1. ASSUME NEW k \in Bits PROVE k \in a <=> k \in b
  <2>1. CASE k = W - 1
    BY <2>1
  <2>2. CASE k # W - 1
    <3>1. k + 1 \in 1 .. W - 1 /\ (k + 1) - 1 = k
      BY <2>2, WidthAssumption DEF Bits
    <3>2. k + 1 \in ShiftLeft(a) <=> k \in a
      BY <3>1 DEF ShiftLeft
    <3>3. k + 1 \in ShiftLeft(b) <=> k \in b
      BY <3>1 DEF ShiftLeft
    <3> QED
      BY <3>2, <3>3
  <2> QED
    BY <2>1, <2>2
<1> QED
  BY <1>1

(* One turn of the loop is injective.  Bit 0 of the result tells whether the *)
(* polynomial went in, since it has a constant term.                         *)
LEMMA StepInjective ==
  ASSUME NEW a, a \subseteq Bits, NEW b, b \subseteq Bits, Step(a) = Step(b)
  PROVE a = b
<1>1. ASSUME NEW c PROVE 0 \in Step(c) <=> W - 1 \in c
  <2>1. 0 \notin ShiftLeft(c)
    BY WidthAssumption DEF ShiftLeft
  <2> QED
    BY <2>1, PolyAssumption DEF Step, Xor
<1>2. W - 1 \in a <=> W - 1 \in b
  BY <1>1
<1>3. ShiftLeft(a) = ShiftLeft(b)
  <2>1. CASE W - 1 \in a
    BY <2>1, <1>2, XorCancel DEF Step
  <2>2. CASE W - 1 \notin a
    BY <2>2, <1>2 DEF Step
  <2> QED
    BY <2>1, <2>2
<1> QED
  BY <1>2, <1>3, ShiftInjective

(* The damage of the next byte lies beyond the damage so far. *)
LEMMA DamageBeyond ==
  ASSUME NEW n \in Nat, NEW k \in 0 .. B - 1
  PROVE n * B \in Nat /\ (n + 1) * B = n * B + B /\ n * B + B - 1 - k \in n * B .. (n + 1) * B - 1
<1>1. n * B \in Nat
  BY WidthAssumption
<1>2. (n + 1) * B = n * B + B
  BY WidthAssumption
<1> QED
  BY <1>1, <1>2, WidthAssumption

(* Registers keep their width, and flips holds positions in the message. *)
THEOREM TypeCorrect == Spec => []TypeOK
<1>1. Init => TypeOK
  BY WidthAssumption, InputAssumption DEF Init, TypeOK
<1>2. TypeOK /\ [Next]_vars => TypeOK'
  <2> SUFFICES ASSUME TypeOK, [Next]_vars PROVE TypeOK'
    OBVIOUS
  <2> USE DEF TypeOK
  <2>1. CASE TakeByte
    <3>1. PICK byte \in Bytes, damage \in SUBSET (0 .. B - 1) :
            /\ flips' = flips \cup At(damage)
            /\ sent' = Xor(sent, Top(byte))
            /\ rcvd' = Xor(rcvd, Top(Xor(byte, damage)))
      BY <2>1 DEF TakeByte
    <3>2. ASSUME NEW x \in SUBSET (0 .. B - 1) PROVE Top(x) \subseteq Bits
      BY WidthAssumption DEF Top, Bits
    <3>3. sent' \subseteq Bits /\ rcvd' \subseteq Bits
      <4>1. byte \in SUBSET (0 .. B - 1) /\ Xor(byte, damage) \in SUBSET (0 .. B - 1)
        BY InputAssumption DEF Xor
      <4> QED
        BY <3>1, <3>2, <4>1 DEF Xor
    <3>4. left' \in 0 .. B /\ len' \in 0 .. MaxLen /\ len' = len + 1
      BY <2>1, WidthAssumption, InputAssumption DEF TakeByte
    <3>5. flips' \subseteq 0 .. len' * B - 1
      <4>1. len \in Nat
        BY InputAssumption
      <4>2. ASSUME NEW p \in At(damage) PROVE p \in 0 .. len' * B - 1
        BY <4>1, <3>4, DamageBeyond DEF At
      <4>3. flips \subseteq 0 .. len' * B - 1
        <5>1. len * B \in Nat /\ len' * B = len * B + B
          BY <4>1, <3>4, DamageBeyond, WidthAssumption
        <5> QED
          BY <5>1, WidthAssumption
      <4> QED
        BY <3>1, <4>2, <4>3
    <3> QED
      BY <3>3, <3>4, <3>5
  <2>2. CASE ShiftBit
    BY <2>2, StepTyped, WidthAssumption DEF ShiftBit
  <2>3. CASE UNCHANGED vars
    BY <2>3 DEF vars
  <2> QED
    BY <2>1, <2>2, <2>3 DEF Next
<1> QED
  BY <1>1, <1>2, PTL DEF Spec

(* crc16 never forgets a difference: from the first damaged byte on, no     *)
(* undamaged rest of the frame brings the two registers together again.     *)
THEOREM DamageStays == Spec => DifferencePersists
<1>1. TypeOK /\ [Next]_vars => [sent # rcvd /\ flips' = flips => sent' # rcvd']_vars
  <2> SUFFICES ASSUME TypeOK, Next, sent # rcvd, flips' = flips PROVE sent' # rcvd'
    OBVIOUS
  <2>1. CASE TakeByte
    <3>1. PICK byte \in Bytes, damage \in SUBSET (0 .. B - 1) :
            /\ flips' = flips \cup At(damage)
            /\ sent' = Xor(sent, Top(byte))
            /\ rcvd' = Xor(rcvd, Top(Xor(byte, damage)))
      BY <2>1 DEF TakeByte
    <3>2. damage = {}
      <4> SUFFICES ASSUME NEW k \in damage PROVE FALSE
        OBVIOUS
      <4>1. len \in Nat /\ len * B + B - 1 - k \in flips
        BY <3>1, InputAssumption DEF At, TypeOK
      <4>2. len * B \in Nat /\ len * B + B - 1 - k \in len * B .. (len + 1) * B - 1
        BY <4>1, DamageBeyond
      <4>3. flips \subseteq 0 .. len * B - 1
        BY DEF TypeOK
      <4> QED
        BY <4>1, <4>2, <4>3
    <3> QED
      BY <3>1, <3>2, XorEmpty, XorCancel
  <2>2. CASE ShiftBit
    BY <2>2, StepInjective DEF ShiftBit, TypeOK
  <2> QED
    BY <2>1, <2>2 DEF Next
<1> QED
  BY <1>1, TypeCorrect, PTL DEF Spec, DifferencePersists

---------------------------------------------------------------------------
(* What the registers differ by.  Step is linear, so the difference is       *)
(* shifted like a register of its own, and damage goes into it as bytes go   *)
(* into a register.                                                          *)

Diff == Xor(sent, rcvd)

(* Bits shifted so far. *)
Shifts == len * B - left

(* Where damaged bits of the message are in the register after s shifts, as  *)
(* long as none of them has left it.                                         *)
Pos(g, s) == {W - 1 - (q - s) : q \in g}

LEMMA StepMember ==
  ASSUME NEW a, NEW x
  PROVE x \in Step(a) <=> ((x \in 1 .. W - 1 /\ x - 1 \in a) <=> ~(W - 1 \in a /\ x \in Poly))
  BY DEF Step, ShiftLeft, Xor

LEMMA StepLinear ==
  ASSUME NEW a, NEW b
  PROVE Step(Xor(a, b)) = Xor(Step(a), Step(b))
<1>1. ASSUME NEW x, NEW c, NEW d PROVE x \in Xor(c, d) <=> (x \in c <=> x \notin d)
  BY DEF Xor
<1>2. ASSUME NEW x PROVE x \in Step(Xor(a, b)) <=> x \in Xor(Step(a), Step(b))
  BY <1>1, StepMember
<1> QED
  BY <1>2

LEMMA TopLinear ==
  ASSUME NEW a \in SUBSET (0 .. B - 1), NEW b \in SUBSET (0 .. B - 1)
  PROVE Top(Xor(a, b)) = Xor(Top(a), Top(b))
<1>1. ASSUME NEW c \in SUBSET (0 .. B - 1), NEW x \in Bits PROVE x \in Top(c) <=> x - (W - B) \in c
  BY WidthAssumption DEF Top, Bits
<1>2. ASSUME NEW c \in SUBSET (0 .. B - 1) PROVE Top(c) \subseteq Bits
  BY WidthAssumption DEF Top, Bits
<1>3. Xor(a, b) \in SUBSET (0 .. B - 1)
  BY DEF Xor
<1>4. ASSUME NEW x \in Bits PROVE x \in Top(Xor(a, b)) <=> x \in Xor(Top(a), Top(b))
  BY <1>1, <1>3 DEF Xor
<1>5. Xor(Top(a), Top(b)) \subseteq Bits /\ Top(Xor(a, b)) \subseteq Bits
  BY <1>2, <1>3 DEF Xor
<1> QED
  BY <1>4, <1>5

LEMMA PosMember ==
  ASSUME NEW s \in Int, NEW g \in SUBSET Int, NEW x \in Int
  PROVE /\ Pos(g, s) \subseteq Int
        /\ x \in Pos(g, s) <=> s + W - 1 - x \in g
<1>1. W \in Int
  BY WidthAssumption
<1>2. Pos(g, s) \subseteq Int
  BY <1>1 DEF Pos
<1>3. ASSUME x \in Pos(g, s) PROVE s + W - 1 - x \in g
  <2>1. PICK q \in g : x = W - 1 - (q - s)
    BY <1>3 DEF Pos
  <2>2. s + W - 1 - x = q
    BY <1>1, <2>1
  <2> QED
    BY <2>2
<1>4. ASSUME s + W - 1 - x \in g PROVE x \in Pos(g, s)
  <2>1. x = W - 1 - ((s + W - 1 - x) - s)
    BY <1>1
  <2> QED
    BY <1>4, <2>1 DEF Pos
<1> QED
  BY <1>2, <1>3, <1>4

LEMMA PosUnion ==
  ASSUME NEW s \in Int, NEW g \in SUBSET Int, NEW h \in SUBSET Int, g \cap h = {}
  PROVE Xor(Pos(g, s), Pos(h, s)) = Pos(g \cup h, s)
<1>0. g \cup h \in SUBSET Int
  OBVIOUS
<1>1. ASSUME NEW x \in Int PROVE x \in Xor(Pos(g, s), Pos(h, s)) <=> x \in Pos(g \cup h, s)
  <2>1. /\ x \in Pos(g, s) <=> s + W - 1 - x \in g
        /\ x \in Pos(h, s) <=> s + W - 1 - x \in h
        /\ x \in Pos(g \cup h, s) <=> s + W - 1 - x \in g \cup h
    BY <1>0, PosMember
  <2> QED
    BY <2>1 DEF Xor
<1>2. Xor(Pos(g, s), Pos(h, s)) \subseteq Int /\ Pos(g \cup h, s) \subseteq Int
  <2>1. Pos(g, s) \subseteq Int /\ Pos(h, s) \subseteq Int /\ Pos(g \cup h, s) \subseteq Int
    BY WidthAssumption DEF Pos
  <2> QED
    BY <2>1 DEF Xor
<1> QED
  BY <1>1, <1>2

(* Bits behind the one that is shifted out only move. *)
LEMMA PosShift ==
  ASSUME NEW s \in Int, NEW g \in SUBSET (s + 1 .. s + W - 1)
  PROVE Pos(g, s) \subseteq Bits /\ Step(Pos(g, s)) = Pos(g, s + 1)
<1>1. W \in Int /\ g \in SUBSET Int /\ s + 1 \in Int
  BY WidthAssumption
<1>2. ASSUME NEW x \in Pos(g, s) PROVE x \in 0 .. W - 2
  <2>1. PICK q \in g : x = W - 1 - (q - s)
    BY DEF Pos
  <2>2. q \in s + 1 .. s + W - 1
    OBVIOUS
  <2> QED
    BY <1>1, <2>1, <2>2
<1>3. W - 1 \notin Pos(g, s) /\ Pos(g, s) \subseteq Bits
  BY <1>1, <1>2 DEF Bits
<1>4. Step(Pos(g, s)) = ShiftLeft(Pos(g, s))
  BY <1>3 DEF Step
<1>5. ASSUME NEW x \in Pos(g, s + 1) PROVE x \in 1 .. W - 1
  <2>1. PICK q \in g : x = W - 1 - (q - (s + 1))
    BY DEF Pos
  <2>2. q \in s + 1 .. s + W - 1
    OBVIOUS
  <2> QED
    BY <1>1, <2>1, <2>2
<1>6. ASSUME NEW x \in 1 .. W - 1 PROVE x \in ShiftLeft(Pos(g, s)) <=> x \in Pos(g, s + 1)
  <2>1. x \in Int /\ x - 1 \in Int /\ s + W - 1 - (x - 1) = (s + 1) + W - 1 - x
    BY <1>1
  <2>2. x - 1 \in Pos(g, s) <=> x \in Pos(g, s + 1)
    BY <1>1, <2>1, PosMember
  <2> QED
    BY <2>2 DEF ShiftLeft
<1>7. ShiftLeft(Pos(g, s)) = Pos(g, s + 1)
  BY <1>5, <1>6 DEF ShiftLeft
<1> QED
  BY <1>3, <1>4, <1>7

(* The two actions, as seen by the difference. *)
LEMMA DiffTakes ==
  ASSUME TypeOK, TakeByte
  PROVE \E d \in SUBSET (len * B .. len * B + B - 1) :
          /\ len = 0 => d # {}
          /\ Typical(flips \cup d)
          /\ flips' = flips \cup d
          /\ Diff' = Xor(Diff, Pos(d, len * B))
<1>1. PICK byte \in Bytes, damage \in SUBSET (0 .. B - 1) :
        /\ len = 0 => damage # {}
        /\ Typical(flips \cup At(damage))
        /\ flips' = flips \cup At(damage)
        /\ sent' = Xor(sent, Top(byte))
        /\ rcvd' = Xor(rcvd, Top(Xor(byte, damage)))
  BY DEF TakeByte
<1>2. len * B \in Nat /\ B \in Nat /\ W \in Nat /\ B <= W
  BY WidthAssumption, InputAssumption DEF TypeOK
<1>3. At(damage) \in SUBSET (len * B .. len * B + B - 1)
  <2>1. ASSUME NEW k \in damage PROVE len * B + B - 1 - k \in len * B .. len * B + B - 1
    BY <1>2
  <2> QED
    BY <2>1 DEF At
<1>4. damage # {} => At(damage) # {}
  BY DEF At
<1>5. Top(damage) = Pos(At(damage), len * B)
  <2>1. PICK n \in Nat : n = len * B
    BY <1>2
  <2>2. ASSUME NEW x \in Top(damage) PROVE x \in Pos(At(damage), n)
    <3>1. PICK k \in damage : x = k + W - B
      BY DEF Top
    <3>2. n + B - 1 - k \in At(damage) /\ x = W - 1 - ((n + B - 1 - k) - n)
      BY <1>2, <2>1, <3>1 DEF At
    <3> QED
      BY <3>2 DEF Pos
  <2>3. ASSUME NEW x \in Pos(At(damage), n) PROVE x \in Top(damage)
    <3>1. PICK q \in At(damage) : x = W - 1 - (q - n)
      BY DEF Pos
    <3>2. PICK k \in damage : q = n + B - 1 - k
      BY <2>1, <3>1 DEF At
    <3>3. x = k + W - B
      BY <1>2, <3>1, <3>2
    <3> QED
      BY <3>3 DEF Top
  <2> QED
    BY <2>1, <2>2, <2>3
<1>6. Diff' = Xor(Diff, Top(damage))
  <2>1. Top(Xor(byte, damage)) = Xor(Top(byte), Top(damage))
    BY InputAssumption, TopLinear
  <2>2. PICK t, d : t = Top(byte) /\ d = Top(damage)
    OBVIOUS
  <2>3. sent' = Xor(sent, t) /\ rcvd' = Xor(rcvd, Xor(t, d))
    BY <1>1, <2>1, <2>2
  <2>4. Xor(Xor(sent, t), Xor(rcvd, Xor(t, d))) = Xor(Xor(sent, rcvd), d)
    BY DEF Xor
  <2> QED
    BY <2>2, <2>3, <2>4 DEF Diff
<1> QED
  BY <1>1, <1>3, <1>4, <1>5, <1>6

LEMMA TakeCounts ==
  ASSUME TypeOK, TakeByte
  PROVE /\ len * B \in Nat /\ Shifts = len * B /\ Shifts' = len * B /\ len' * B = len * B + B
        /\ flips \subseteq 0 .. len * B - 1
<1>1. len \in Nat /\ len' = len + 1 /\ left = 0 /\ left' = B /\ B \in Nat
  BY WidthAssumption, InputAssumption DEF TypeOK, TakeByte
<1>2. len * B \in Nat /\ len' * B = len * B + B
  BY <1>1, WidthAssumption
<1> QED
  BY <1>1, <1>2 DEF Shifts, TypeOK

LEMMA ShiftCounts ==
  ASSUME TypeOK, ShiftBit
  PROVE /\ Diff' = Step(Diff) /\ Diff \subseteq Bits
        /\ len * B \in Nat /\ Shifts \in Int /\ Shifts' = Shifts + 1 /\ len' = len /\ flips' = flips
        /\ Shifts < len * B /\ len * B <= Shifts + W
        /\ flips \subseteq 0 .. len * B - 1
<1>1. Diff' = Step(Diff) /\ Diff \subseteq Bits
  BY StepLinear DEF Diff, ShiftBit, TypeOK, Xor
<1>2. len' = len /\ flips' = flips /\ left' = left - 1 /\ left > 0 /\ left \in Int /\ left <= W
  BY WidthAssumption DEF ShiftBit, TypeOK
<1>3. len * B \in Nat
  BY WidthAssumption, InputAssumption DEF TypeOK
<1>4. Shifts = len * B - left /\ Shifts' = len * B - (left - 1)
  BY <1>2 DEF Shifts
<1>5. PICK n \in Nat : n = len * B
  BY <1>3
<1>6. Shifts \in Int /\ Shifts' = Shifts + 1 /\ Shifts < n /\ n <= Shifts + W
  BY <1>2, <1>4, <1>5, WidthAssumption
<1> QED
  BY <1>1, <1>2, <1>5, <1>6 DEF TypeOK

---------------------------------------------------------------------------
(* Bursts.  Until its first bit is shifted out the damage is in the register *)
(* as it came.  From then on the difference is none that damage still to     *)
(* come within the burst could take back: what has been shifted out brought  *)
(* the polynomial in, and Step is injective.                                 *)

StartInv == flips = {} => len = 0 /\ left = 0 /\ Diff = {}

BurstInv ==
  \A p \in flips : flips \subseteq p .. p + W - 1 =>
    IF Shifts <= p
      THEN Diff = Pos(flips, Shifts)
      ELSE \A g \in SUBSET (len * B .. p + W - 1) : Diff # Pos(g, Shifts)

LEMMA StartStep ==
  ASSUME TypeOK, StartInv, [Next]_vars
  PROVE StartInv'
<1>1. CASE TakeByte
  BY <1>1, DiffTakes DEF StartInv
<1>2. CASE ShiftBit
  BY <1>2 DEF StartInv, ShiftBit
<1>3. CASE UNCHANGED vars
  BY <1>3 DEF StartInv, vars, Diff
<1> QED
  BY <1>1, <1>2, <1>3 DEF Next

LEMMA BurstTake ==
  ASSUME TypeOK, StartInv, BurstInv, TakeByte
  PROVE BurstInv'
<1>1. PICK d \in SUBSET (len * B .. len * B + B - 1) :
        /\ len = 0 => d # {}
        /\ Typical(flips \cup d)
        /\ flips' = flips \cup d
        /\ Diff' = Xor(Diff, Pos(d, len * B))
  BY DiffTakes
<1>2. PICK n \in Nat : n = len * B
  BY TakeCounts
<1>3. Shifts = n /\ Shifts' = n /\ len' * B = n + B /\ flips \subseteq 0 .. n - 1 /\ d \subseteq n .. n + B - 1
  BY <1>1, <1>2, TakeCounts
<1>4. W \in Nat /\ B \in Nat /\ B >= 1
  BY WidthAssumption
<1> SUFFICES ASSUME NEW p \in flips', flips' \subseteq p .. p + W - 1
             PROVE IF Shifts' <= p
                     THEN Diff' = Pos(flips', Shifts')
                     ELSE \A g \in SUBSET (len' * B .. p + W - 1) : Diff' # Pos(g, Shifts')
  BY DEF BurstInv
<1>5. CASE flips = {}
  <2>1. n = 0 /\ Diff = {} /\ flips' = d
    BY <1>1, <1>2, <1>4, <1>5 DEF StartInv
  <2>2. Diff' = Pos(d, 0)
    BY <1>1, <1>2, <2>1 DEF Xor
  <2>3. Shifts' <= p
    BY <1>3, <2>1
  <2> QED
    BY <1>3, <2>1, <2>2, <2>3
<1>6. CASE flips # {}
  <2>1. p \in flips /\ p \in Nat /\ p < n
    <3>1. PICK x \in flips : x \in 0 .. n - 1
      BY <1>3, <1>6
    <3>2. p <= x /\ p \in Int
      BY <1>1, <1>3, <3>1
    <3> QED
      BY <1>1, <1>3, <3>1, <3>2
  <2>2. flips \subseteq p .. p + W - 1 /\ d \subseteq n .. p + W - 1
    BY <1>1, <1>3, <1>4, <2>1
  <2>3. \A g \in SUBSET (n .. p + W - 1) : Diff # Pos(g, n)
    BY <1>2, <1>3, <2>1, <2>2 DEF BurstInv
  <2>4. ASSUME NEW g \in SUBSET (n + B .. p + W - 1) PROVE Diff' # Pos(g, n)
    <3> SUFFICES ASSUME Diff' = Pos(g, n) PROVE FALSE
      OBVIOUS
    <3>1. Xor(Diff, Pos(d, n)) = Pos(g, n)
      BY <1>1, <1>2
    <3>2. Diff = Xor(Pos(g, n), Pos(d, n))
      BY <3>1 DEF Xor
    <3>3. g \in SUBSET Int /\ d \in SUBSET Int /\ g \cap d = {}
      BY <1>3, <1>4
    <3>4. Diff = Pos(g \cup d, n)
      BY <3>2, <3>3, PosUnion
    <3>5. g \cup d \in SUBSET (n .. p + W - 1)
      BY <1>4, <2>1, <2>2
    <3> QED
      BY <2>3, <3>4, <3>5
  <2> QED
    BY <1>3, <2>1, <2>4
<1> QED
  BY <1>5, <1>6

LEMMA BurstShift ==
  ASSUME TypeOK, BurstInv, ShiftBit
  PROVE BurstInv'
<1>1. PICK n \in Nat, s \in Int : n = len * B /\ s = Shifts
  BY ShiftCounts
<1>2. /\ Diff' = Step(Diff) /\ Diff \subseteq Bits /\ flips' = flips
      /\ Shifts' = s + 1 /\ len' * B = n /\ s < n /\ n <= s + W /\ flips \subseteq 0 .. n - 1
  BY <1>1, ShiftCounts
<1>3. W \in Nat
  BY WidthAssumption
<1> SUFFICES ASSUME NEW p \in flips, flips \subseteq p .. p + W - 1
             PROVE IF s + 1 <= p
                     THEN Step(Diff) = Pos(flips, s + 1)
                     ELSE \A g \in SUBSET (n .. p + W - 1) : Step(Diff) # Pos(g, s + 1)
  BY <1>2 DEF BurstInv
<1>4. p \in Nat /\ p < n
  BY <1>2
<1>5. CASE s + 1 <= p
  <2>1. Diff = Pos(flips, s)
    BY <1>1, <1>4, <1>5 DEF BurstInv
  <2>2. flips \in SUBSET (s + 1 .. s + W - 1)
    BY <1>2, <1>3, <1>4, <1>5
  <2> QED
    BY <1>5, <2>1, <2>2, PosShift
<1>6. CASE ~(s + 1 <= p)
  <2> SUFFICES ASSUME NEW g \in SUBSET (n .. p + W - 1), Step(Diff) = Pos(g, s + 1) PROVE FALSE
    BY <1>6
  <2>1. g \in SUBSET (s + 1 .. s + W - 1)
    BY <1>2, <1>3, <1>4, <1>6
  <2>2. Pos(g, s) \subseteq Bits /\ Step(Pos(g, s)) = Pos(g, s + 1)
    BY <2>1, PosShift
  <2>3. Diff = Pos(g, s)
    BY <1>2, <2>2, StepInjective
  <2>4. CASE p < s
    BY <1>1, <1>4, <2>3, <2>4 DEF BurstInv
  <2>5. CASE p = s
    <3>1. Diff = Pos(flips, s)
      BY <1>1, <1>4, <2>5 DEF BurstInv
    <3>2. W - 1 \in Pos(flips, s)
      BY <1>3, <1>4, <2>5 DEF Pos
    <3>3. W - 1 \notin Pos(g, s)
      <4> SUFFICES ASSUME NEW q \in g, W - 1 = W - 1 - (q - s) PROVE FALSE
        BY DEF Pos
      <4> QED
        BY <1>3, <2>1
    <3> QED
      BY <2>3, <3>1, <3>2, <3>3
  <2> QED
    BY <1>4, <1>6, <2>4, <2>5
<1> QED
  BY <1>5, <1>6

LEMMA BurstStep ==
  ASSUME TypeOK, StartInv, BurstInv, [Next]_vars
  PROVE BurstInv'
<1>1. CASE UNCHANGED vars
  BY <1>1 DEF BurstInv, vars, Diff, Shifts
<1> QED
  BY <1>1, BurstTake, BurstShift DEF Next

(* Damage that lies within as many bits as the register has. *)
IsBurst(f) == \E p \in f : f \subseteq p .. p + W - 1

LEMMA BurstSeen ==
  ASSUME TypeOK, BurstInv, left = 0, IsBurst(flips)
  PROVE sent # rcvd
<1>1. PICK p \in flips : flips \subseteq p .. p + W - 1
  BY DEF IsBurst
<1>2. PICK n \in Nat : n = len * B
  BY WidthAssumption, InputAssumption DEF TypeOK
<1>3. Shifts = n /\ p \in 0 .. n - 1
  BY <1>2 DEF Shifts, TypeOK
<1>4. Diff # Pos({}, Shifts)
  BY <1>1, <1>3 DEF BurstInv
<1> QED
  BY <1>4 DEF Diff, Pos, Xor

(* crc16 tells every frame damaged by one burst of at most 16 bits from the   *)
(* one that was sent, whatever the length of the frame, the place of the      *)
(* burst and the bytes: for a register of any width and any polynomial with a *)
(* constant term.                                                             *)
THEOREM BurstDetected == Spec => [](left = 0 /\ IsBurst(flips) => sent # rcvd)
<1>1. Init => StartInv /\ BurstInv
  BY DEF Init, StartInv, BurstInv, Diff, Xor
<1>2. TypeOK /\ StartInv /\ BurstInv /\ [Next]_vars => StartInv' /\ BurstInv'
  BY StartStep, BurstStep
<1>3. TypeOK /\ BurstInv => (left = 0 /\ IsBurst(flips) => sent # rcvd)
  BY BurstSeen
<1> QED
  BY <1>1, <1>2, <1>3, TypeCorrect, PTL DEF Spec

---------------------------------------------------------------------------
(* Two bits.  A single damaged bit runs through the orbit f of the           *)
(* register's top bit under Step; a second one takes it back only if it      *)
(* meets the orbit at the top bit again.                                     *)

OneBitInv(f) ==
  \A p \in flips : flips = {p} =>
    IF Shifts <= p THEN Diff = Pos(flips, Shifts) ELSE Diff = f[Shifts - p]

TwoBitInv(f) ==
  \A p, q \in flips : p < q /\ flips = {p, q} =>
    /\ Shifts <= p => Diff = Pos(flips, Shifts)
    /\ p < Shifts /\ Shifts <= q => Diff = Xor(f[Shifts - p], Pos({q}, Shifts))
    /\ q < Shifts => Diff # {}

LEMMA PosTop ==
  ASSUME NEW p \in Int
  PROVE Pos({p}, p) = {W - 1}
<1>1. W - 1 - (p - p) = W - 1
  BY WidthAssumption
<1> QED
  BY <1>1 DEF Pos

LEMMA StepKeepsDifference ==
  ASSUME NEW a, a \subseteq Bits, a # {}
  PROVE Step(a) # {}
<1>1. Step({}) = {}
  BY DEF Step, ShiftLeft
<1> QED
  BY <1>1, StepInjective

LEMMA WithinFrame ==
  ASSUME TypeOK
  PROVE len * B \in Nat /\ MaxLen * B \in Nat /\ len * B <= MaxLen * B
<1>1. len \in Nat /\ MaxLen \in Nat /\ len <= MaxLen /\ B \in Nat
  BY WidthAssumption, InputAssumption DEF TypeOK
<1> QED
  BY <1>1

LEMMA PairTake ==
  ASSUME TypeOK, StartInv, NEW f, OneBitInv(f), TwoBitInv(f), TakeByte
  PROVE OneBitInv(f)' /\ TwoBitInv(f)'
<1>1. PICK d \in SUBSET (len * B .. len * B + B - 1) :
        /\ len = 0 => d # {}
        /\ Typical(flips \cup d)
        /\ flips' = flips \cup d
        /\ Diff' = Xor(Diff, Pos(d, len * B))
  BY DiffTakes
<1>2. PICK n \in Nat : n = len * B
  BY TakeCounts
<1>3. Shifts = n /\ Shifts' = n /\ flips \subseteq 0 .. n - 1 /\ d \subseteq n .. n + B - 1
  BY <1>1, <1>2, TakeCounts
<1>4. B \in Nat
  BY WidthAssumption
<1>5. d = {} => Diff' = Diff /\ flips' = flips
  BY <1>1 DEF Pos, Xor
<1>6. CASE flips = {}
  <2>1. n = 0 /\ Diff = {} /\ flips' = d
    BY <1>1, <1>2, <1>4, <1>6 DEF StartInv
  <2>2. Diff' = Pos(flips', 0) /\ Shifts' = 0
    BY <1>1, <1>2, <1>3, <2>1 DEF Xor
  <2>3. \A p \in flips' : p \in Int /\ 0 <= p
    BY <1>3, <1>4, <2>1
  <2>4. OneBitInv(f)'
    BY <2>2, <2>3 DEF OneBitInv
  <2>5. TwoBitInv(f)'
    BY <2>2, <2>3 DEF TwoBitInv
  <2> QED
    BY <2>4, <2>5
<1>7. CASE flips # {}
  <2>1. PICK x \in flips : x \in 0 .. n - 1
    BY <1>3, <1>7
  <2>2. OneBitInv(f)'
    <3> SUFFICES ASSUME NEW p \in flips', flips' = {p}
                 PROVE IF Shifts' <= p THEN Diff' = Pos(flips', Shifts') ELSE Diff' = f[Shifts' - p]
      BY DEF OneBitInv
    <3>1. p = x /\ d = {}
      BY <1>1, <1>3, <1>4, <2>1
    <3> QED
      BY <1>3, <1>5, <3>1 DEF OneBitInv
  <2>3. TwoBitInv(f)'
    <3> SUFFICES ASSUME NEW p \in flips', NEW q \in flips', p < q, flips' = {p, q}
                 PROVE /\ Shifts' <= p => Diff' = Pos(flips', Shifts')
                       /\ p < Shifts' /\ Shifts' <= q => Diff' = Xor(f[Shifts' - p], Pos({q}, Shifts'))
                       /\ q < Shifts' => Diff' # {}
      BY DEF TwoBitInv
    <3>1. p \in flips /\ p \in Int /\ q \in Int /\ p < n
      BY <1>1, <1>3, <1>4, <2>1
    <3>2. CASE q \in flips
      <4>1. d = {}
        <5> SUFFICES ASSUME NEW y \in d PROVE FALSE
          OBVIOUS
        <5>1. y \in {p, q} /\ y \in n .. n + B - 1
          BY <1>1, <1>3
        <5> QED
          BY <1>3, <3>1, <3>2, <5>1
      <4> QED
        BY <1>3, <1>5, <3>2, <4>1 DEF TwoBitInv
    <3>3. CASE q \notin flips
      <4>1. flips = {p} /\ d = {q} /\ n <= q
        <5>1. q \in d
          BY <1>1, <3>3
        <5>2. q \in n .. n + B - 1
          BY <1>3, <5>1
        <5>3. p \notin d
          BY <1>3, <3>1
        <5> QED
          BY <1>1, <3>1, <3>3, <5>1, <5>2, <5>3
      <4>2. Diff = f[n - p]
        BY <1>3, <3>1, <4>1 DEF OneBitInv
      <4>3. Diff' = Xor(f[n - p], Pos({q}, n))
        BY <1>1, <1>2, <4>1, <4>2
      <4> QED
        BY <1>3, <3>1, <4>1, <4>3
    <3> QED
      BY <3>2, <3>3
  <2> QED
    BY <2>2, <2>3
<1> QED
  BY <1>6, <1>7

LEMMA PairShift ==
  ASSUME TypeOK, NEW f, LongOrbit(f), OneBitInv(f), TwoBitInv(f), ShiftBit
  PROVE OneBitInv(f)' /\ TwoBitInv(f)'
<1>1. PICK n \in Nat, s \in Int : n = len * B /\ s = Shifts
  BY ShiftCounts
<1>2. /\ Diff' = Step(Diff) /\ Diff \subseteq Bits /\ flips' = flips
      /\ Shifts' = s + 1 /\ s < n /\ n <= s + W /\ flips \subseteq 0 .. n - 1
  BY <1>1, ShiftCounts
<1>3. W \in Nat
  BY WidthAssumption
<1>4. ASSUME NEW p \in flips, p <= s
      PROVE p \in Nat /\ s - p \in Nat /\ f[(s - p) + 1] = Step(f[s - p]) /\ (s - p) + 1 = s + 1 - p
  <2>1. PICK m \in Nat : m = MaxLen * B
    BY WithinFrame
  <2>2. n <= m
    BY <1>1, <2>1, WithinFrame
  <2>3. p \in Nat /\ s - p \in Nat /\ (s - p) + 1 \in 1 .. m /\ (s - p) + 1 = s + 1 - p
    BY <1>2, <1>4, <2>2
  <2>4. ((s - p) + 1) - 1 = s - p
    BY <2>3
  <2> QED
    BY <2>1, <2>3, <2>4 DEF LongOrbit
<1>5. ASSUME NEW g, g \subseteq flips, \A q \in g : s + 1 <= q
      PROVE Step(Pos(g, s)) = Pos(g, s + 1)
  <2>1. g \in SUBSET (s + 1 .. s + W - 1)
    BY <1>2, <1>3, <1>5
  <2> QED
    BY <2>1, PosShift
<1>6. ASSUME NEW p \in flips, flips = {p}
      PROVE IF s + 1 <= p THEN Step(Diff) = Pos(flips, s + 1) ELSE Step(Diff) = f[s + 1 - p]
  <2>1. p \in Int
    BY <1>2
  <2>2. CASE s + 1 <= p
    <3>1. Diff = Pos(flips, s)
      BY <1>1, <1>6, <2>1, <2>2 DEF OneBitInv
    <3>2. Step(Pos(flips, s)) = Pos(flips, s + 1)
      BY <1>5, <1>6, <2>2
    <3> QED
      BY <2>2, <3>1, <3>2
  <2>3. CASE p = s
    <3>1. Diff = {W - 1}
      BY <1>1, <1>6, <2>1, <2>3, PosTop DEF OneBitInv
    <3>2. f[s - p] = {W - 1}
      BY <2>3 DEF LongOrbit
    <3> QED
      BY <1>4, <2>3, <3>1, <3>2
  <2>4. CASE p < s
    <3>1. Diff = f[s - p]
      BY <1>1, <1>6, <2>1, <2>4 DEF OneBitInv
    <3> QED
      BY <1>4, <2>1, <2>4, <3>1
  <2> QED
    BY <2>1, <2>2, <2>3, <2>4
<1>7. ASSUME NEW p \in flips, NEW q \in flips, p < q, flips = {p, q}
      PROVE /\ s + 1 <= p => Step(Diff) = Pos(flips, s + 1)
            /\ p < s + 1 /\ s + 1 <= q => Step(Diff) = Xor(f[s + 1 - p], Pos({q}, s + 1))
            /\ q < s + 1 => Step(Diff) # {}
  <2>1. p \in Int /\ q \in Int
    BY <1>2
  <2>2. ASSUME p <= s, s <= q PROVE Diff = Xor(f[s - p], Pos({q}, s))
    <3>1. CASE p < s
      BY <1>1, <1>7, <2>2, <3>1 DEF TwoBitInv
    <3>2. CASE p = s
      <4>1. Diff = Pos({p, q}, s)
        BY <1>1, <1>7, <2>1, <3>2 DEF TwoBitInv
      <4>2. {p} \in SUBSET Int /\ {q} \in SUBSET Int /\ {p} \cap {q} = {} /\ {p} \cup {q} = {p, q}
        BY <1>7, <2>1
      <4>3. Diff = Xor(Pos({p}, s), Pos({q}, s))
        <5>1. Pos({p} \cup {q}, s) = Xor(Pos({p}, s), Pos({q}, s))
          BY <4>2, PosUnion
        <5> QED
          BY <4>1, <4>2, <5>1
      <4>4. f[s - p] = {W - 1} /\ Pos({p}, s) = {W - 1}
        BY <2>1, <3>2, PosTop DEF LongOrbit
      <4> QED
        BY <4>3, <4>4, Zenon
    <3> QED
      BY <2>1, <2>2, <3>1, <3>2
  <2>3. ASSUME s + 1 <= p PROVE Step(Diff) = Pos(flips, s + 1)
    <3>1. Diff = Pos(flips, s)
      BY <1>1, <1>7, <2>1, <2>3 DEF TwoBitInv
    <3>2. \A x \in flips : s + 1 <= x
      BY <1>7, <2>1, <2>3
    <3> QED
      BY <1>5, <3>1, <3>2
  <2>4. ASSUME p < s + 1, s + 1 <= q PROVE Step(Diff) = Xor(f[s + 1 - p], Pos({q}, s + 1))
    <3>1. p <= s /\ s <= q
      BY <2>1, <2>4
    <3>2. Step(Diff) = Xor(Step(f[s - p]), Step(Pos({q}, s)))
      BY <2>2, <3>1, StepLinear
    <3>3. Step(f[s - p]) = f[s + 1 - p]
      BY <1>4, <3>1
    <3>4. Step(Pos({q}, s)) = Pos({q}, s + 1)
      BY <1>5, <2>4
    <3> QED
      BY <3>2, <3>3, <3>4
  <2>5. ASSUME q < s + 1 PROVE Step(Diff) # {}
    <3>1. Diff # {}
      <4>1. CASE q < s
        BY <1>1, <1>7, <2>1, <4>1 DEF TwoBitInv
      <4>2. CASE q = s
        <5>1. Diff = Xor(f[s - p], {W - 1})
          BY <1>7, <2>1, <2>2, <4>2, PosTop
        <5>2. f[s - p] # {W - 1}
          <6>1. PICK m \in Nat : m = MaxLen * B
            BY WithinFrame
          <6>2. n <= m
            BY <1>1, <6>1, WithinFrame
          <6>3. s - p \in 1 .. m
            BY <1>2, <1>7, <2>1, <4>2, <6>2
          <6> QED
            BY <6>1, <6>3 DEF LongOrbit
        <5> QED
          BY <5>1, <5>2 DEF Xor
      <4> QED
        BY <2>1, <2>5, <4>1, <4>2
    <3> QED
      BY <1>2, <3>1, StepKeepsDifference
  <2> QED
    BY <2>3, <2>4, <2>5
<1>8. OneBitInv(f)'
  BY <1>2, <1>6 DEF OneBitInv
<1>9. TwoBitInv(f)'
  BY <1>2, <1>7 DEF TwoBitInv
<1> QED
  BY <1>8, <1>9

LEMMA PairStep ==
  ASSUME TypeOK, StartInv, NEW f, LongOrbit(f), OneBitInv(f), TwoBitInv(f), [Next]_vars
  PROVE OneBitInv(f)' /\ TwoBitInv(f)'
<1>1. CASE UNCHANGED vars
  BY <1>1 DEF OneBitInv, TwoBitInv, vars, Diff, Shifts
<1> QED
  BY <1>1, PairTake, PairShift DEF Next

LEMMA PairSeen ==
  ASSUME TypeOK, NEW f, TwoBitInv(f), left = 0,
         NEW p \in flips, NEW q \in flips, p < q, flips = {p, q}
  PROVE sent # rcvd
<1>1. PICK n \in Nat : n = len * B
  BY WithinFrame
<1>2. Shifts = n /\ q \in 0 .. n - 1 /\ p \in 0 .. n - 1
  BY <1>1 DEF Shifts, TypeOK
<1>3. Diff # {}
  BY <1>2 DEF TwoBitInv
<1> QED
  BY <1>3 DEF Diff, Xor

LEMMA AtMostTwo ==
  ASSUME NEW f \in SUBSET Int, IsFiniteSet(f), Cardinality(f) <= 2, f # {}
  PROVE \/ \E p \in f : f = {p}
        \/ \E p, q \in f : p < q /\ f = {p, q}
<1>1. PICK x \in f : TRUE
  OBVIOUS
<1>2. CASE f = {x}
  BY <1>1, <1>2
<1>3. CASE f # {x}
  <2>1. PICK y \in f : y # x
    BY <1>1, <1>3
  <2>2. IsFiniteSet(f \ {x}) /\ Cardinality(f \ {x}) = Cardinality(f) - 1
    BY <1>1, FS_RemoveElement
  <2>3. y \in f \ {x}
    BY <2>1
  <2>4. IsFiniteSet((f \ {x}) \ {y}) /\ Cardinality((f \ {x}) \ {y}) = Cardinality(f \ {x}) - 1
    BY <2>2, <2>3, FS_RemoveElement
  <2>5. Cardinality((f \ {x}) \ {y}) \in Nat /\ Cardinality(f) \in Nat
    BY <2>4, FS_CardinalityType
  <2>6. Cardinality((f \ {x}) \ {y}) = 0
    BY <2>2, <2>4, <2>5
  <2>7. (f \ {x}) \ {y} = {}
    BY <2>4, <2>6, FS_EmptySet
  <2>8. f = {x, y} /\ x \in Int /\ y \in Int
    BY <1>1, <2>1, <2>7
  <2>9. CASE x < y
    BY <2>8, <2>9
  <2>10. CASE y < x
    BY <2>8, <2>10
  <2> QED
    BY <2>1, <2>8, <2>9, <2>10
<1> QED
  BY <1>2, <1>3

TypicalInv == flips # {} => Typical(flips)

LEMMA TypicalStep ==
  ASSUME TypeOK, TypicalInv, [Next]_vars
  PROVE TypicalInv'
<1>1. CASE TakeByte
  BY <1>1, DiffTakes DEF TypicalInv, Typical
<1>2. CASE ShiftBit \/ UNCHANGED vars
  BY <1>2 DEF TypicalInv, Typical, ShiftBit, vars
<1> QED
  BY <1>1, <1>2 DEF Next

LEMMA TypicalSeen ==
  ASSUME TypeOK, TypicalInv, BurstInv, NEW f, TwoBitInv(f)
  PROVE DamageDetected
<1> SUFFICES ASSUME left = 0, flips # {} PROVE sent # rcvd
  BY DEF DamageDetected
<1>1. CASE IsBurst(flips)
  BY <1>1, BurstSeen
<1>2. CASE ~IsBurst(flips)
  <2>1. Cardinality(flips) <= 2
    BY <1>2 DEF TypicalInv, Typical, IsBurst
  <2>2. PICK n \in Nat : n = len * B
    BY WithinFrame
  <2>3. flips \in SUBSET (0 .. n - 1)
    BY <2>2 DEF TypeOK
  <2>4. flips \in SUBSET Int /\ IsFiniteSet(flips)
    <3>1. IsFiniteSet(0 .. n - 1)
      BY FS_Interval
    <3>2. IsFiniteSet(flips)
      BY <2>3, <3>1, FS_Subset
    <3> QED
      BY <2>3, <3>2
  <2>5. CASE \E p \in flips : flips = {p}
    <3>1. PICK p \in flips : flips = {p}
      BY <2>5
    <3>2. p \in p .. p + W - 1
      <4>1. p \in Int /\ W \in Int /\ W >= 1
        BY <2>4, WidthAssumption
      <4> QED
        BY <4>1
    <3> QED
      BY <1>2, <3>1, <3>2 DEF IsBurst
  <2>6. CASE \E p, q \in flips : p < q /\ flips = {p, q}
    BY <2>6, PairSeen
  <2> QED
    BY <2>1, <2>4, <2>5, <2>6, AtMostTwo
<1> QED
  BY <1>1, <1>2

(* crc16 tells every frame with two damaged bits, wherever they are, and every *)
(* burst from the one that was sent, as long as the order of the polynomial   *)
(* exceeds the length of a frame: the registers' whole behaviour under damage *)
(* comes down to the orbit of one bit.                                        *)
THEOREM TypicalDamageDetected ==
  ASSUME NEW f, LongOrbit(f)
  PROVE Spec => []DamageDetected
<1> DEFINE CrcInv == StartInv /\ BurstInv /\ TypicalInv /\ OneBitInv(f) /\ TwoBitInv(f)
<1>1. Init => CrcInv
  BY DEF Init, StartInv, BurstInv, TypicalInv, OneBitInv, TwoBitInv, Diff, Xor
<1>2. TypeOK /\ CrcInv /\ [Next]_vars => CrcInv'
  <2> SUFFICES ASSUME TypeOK, CrcInv, [Next]_vars PROVE CrcInv'
    OBVIOUS
  <2>1. StartInv' /\ BurstInv' /\ TypicalInv'
    BY StartStep, BurstStep, TypicalStep
  <2>2. OneBitInv(f)' /\ TwoBitInv(f)'
    BY PairStep
  <2> QED
    BY <2>1, <2>2
<1>3. TypeOK /\ CrcInv => DamageDetected
  BY TypicalSeen
<1> HIDE DEF CrcInv
<1> QED
  BY <1>1, <1>2, <1>3, TypeCorrect, PTL DEF Spec

---------------------------------------------------------------------------
(* Long division.  The inner loop carries out the division of the damage, one *)
(* step of it per shift, in a register that moves along with the exponent;    *)
(* a byte that is taken moves the whole division up and only adds exponents   *)
(* that no step so far has looked at.                                         *)

Shifted(a, j) == {x + j : x \in a}

(* D is a division of p by x^W + Poly that has come down to exponent W - 1 + l. *)
Division(D, p, n, l) ==
  /\ D[n + W] = p
  /\ \A e \in W - 1 + l .. n + W : D[e] \subseteq Int
  /\ \A e \in W - 1 + l .. n + W - 1 : D[e] = DivStep(D[e + 1], e + 1)

DivisionInv ==
  /\ left <= len * B
  /\ \E D : /\ Division(D, Pos(flips, len * B), len * B, left)
            /\ D[W - 1 + left] = Shifted(Diff, left)

LEMMA ShiftedMember ==
  ASSUME NEW a \in SUBSET Int, NEW j \in Int, NEW y \in Int
  PROVE Shifted(a, j) \subseteq Int /\ (y \in Shifted(a, j) <=> y - j \in a)
<1>1. Shifted(a, j) \subseteq Int
  BY DEF Shifted
<1>2. ASSUME y \in Shifted(a, j) PROVE y - j \in a
  <2>1. PICK x \in a : y = x + j
    BY <1>2 DEF Shifted
  <2>2. x \in Int /\ y - j = x
    BY <2>1
  <2> QED
    BY <2>2
<1>3. ASSUME y - j \in a PROVE y \in Shifted(a, j)
  <2>1. y = (y - j) + j
    OBVIOUS
  <2> QED
    BY <1>3, <2>1 DEF Shifted
<1> QED
  BY <1>1, <1>2, <1>3

LEMMA DivStepMember ==
  ASSUME NEW a \in SUBSET Int, NEW x \in Int, NEW y \in Int
  PROVE /\ DivStep(a, x) \subseteq Int
        /\ y \in DivStep(a, x) <=> (y \in a <=> ~(x \in a /\ (y = x \/ y - x + W \in Poly)))
<1>1. W \in Int /\ Poly \subseteq Int
  BY WidthAssumption, PolyAssumption DEF Bits
<1>2. PICK q : q = {k + x - W : k \in Poly}
  OBVIOUS
<1>3. q \subseteq Int
  BY <1>1, <1>2
<1>4. y \in q <=> y - x + W \in Poly
  <2>1. ASSUME y \in q PROVE y - x + W \in Poly
    <3>1. PICK k \in Poly : y = k + x - W
      BY <1>2, <2>1
    <3>2. k \in Int /\ y - x + W = k
      BY <1>1, <3>1
    <3> QED
      BY <3>2
  <2>2. ASSUME y - x + W \in Poly PROVE y \in q
    <3>1. y = (y - x + W) + x - W
      BY <1>1
    <3> QED
      BY <1>2, <2>2, <3>1
  <2> QED
    BY <2>1, <2>2
<1>5. DivStep(a, x) = IF x \in a THEN Xor(a, {x} \cup q) ELSE a
  BY <1>2 DEF DivStep
<1>6. DivStep(a, x) \subseteq Int
  BY <1>3, <1>5 DEF Xor
<1>7. y \in {x} \cup q <=> y = x \/ y - x + W \in Poly
  BY <1>4
<1> QED
  BY <1>5, <1>6, <1>7 DEF Xor

(* A division moves up as a whole, and leaves exponents alone that it has not *)
(* come to.                                                                   *)
LEMMA DivStepMoves ==
  ASSUME NEW a \in SUBSET Int, NEW x \in Int, NEW j \in Int
  PROVE DivStep(Shifted(a, j), x + j) = Shifted(DivStep(a, x), j)
<1>1. Shifted(a, j) \in SUBSET Int /\ DivStep(a, x) \in SUBSET Int /\ x + j \in Int
  BY ShiftedMember, DivStepMember
<1>2. DivStep(Shifted(a, j), x + j) \subseteq Int /\ Shifted(DivStep(a, x), j) \subseteq Int
  BY <1>1, ShiftedMember, DivStepMember
<1>3. ASSUME NEW y \in Int PROVE y \in DivStep(Shifted(a, j), x + j) <=> y \in Shifted(DivStep(a, x), j)
  <2>1. y - j \in Int /\ y - (x + j) + W = (y - j) - x + W /\ (y = x + j <=> y - j = x) /\ (x + j) - j = x
    BY WidthAssumption
  <2>2. y \in Shifted(a, j) <=> y - j \in a
    BY ShiftedMember
  <2>3. x + j \in Shifted(a, j) <=> x \in a
    BY <1>1, <2>1, ShiftedMember
  <2>4. y \in DivStep(Shifted(a, j), x + j)
          <=> (y - j \in a <=> ~(x \in a /\ (y - j = x \/ (y - j) - x + W \in Poly)))
    BY <1>1, <2>1, <2>2, <2>3, DivStepMember
  <2>5. y \in Shifted(DivStep(a, x), j) <=> y - j \in DivStep(a, x)
    BY <1>1, ShiftedMember
  <2> QED
    BY <2>1, <2>4, <2>5, DivStepMember
<1> QED
  BY <1>2, <1>3

LEMMA DivStepBeside ==
  ASSUME NEW a \in SUBSET Int, NEW b \in SUBSET Int, NEW x \in Int, x \notin b
  PROVE DivStep(Xor(a, b), x) = Xor(DivStep(a, x), b)
<1>1. PICK q : q = {x} \cup {k + x - W : k \in Poly}
  OBVIOUS
<1>2. x \in Xor(a, b) <=> x \in a
  BY DEF Xor
<1>3. Xor(Xor(a, b), q) = Xor(Xor(a, q), b)
  BY DEF Xor
<1> QED
  BY <1>1, <1>2, <1>3 DEF DivStep

(* A turn of the loop is a step of the division. *)
LEMMA StepDivides ==
  ASSUME NEW a, a \subseteq Bits, NEW j \in Int
  PROVE DivStep(Shifted(a, j), W - 1 + j) = Shifted(Step(a), j - 1)
<1>1. a \in SUBSET Int /\ Step(a) \in SUBSET Int /\ W - 1 + j \in Int /\ j - 1 \in Int /\ W \in Int
  <2>1. Step(a) \subseteq Bits
    BY StepTyped
  <2>2. W \in Int /\ Bits \subseteq Int
    BY WidthAssumption DEF Bits
  <2>3. a \in SUBSET Int /\ Step(a) \in SUBSET Int
    BY <2>1, <2>2, Zenon
  <2> QED
    BY <2>2, <2>3
<1>2. Shifted(a, j) \in SUBSET Int
  BY <1>1, ShiftedMember
<1>3. DivStep(Shifted(a, j), W - 1 + j) \subseteq Int /\ Shifted(Step(a), j - 1) \subseteq Int
  BY <1>1, <1>2, ShiftedMember, DivStepMember
<1>4. ASSUME NEW y \in Int
      PROVE y \in DivStep(Shifted(a, j), W - 1 + j) <=> y \in Shifted(Step(a), j - 1)
  <2>1. PICK x \in Int : x = y - (j - 1)
    BY <1>1
  <2>2. x - 1 = y - j /\ y - (W - 1 + j) + W = x /\ (y = W - 1 + j <=> x = W) /\ (W - 1 + j) - j = W - 1
    BY <1>1, <2>1
  <2>3. y \in Shifted(Step(a), j - 1) <=> x \in Step(a)
    BY <1>1, <2>1, ShiftedMember
  <2>4. y \in Shifted(a, j) <=> x - 1 \in a
    BY <1>1, <2>2, ShiftedMember
  <2>5. W - 1 + j \in Shifted(a, j) <=> W - 1 \in a
    BY <1>1, <2>2, ShiftedMember
  <2>6. y \in DivStep(Shifted(a, j), W - 1 + j) <=> (x - 1 \in a <=> ~(W - 1 \in a /\ (x = W \/ x \in Poly)))
    <3>1. PICK b \in SUBSET Int, z \in Int : b = Shifted(a, j) /\ z = W - 1 + j
      BY <1>1, <1>2
    <3>2. y \in DivStep(b, z) <=> (y \in b <=> ~(z \in b /\ (y = z \/ y - z + W \in Poly)))
      BY DivStepMember
    <3> QED
      BY <2>2, <2>4, <2>5, <3>1, <3>2
  <2>7. x \in Step(a) <=> ((x \in 1 .. W - 1 /\ x - 1 \in a) <=> ~(W - 1 \in a /\ x \in Poly))
    BY StepMember
  <2>8. CASE x = W
    <3>1. W \notin Poly /\ x \notin 1 .. W - 1
      BY <1>1, <2>8, PolyAssumption DEF Bits
    <3> QED
      BY <2>3, <2>6, <2>7, <2>8, <3>1
  <2>9. CASE x # W
    <3>1. x - 1 \in a => x \in 1 .. W - 1
      BY <1>1, <2>9 DEF Bits
    <3> QED
      BY <2>3, <2>6, <2>7, <2>9, <3>1
  <2> QED
    BY <2>8, <2>9
<1> QED
  BY <1>3, <1>4

LEMMA LeastNat ==
  ASSUME NEW T \in SUBSET Nat, T # {}
  PROVE \E x \in T : \A y \in T : x <= y
<1> DEFINE R == OpToRel(<, Nat)
<1>1. IsWellFoundedOn(R, Nat)
  BY NatLessThanWellFounded
<1> HIDE DEF R
<1>2. PICK x \in T : \A y \in T : <<y, x>> \notin R
  BY <1>1, WFMin
<1>3. ASSUME NEW y \in T PROVE x <= y
  <2>1. <<y, x>> \notin R
    BY <1>2
  <2> QED
    BY <2>1 DEF R, OpToRel
<1> QED
  BY <1>3

(* What the recursive definition of Remainder computes: any division that has *)
(* come all the way down ends in it.  Two divisions that differ would differ  *)
(* first in some step.                                                        *)
LEMMA RemainderUnique ==
  ASSUME NEW n \in Nat, NEW p, NEW D, Division(D, p, n, 0)
  PROVE Remainder(p, n) = D[W - 1]
<1>1. W \in Nat /\ W >= 1 /\ W - 1 + 0 = W - 1 /\ n + W \in Nat
  BY WidthAssumption
<1> DEFINE S == W - 1 .. n + W
           Div(F) == [e \in S |-> IF e = n + W THEN p ELSE DivStep(F[e + 1], e + 1)]
           R == CHOOSE F : F = Div(F)
           E == [e \in S |-> D[e]]
<1>2. Remainder(p, n) = R[W - 1]
  BY DEF Remainder
<1>3. E = Div(E)
  <2>1. ASSUME NEW e \in S PROVE E[e] = IF e = n + W THEN p ELSE DivStep(E[e + 1], e + 1)
    <3>1. CASE e = n + W
      BY <1>1, <3>1 DEF Division
    <3>2. CASE e # n + W
      <4>1. e \in W - 1 .. n + W - 1 /\ e + 1 \in S
        BY <1>1, <3>2
      <4>2. D[e] = DivStep(D[e + 1], e + 1)
        BY <1>1, <4>1 DEF Division
      <4> QED
        BY <3>2, <4>1, <4>2
    <3> QED
      BY <3>1, <3>2
  <2> QED
    BY <2>1
<1>4. R = Div(R)
  BY <1>3, Zenon
<1>5. \A e \in S : R[e] = IF e = n + W THEN p ELSE DivStep(R[e + 1], e + 1)
  <2> HIDE DEF R
  <2> QED
    BY <1>4
<1>6. \A e \in S : E[e] = IF e = n + W THEN p ELSE DivStep(E[e + 1], e + 1)
  <2> HIDE DEF E
  <2> QED
    BY <1>3
<1>7. E[W - 1] = D[W - 1]
  BY <1>1
<1> HIDE DEF R, E, Div
<1>8. \A m \in 0 .. n + 1 : R[n + W - m] = E[n + W - m]
  <2> DEFINE T == {m \in Nat : m <= n + 1 /\ R[n + W - m] # E[n + W - m]}
  <2> SUFFICES ASSUME T # {} PROVE FALSE
    OBVIOUS
  <2>1. T \in SUBSET Nat
    OBVIOUS
  <2> HIDE DEF T
  <2>2. PICK m \in T : \A y \in T : m <= y
    BY <2>1, LeastNat
  <2> USE DEF T
  <2>3. m \in Nat /\ m <= n + 1 /\ R[n + W - m] # E[n + W - m]
    OBVIOUS
  <2>4. n + W - m \in S
    BY <1>1, <2>3
  <2>5. m # 0
    <3> SUFFICES ASSUME m = 0 PROVE FALSE
      OBVIOUS
    <3>1. n + W - m = n + W
      BY <1>1
    <3> QED
      BY <1>5, <1>6, <2>3, <2>4, <3>1
  <2>6. m - 1 \in Nat /\ m - 1 <= n + 1 /\ m - 1 < m
    BY <2>3, <2>5
  <2>7. R[n + W - (m - 1)] = E[n + W - (m - 1)]
    <3>1. m - 1 \notin T
      <4> HIDE DEF T
      <4>1. m - 1 \in T => m <= m - 1
        BY <2>2
      <4> QED
        BY <2>3, <2>6, <4>1
    <3> QED
      BY <2>6, <3>1
  <2>8. n + W - (m - 1) = (n + W - m) + 1 /\ n + W - m # n + W
    BY <1>1, <2>3, <2>5
  <2> QED
    BY <1>5, <1>6, <2>3, <2>4, <2>7, <2>8
<1>9. R[W - 1] = E[W - 1]
  <2>1. n + 1 \in 0 .. n + 1 /\ n + W - (n + 1) = W - 1
    BY <1>1
  <2> QED
    BY <1>8, <2>1
<1> QED
  BY <1>2, <1>7, <1>9

LEMMA DivisionTake ==
  ASSUME TypeOK, DivisionInv, TakeByte
  PROVE DivisionInv'
<1>1. PICK d \in SUBSET (len * B .. len * B + B - 1) :
        /\ flips' = flips \cup d
        /\ Diff' = Xor(Diff, Pos(d, len * B))
  BY DiffTakes
<1>2. PICK n \in Nat : n = len * B
  BY TakeCounts
<1>3. /\ flips \subseteq 0 .. n - 1 /\ len' * B = n + B /\ left = 0 /\ left' = B
      /\ W \in Nat /\ B \in Nat /\ Diff \subseteq Bits
  BY <1>2, TakeCounts, WidthAssumption DEF TakeByte, TypeOK, Diff, Xor
<1>4. PICK D : Division(D, Pos(flips, n), n, 0) /\ D[W - 1] = Shifted(Diff, 0)
  <2>1. W - 1 + 0 = W - 1
    BY <1>3
  <2> QED
    BY <1>2, <1>3, <2>1 DEF DivisionInv
<1>5. d \in SUBSET Int /\ flips \in SUBSET Int /\ flips \cap d = {} /\ Diff \in SUBSET Int /\ n + B \in Int
  BY <1>2, <1>3 DEF Bits
<1> DEFINE new == Pos(d, n + B)
           E == [e \in W - 1 + B .. n + B + W |-> Xor(Shifted(D[e - B], B), new)]
<1>6. ASSUME NEW g \in SUBSET Int PROVE Shifted(Pos(g, n), B) = Pos(g, n + B)
  <2>1. Pos(g, n) \in SUBSET Int /\ Pos(g, n + B) \in SUBSET Int
    BY <1>5, PosMember
  <2>2. Shifted(Pos(g, n), B) \subseteq Int
    BY <1>3, <2>1, ShiftedMember
  <2>3. ASSUME NEW y \in Int PROVE y \in Shifted(Pos(g, n), B) <=> y \in Pos(g, n + B)
    <3>1. y - B \in Int /\ n + W - 1 - (y - B) = (n + B) + W - 1 - y
      BY <1>3
    <3>2. y \in Shifted(Pos(g, n), B) <=> y - B \in Pos(g, n)
      BY <1>3, <2>1, ShiftedMember
    <3>3. y - B \in Pos(g, n) <=> n + W - 1 - (y - B) \in g
      BY <3>1, PosMember
    <3>4. y \in Pos(g, n + B) <=> (n + B) + W - 1 - y \in g
      BY <1>5, PosMember
    <3> QED
      BY <3>1, <3>2, <3>3, <3>4
  <2> QED
    BY <2>1, <2>2, <2>3
<1>7. new \in SUBSET Int /\ \A x \in Int : x >= W + B => x \notin new
  <2>1. new \in SUBSET Int
    BY <1>5, PosMember
  <2>2. ASSUME NEW x \in Int, x >= W + B, x \in new PROVE FALSE
    <3>1. (n + B) + W - 1 - x \in d
      BY <1>5, <2>2, PosMember
    <3>2. (n + B) + W - 1 - x \in n .. n + B - 1
      BY <1>2, <3>1
    <3> QED
      BY <1>3, <2>2, <3>2
  <2> QED
    BY <2>1, <2>2
<1>8. ASSUME NEW a, NEW b, a \in SUBSET Int, b \in SUBSET Int PROVE Shifted(Xor(a, b), B) = Xor(Shifted(a, B), Shifted(b, B))
  <2>1. Xor(a, b) \in SUBSET Int
    BY <1>8 DEF Xor
  <2>2. Shifted(Xor(a, b), B) \subseteq Int /\ Shifted(a, B) \subseteq Int /\ Shifted(b, B) \subseteq Int
    BY <1>3, <1>8, <2>1, ShiftedMember
  <2>3. ASSUME NEW y \in Int PROVE y \in Shifted(Xor(a, b), B) <=> y \in Xor(Shifted(a, B), Shifted(b, B))
    <3>1. /\ y \in Shifted(Xor(a, b), B) <=> y - B \in Xor(a, b)
          /\ y \in Shifted(a, B) <=> y - B \in a
          /\ y \in Shifted(b, B) <=> y - B \in b
      BY <1>3, <1>8, <2>1, ShiftedMember
    <3> QED
      BY <3>1 DEF Xor
  <2> QED
    BY <2>2, <2>3 DEF Xor
<1> HIDE DEF new
<1>9. ASSUME NEW e \in W - 1 + B .. n + B + W
      PROVE e - B \in W - 1 + 0 .. n + W /\ E[e] = Xor(Shifted(D[e - B], B), new) /\ D[e - B] \in SUBSET Int
  <2>1. e - B \in W - 1 + 0 .. n + W
    BY <1>3
  <2> QED
    BY <1>4, <2>1 DEF Division
<1> HIDE DEF E
<1>10. E[n + B + W] = Pos(flips', n + B)
  <2>1. n + B + W \in W - 1 + B .. n + B + W /\ (n + B + W) - B = n + W
    BY <1>3
  <2>2. E[n + B + W] = Xor(Shifted(Pos(flips, n), B), new)
    BY <1>4, <1>9, <2>1 DEF Division
  <2>3. Shifted(Pos(flips, n), B) = Pos(flips, n + B)
    BY <1>5, <1>6
  <2>4. Xor(Pos(flips, n + B), Pos(d, n + B)) = Pos(flips \cup d, n + B)
    BY <1>5, PosUnion
  <2> QED
    BY <1>1, <2>2, <2>3, <2>4 DEF new
<1>11. ASSUME NEW e \in W - 1 + B .. n + B + W PROVE E[e] \subseteq Int
  <2>1. Shifted(D[e - B], B) \subseteq Int
    BY <1>3, <1>9, ShiftedMember
  <2> QED
    BY <1>7, <1>9, <2>1 DEF Xor
<1>12. ASSUME NEW e \in W - 1 + B .. n + B + W - 1 PROVE E[e] = DivStep(E[e + 1], e + 1)
  <2>1. /\ e \in W - 1 + B .. n + B + W /\ e + 1 \in W - 1 + B .. n + B + W /\ e + 1 \in Int /\ e + 1 >= W + B
        /\ e - B \in W - 1 + 0 .. n + W - 1 /\ (e + 1) - B = (e - B) + 1 /\ (e - B) + 1 \in Int
        /\ ((e - B) + 1) + B = e + 1
    BY <1>3
  <2>2. PICK a \in SUBSET Int : a = D[(e - B) + 1]
    BY <1>9, <2>1
  <2>3. D[e - B] = DivStep(a, (e - B) + 1)
    BY <1>4, <2>1, <2>2 DEF Division
  <2>4. E[e] = Xor(Shifted(DivStep(a, (e - B) + 1), B), new) /\ E[e + 1] = Xor(Shifted(a, B), new)
    BY <1>9, <2>1, <2>2, <2>3
  <2>5. Shifted(DivStep(a, (e - B) + 1), B) = DivStep(Shifted(a, B), e + 1)
    BY <1>3, <2>1, DivStepMoves
  <2>6. Shifted(a, B) \in SUBSET Int
    BY <1>3, ShiftedMember
  <2>7. DivStep(Xor(Shifted(a, B), new), e + 1) = Xor(DivStep(Shifted(a, B), e + 1), new)
    BY <1>7, <2>1, <2>6, DivStepBeside
  <2> QED
    BY <2>4, <2>5, <2>7
<1>13. E[W - 1 + B] = Shifted(Diff', B)
  <2>1. W - 1 + B \in W - 1 + B .. n + B + W /\ (W - 1 + B) - B = W - 1
    BY <1>3
  <2>2. Shifted(Diff, 0) = Diff
    <3>1. \A x \in Diff : x + 0 = x
      BY <1>5
    <3> QED
      BY <3>1 DEF Shifted
  <2>3. E[W - 1 + B] = Xor(Shifted(Diff, B), new)
    BY <1>4, <1>9, <2>1, <2>2
  <2>4. Pos(d, n) \in SUBSET Int
    BY <1>5, PosMember
  <2>5. Shifted(Xor(Diff, Pos(d, n)), B) = Xor(Shifted(Diff, B), Shifted(Pos(d, n), B))
    BY <1>5, <1>8, <2>4
  <2> QED
    BY <1>1, <1>2, <1>5, <1>6, <2>3, <2>5 DEF new
<1>14. Division(E, Pos(flips', n + B), n + B, B)
  BY <1>10, <1>11, <1>12 DEF Division
<1> QED
  BY <1>3, <1>13, <1>14 DEF DivisionInv

LEMMA DivisionShift ==
  ASSUME TypeOK, DivisionInv, ShiftBit
  PROVE DivisionInv'
<1>1. PICK n \in Nat, l \in Int : n = len * B /\ l = left
  BY ShiftCounts DEF TypeOK
<1>2. /\ Diff' = Step(Diff) /\ Diff \subseteq Bits /\ flips' = flips /\ len' * B = n
      /\ left' = l - 1 /\ l > 0 /\ W \in Nat /\ W >= 1
  BY <1>1, ShiftCounts, WidthAssumption DEF ShiftBit
<1>3. PICK D : Division(D, Pos(flips, n), n, l) /\ D[W - 1 + l] = Shifted(Diff, l)
  BY <1>1 DEF DivisionInv
<1>4. l <= n
  BY <1>1 DEF DivisionInv
<1> DEFINE E == [e \in W - 1 + (l - 1) .. n + W |->
                   IF e = W - 1 + (l - 1) THEN DivStep(D[W - 1 + l], W - 1 + l) ELSE D[e]]
<1>5. ASSUME NEW e \in W - 1 + l .. n + W PROVE E[e] = D[e]
  BY <1>2
<1>6. E[W - 1 + (l - 1)] = DivStep(D[W - 1 + l], W - 1 + l)
  <2>1. W - 1 + (l - 1) \in W - 1 + (l - 1) .. n + W
    BY <1>2, <1>4
  <2> QED
    BY <2>1
<1> HIDE DEF E
<1>7. E[W - 1 + (l - 1)] = Shifted(Step(Diff), l - 1)
  BY <1>2, <1>3, <1>6, StepDivides
<1>8. E[n + W] = Pos(flips, n)
  <2>1. n + W \in W - 1 + l .. n + W
    BY <1>2, <1>4
  <2> QED
    BY <1>3, <1>5, <2>1 DEF Division
<1>9. ASSUME NEW e \in W - 1 + (l - 1) .. n + W PROVE E[e] \subseteq Int
  <2>1. CASE e = W - 1 + (l - 1)
    <3>1. W - 1 + l \in Int /\ W - 1 + l \in W - 1 + l .. n + W
      BY <1>2, <1>4
    <3>2. D[W - 1 + l] \in SUBSET Int
      BY <1>3, <3>1 DEF Division
    <3> QED
      BY <1>6, <2>1, <3>1, <3>2, DivStepMember
  <2>2. CASE e # W - 1 + (l - 1)
    <3>1. e \in W - 1 + l .. n + W
      BY <1>2, <2>2
    <3> QED
      BY <1>3, <1>5, <3>1 DEF Division
  <2> QED
    BY <2>1, <2>2
<1>10. ASSUME NEW e \in W - 1 + (l - 1) .. n + W - 1 PROVE E[e] = DivStep(E[e + 1], e + 1)
  <2>1. e + 1 \in W - 1 + l .. n + W
    BY <1>2
  <2>2. E[e + 1] = D[e + 1]
    BY <1>5, <2>1
  <2>3. CASE e = W - 1 + (l - 1)
    <3>1. e + 1 = W - 1 + l
      BY <1>2, <2>3
    <3> QED
      BY <1>6, <2>2, <2>3, <3>1
  <2>4. CASE e # W - 1 + (l - 1)
    <3>1. e \in W - 1 + l .. n + W - 1 /\ e \in W - 1 + l .. n + W
      BY <1>2, <2>4
    <3> QED
      BY <1>3, <1>5, <2>2, <3>1 DEF Division
  <2> QED
    BY <2>3, <2>4
<1>11. Division(E, Pos(flips, n), n, l - 1)
  BY <1>8, <1>9, <1>10 DEF Division
<1> QED
  BY <1>2, <1>4, <1>7, <1>11 DEF DivisionInv

LEMMA DivisionInit ==
  ASSUME Init
  PROVE DivisionInv
<1>1. flips = {} /\ left = 0 /\ len * B = 0 /\ Diff = {} /\ W \in Nat /\ W >= 1
  BY WidthAssumption DEF Init, Diff, Xor
<1> DEFINE E == [e \in W - 1 .. W |-> {}]
<1>2. Pos({}, 0) = {} /\ Shifted({}, 0) = {} /\ W - 1 + 0 = W - 1 /\ 0 + W = W
  BY <1>1 DEF Pos, Shifted
<1>3. E[W - 1] = {} /\ E[W] = {}
  BY <1>1
<1>4. ASSUME NEW e \in W - 1 .. W - 1 PROVE E[e] = DivStep(E[e + 1], e + 1)
  <2>1. e = W - 1 /\ e + 1 = W
    BY <1>1
  <2> QED
    BY <1>3, <2>1 DEF DivStep
<1>5. \A e \in W - 1 .. W : E[e] \subseteq Int
  OBVIOUS
<1> HIDE DEF E
<1>6. Division(E, {}, 0, 0)
  <2>1. \A e \in W - 1 + 0 .. 0 + W : E[e] \subseteq Int
    BY <1>2, <1>5
  <2>2. \A e \in W - 1 + 0 .. 0 + W - 1 : E[e] = DivStep(E[e + 1], e + 1)
    BY <1>1, <1>4
  <2> QED
    BY <1>2, <1>3, <2>1, <2>2, Zenon DEF Division
<1>7. Division(E, Pos(flips, len * B), len * B, left) /\ E[W - 1 + left] = Shifted(Diff, left)
  BY <1>1, <1>2, <1>3, <1>6, Zenon
<1> QED
  BY <1>1, <1>7 DEF DivisionInv

(* crc16's loops carry out a polynomial division, for frames of any length,   *)
(* any register width, any byte no wider than the register and any polynomial *)
(* with a constant term: between two bytes the registers of sender and        *)
(* receiver differ by the remainder of the damage.                            *)
THEOREM LoopDivides ==
  Spec => [](left = 0 => Xor(sent, rcvd) = Remainder({len * B - 1 - p + W : p \in flips}, len * B))
<1>1. Init => DivisionInv
  BY DivisionInit
<1>2. TypeOK /\ DivisionInv /\ [Next]_vars => DivisionInv'
  <2>1. ASSUME DivisionInv, UNCHANGED vars PROVE DivisionInv'
    BY <2>1 DEF DivisionInv, vars, Diff
  <2> QED
    BY <2>1, DivisionTake, DivisionShift DEF Next
<1>3. TypeOK /\ DivisionInv
        => (left = 0 => Xor(sent, rcvd) = Remainder({len * B - 1 - p + W : p \in flips}, len * B))
  <2> SUFFICES ASSUME TypeOK, DivisionInv, left = 0
               PROVE Xor(sent, rcvd) = Remainder({len * B - 1 - p + W : p \in flips}, len * B)
    OBVIOUS
  <2>1. PICK n \in Nat : n = len * B
    BY WithinFrame
  <2>2. W \in Nat /\ W - 1 + 0 = W - 1 /\ flips \subseteq Int /\ Diff \subseteq Int
    <3>1. W \in Nat
      BY WidthAssumption
    <3> QED
      BY <2>1, <3>1 DEF TypeOK, Bits, Diff, Xor
  <2>3. PICK D : Division(D, Pos(flips, n), n, 0) /\ D[W - 1] = Shifted(Diff, 0)
    BY <2>1, <2>2 DEF DivisionInv
  <2>4. Shifted(Diff, 0) = Diff
    <3>1. \A x \in Diff : x + 0 = x
      BY <2>2
    <3> QED
      BY <3>1 DEF Shifted
  <2>5. Pos(flips, n) = {n - 1 - p + W : p \in flips}
    <3>1. \A p \in flips : W - 1 - (p - n) = n - 1 - p + W
      BY <2>2
    <3> QED
      BY <3>1 DEF Pos
  <2>6. Remainder(Pos(flips, n), n) = Diff
    BY <2>3, <2>4, RemainderUnique
  <2> QED
    BY <2>1, <2>5, <2>6 DEF Diff
<1> QED
  BY <1>1, <1>2, <1>3, TypeCorrect, PTL DEF Spec

(* What the run checks of crc16 over the first bytes of a frame. *)
THEOREM LoopIsRemainder == Spec => []IsRemainder
  BY LoopDivides, PTL DEF IsRemainder
=============================================================================
