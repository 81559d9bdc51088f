------------------------------ MODULE Emu8086 ------------------------------
(***************************************************************************)
(* The processor of tools/emu8086.py: registers, flags, stack and memory,  *)
(* and one action for each group of opcodes in Emu.step.  An instruction   *)
(* is a tuple of strings, <<"mov", "ax", "lba_lo">>: opcode decoding is    *)
(* left out, the two operand widths are kept.  A byte has B bits and a     *)
(* word 2 * B, 8 and 16 in the emulator.                                   *)
(*                                                                         *)
(* The drive behind INT 13h is the emulator's stub made general: any       *)
(* geometry, and reads that fail.  sure is the set of flags on which the   *)
(* emulator and an 8086 agree: mul and div leave the emulator's flags      *)
(* alone, inc and dec of memory change its carry.                          *)
(***************************************************************************)
EXTENDS Integers, Sequences, Bitwise

CONSTANTS B,        \* bits of a byte
          Program,  \* sequence of instructions, labels among them
          Literal,  \* value of the immediate operands Program names
          Bytes,    \* memory cells of one byte
          Words     \* memory cells of one word

ASSUME WidthAssumption == B \in Nat /\ B >= 4 /\ Bytes \cap Words = {}

Regs == {"ax", "bx", "cx", "dx", "si", "di", "es"}
Half == [al |-> <<"ax", FALSE>>, ah |-> <<"ax", TRUE>>, bl |-> <<"bx", FALSE>>, bh |-> <<"bx", TRUE>>,
         cl |-> <<"cx", FALSE>>, ch |-> <<"cx", TRUE>>, dl |-> <<"dx", FALSE>>, dh |-> <<"dx", TRUE>>]
Flags == {"CF", "ZF"}
Byte == 2 ^ B
Word == 2 ^ (2 * B)

VARIABLES reg, mem, stack, flags, ip, \* the processor; flags holds the ones that are set
          halt,                       \* "", "exit", or "fault" for an exception
          sure,
          drive, last, buf            \* geometry, last sector addressed, sector buffer

cpu == <<reg, mem, stack, flags, ip, halt, sure>>
bios == <<drive, last, buf>>
emuVars == <<cpu, bios>>

\* A code label, and the instruction after it.
At(l) == CHOOSE i \in DOMAIN Program : Program[i] = <<"label", l>>

op == IF halt = "" THEN Program[ip][1] ELSE "none"
dst == Program[ip][2]
src == Program[ip][3]

\* g8, g16, rd; and s8, s16, wr.
Low(w) == w % Byte
High(w) == w \div Byte
Val(x) ==
  CASE x \in Regs -> reg[x]
    [] x \in DOMAIN Half -> IF Half[x][2] THEN High(reg[Half[x][1]]) ELSE Low(reg[Half[x][1]])
    [] x \in DOMAIN mem -> mem[x]
    [] OTHER -> Literal[x]
Store(x, v) ==
  /\ reg' = IF x \in Regs THEN [reg EXCEPT ![x] = v]
            ELSE IF x \in DOMAIN Half
              THEN [reg EXCEPT ![Half[x][1]] = IF Half[x][2] THEN v * Byte + Low(@) ELSE High(@) * Byte + v]
            ELSE reg
  /\ mem' = IF x \in DOMAIN mem THEN [mem EXCEPT ![x] = v] ELSE mem
Size(x) == IF x \in DOMAIN Half \cup Bytes THEN Byte ELSE Word

\* A result cut to its size.
Fit(r, m) == r % m

Fetched == ip' = ip + 1

Carry(c) == IF c THEN {"CF"} ELSE {}
Zero(v) == IF v = 0 THEN {"ZF"} ELSE {}

\* Emu.alu without the sign and parity flags, on operands of size m.
Arith == {"add", "adc", "sub", "sbb", "cmp"}
Logic == {"and", "or", "xor", "test"}
alu(o, a, b, m) ==
  LET c == IF "CF" \in flags THEN 1 ELSE 0
      r == CASE o = "add" -> a + b
             [] o = "adc" -> a + b + c
             [] o \in {"sub", "cmp"} -> a - b
             [] o = "sbb" -> a - b - c
             [] o \in {"and", "test"} -> a & b
             [] o = "or" -> a | b
             [] o = "xor" -> a ^^ b
  IN [r |-> Fit(r, m), f |-> Carry(o \in Arith /\ (r < 0 \/ r >= m)) \cup Zero(Fit(r, m))]

Alu ==
  /\ op \in Arith \cup Logic
  /\ LET a == alu(op, Val(dst), Val(src), Size(dst))
     IN /\ IF op \in {"cmp", "test"} THEN UNCHANGED <<reg, mem>> ELSE Store(dst, a.r)
        /\ flags' = a.f
  /\ sure' = Flags
  /\ Fetched
  /\ UNCHANGED <<stack, halt, bios>>

\* inc and dec of a word register keep the carry; the FE and FF forms go through
\* alu and do not, as an 8086 would.
IncDec ==
  /\ op \in {"inc", "dec"}
  /\ LET a == alu(IF op = "inc" THEN "add" ELSE "sub", Val(dst), 1, Size(dst))
     IN /\ Store(dst, a.r)
        /\ flags' = IF dst \in Regs THEN (flags \cap {"CF"}) \cup (a.f \cap {"ZF"}) ELSE a.f
  /\ sure' = {"ZF"} \cup IF dst \in Regs THEN sure ELSE {}
  /\ Fetched
  /\ UNCHANGED <<stack, halt, bios>>

Mov ==
  /\ op = "mov"
  /\ Store(dst, Val(src))
  /\ Fetched
  /\ UNCHANGED <<stack, flags, halt, sure, bios>>

\* Shifts by one.
Shift ==
  /\ op \in {"shl", "shr"}
  /\ LET a == Val(dst)
         m == Size(dst)
         v == IF op = "shl" THEN (2 * a) % m ELSE a \div 2
     IN /\ Store(dst, v)
        /\ flags' = Carry(IF op = "shl" THEN 2 * a >= m ELSE a % 2 = 1) \cup Zero(v)
  /\ sure' = Flags
  /\ Fetched
  /\ UNCHANGED <<stack, halt, bios>>

\* mul and div of words.
Mul ==
  /\ op = "mul"
  /\ LET p == reg["ax"] * Val(dst)
     IN reg' = [reg EXCEPT !["ax"] = p % Word, !["dx"] = p \div Word]
  /\ sure' = {}
  /\ Fetched
  /\ UNCHANGED <<mem, stack, flags, halt, bios>>

Div ==
  /\ op = "div"
  /\ LET n == reg["dx"] * Word + reg["ax"]
         d == Val(dst)
     IN IF d = 0 \/ n \div d >= Word
          THEN halt' = "fault" /\ UNCHANGED <<reg, ip>>
          ELSE /\ reg' = [reg EXCEPT !["ax"] = n \div d, !["dx"] = n % d]
               /\ Fetched
               /\ UNCHANGED halt
  /\ sure' = {}
  /\ UNCHANGED <<mem, stack, flags, bios>>

Push ==
  /\ op = "push"
  /\ stack' = <<Val(dst)>> \o stack
  /\ Fetched
  /\ UNCHANGED <<reg, mem, flags, halt, sure, bios>>

Pop ==
  /\ op = "pop"
  /\ Store(dst, Head(stack))
  /\ stack' = Tail(stack)
  /\ Fetched
  /\ UNCHANGED <<flags, halt, sure, bios>>

Call ==
  /\ op = "call"
  /\ stack' = <<ip + 1>> \o stack
  /\ ip' = At(dst)
  /\ UNCHANGED <<reg, mem, flags, halt, sure, bios>>

Ret ==
  /\ op = "ret"
  /\ ip' = Head(stack)
  /\ stack' = Tail(stack)
  /\ UNCHANGED <<reg, mem, flags, halt, sure, bios>>

\* The flags a conditional jump reads, and jcccond for the ones the programs use.
reads(o) ==
  CASE o \in {"jb", "jc", "jae", "jnc", "adc", "sbb"} -> {"CF"}
    [] o \in {"je", "jne", "jnz"} -> {"ZF"}
    [] o = "ja" -> {"CF", "ZF"}
    [] OTHER -> {}
Jumps == {"jb", "jc", "jae", "jnc", "je", "jne", "jnz", "ja"}
jcccond(o) ==
  CASE o \in {"jb", "jc"} -> "CF" \in flags
    [] o \in {"jae", "jnc"} -> "CF" \notin flags
    [] o = "je" -> "ZF" \in flags
    [] o \in {"jne", "jnz"} -> "ZF" \notin flags
    [] o = "ja" -> flags = {}

Jump ==
  /\ op \in Jumps \cup {"jmp"}
  /\ ip' = IF op = "jmp" \/ jcccond(op) THEN At(dst) ELSE ip + 1
  /\ UNCHANGED <<reg, mem, stack, flags, halt, sure, bios>>

SetCarry ==
  /\ op \in {"clc", "stc"}
  /\ flags' = (flags \ {"CF"}) \cup Carry(op = "stc")
  /\ sure' = sure \cup {"CF"}
  /\ Fetched
  /\ UNCHANGED <<reg, mem, stack, halt, bios>>

Label == op = "label" /\ Fetched /\ UNCHANGED <<reg, mem, stack, flags, halt, sure, bios>>

\* rep stosb: cx bytes of al at es:di.
Stosb ==
  /\ op = "stosb"
  /\ buf' = IF reg["cx"] = Literal["BPS"] /\ Val("al") = 0 /\ reg["di"] = Literal["buf"] THEN "zeros" ELSE "junk"
  /\ reg' = [reg EXCEPT !["cx"] = 0, !["di"] = (@ + reg["cx"]) % Word]
  /\ Fetched
  /\ UNCHANGED <<mem, stack, flags, halt, sure, drive, last>>

---------------------------------------------------------------------------
(* INT 13h of drive 0x80: AH = 8 packs the geometry into cx and dx, AH = 2 *)
(* or 3 reads or writes the sector that cx and dx name, AH = 0 resets.     *)

TopTwo == Byte - Byte \div 4
Cylinder == High(reg["cx"]) + (Low(reg["cx"]) & TopTwo) * 4
Addressed == (Cylinder * drive.heads + High(reg["dx"])) * drive.spt + (Low(reg["cx"]) % (Byte \div 4)) - 1

Int13 ==
  /\ op = "int13"
  /\ flags' = flags \ {"CF"}
  /\ sure' = {"CF"}
  /\ CASE Val("ah") = 8 ->
            /\ LET c == drive.cyls - 1
               IN reg' = [reg EXCEPT !["cx"] = (c % Byte) * Byte + (((c \div 4) & TopTwo) | drive.spt),
                                     !["dx"] = (drive.heads - 1) * Byte + Literal["0x80"]]
            /\ UNCHANGED <<last, buf>>
       [] Val("ah") = 0 ->
            /\ reg' = [reg EXCEPT !["ax"] = Low(@)]
            /\ UNCHANGED <<last, buf>>
       [] OTHER ->
            /\ reg' = [reg EXCEPT !["ax"] = Low(@)]
            /\ last' = [lba |-> Addressed, try |-> IF Addressed = last.lba THEN last.try + 1 ELSE 1, ok |-> TRUE]
            /\ buf' = "data"
  /\ Fetched
  /\ UNCHANGED <<mem, stack, halt, drive>>

\* A call the BIOS fails: no drive, or a sector that cannot be read.
Int13Fails ==
  /\ op = "int13"
  /\ Val("ah") # 0
  /\ flags' = flags \cup {"CF"}
  /\ sure' = {"CF"}
  /\ IF Val("ah") = 8
       THEN UNCHANGED <<reg, last, buf>>
       ELSE /\ reg' = [reg EXCEPT !["ax"] = 4 * Byte + Low(@)]
            /\ last' = [lba |-> Addressed, try |-> IF Addressed = last.lba THEN last.try + 1 ELSE 1, ok |-> FALSE]
            /\ buf' = "junk"
  /\ Fetched
  /\ UNCHANGED <<mem, stack, halt, drive>>

\* INT 21h, AH = 4C.
Exit ==
  /\ op = "exit"
  /\ halt' = "exit"
  /\ UNCHANGED <<reg, mem, stack, flags, ip, sure, bios>>

\* Emu.step; Emu.run takes steps until the program halts or an instruction raises.
Step ==
  \/ Alu \/ IncDec \/ Mov \/ Shift \/ Mul \/ Div
  \/ Push \/ Pop \/ Call \/ Ret \/ Jump \/ SetCarry \/ Label \/ Stosb
  \/ Int13 \/ Int13Fails \/ Exit
=============================================================================
