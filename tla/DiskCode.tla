------------------------------ MODULE DiskCode ------------------------------
(***************************************************************************)
(* The disk code of tx.S run on the processor of module Emu8086: get_geom, *)
(* then range_loop with lba_to_chs, ldiv and read_sector on one range of   *)
(* the worklist.  wr.S has the same code with AH = 3 in read_sector's      *)
(* place.  Left out: check_abort and send_data, which keep the variables   *)
(* used here (module Imaging has them), console output, and the indexing   *)
(* of the range table: lba and end start as next_range leaves them.        *)
(***************************************************************************)
EXTENDS Emu8086

CONSTANTS Cases,   \* drives (cyls, heads, spt), each with a range the host asks for
          Tries    \* READ_TRIES

VARIABLES start, end

vars == <<emuVars, start, end>>

\* Literals at this width; 0x80, 0xC0 and 0x3F are the top bit, the top two bits
\* and the other bits of a byte.
Literals ==
  [l \in {"0", "1", "0x80", "0xC0", "0x3F", "0x08", "0x0201", "READ_TRIES", "BPS", "buf"} |->
     CASE l = "0" -> 0 [] l = "1" -> 1
       [] l = "0x80" -> Byte \div 2 [] l = "0xC0" -> TopTwo [] l = "0x3F" -> Byte \div 4 - 1
       [] l = "0x08" -> 8 [] l = "0x0201" -> 2 * Byte + 1
       [] l = "READ_TRIES" -> Tries [] l = "BPS" -> Byte [] l = "buf" -> 3]

ByteCells == {"cur_s", "cur_h", "status", "trycnt"}
WordCells == {"lba_lo", "lba_hi", "end_lo", "end_hi", "num_lo", "num_hi", "cur_c",
              "cyls", "heads", "spt", "total_lo", "total_hi",
              "good_lo", "good_hi", "bad_lo", "bad_hi"}

start_code == <<
  <<"call", "get_geom">>, <<"jnc", "geom_ok">>,
  <<"label", "no_geom">>, <<"exit">>, <<"label", "geom_ok">> >>

range_loop == <<
  <<"label", "range_loop">>,
  <<"mov", "ax", "lba_hi">>, <<"cmp", "ax", "end_hi">>, <<"jb", "do_sector">>, <<"ja", "range_next">>,
  <<"mov", "ax", "lba_lo">>, <<"cmp", "ax", "end_lo">>, <<"jb", "do_sector">>, <<"jmp", "range_next">>,
  <<"label", "do_sector">>,
  <<"call", "lba_to_chs">>, <<"call", "read_sector">>,
  <<"cmp", "status", "0">>, <<"jne", "is_bad">>,
  <<"add", "good_lo", "1">>, <<"adc", "good_hi", "0">>, <<"jmp", "send_it">>,
  <<"label", "is_bad">>, <<"add", "bad_lo", "1">>, <<"adc", "bad_hi", "0">>,
  <<"label", "send_it">>,
  <<"add", "lba_lo", "1">>, <<"adc", "lba_hi", "0">>, <<"jmp", "range_loop">>,
  <<"label", "range_next">>, <<"exit">> >>

get_geom == <<
  <<"label", "get_geom">>, <<"push", "es">>, <<"push", "di">>,
  <<"xor", "ax", "ax">>, <<"mov", "es", "ax">>, <<"xor", "di", "di">>,
  <<"mov", "ah", "0x08">>, <<"mov", "dl", "0x80">>, <<"int13">>, <<"jc", "gg_err">>,
  <<"mov", "al", "cl">>, <<"and", "al", "0x3F">>, <<"xor", "ah", "ah">>, <<"mov", "spt", "ax">>,
  <<"mov", "al", "ch">>, <<"xor", "ah", "ah">>, <<"mov", "bl", "cl">>, <<"and", "bl", "0xC0">>,
  <<"xor", "bh", "bh">>, <<"shl", "bx">>, <<"shl", "bx">>, <<"or", "ax", "bx">>,
  <<"inc", "ax">>, <<"mov", "cyls", "ax">>,
  <<"mov", "al", "dh">>, <<"xor", "ah", "ah">>, <<"inc", "ax">>, <<"mov", "heads", "ax">>,
  <<"mov", "ax", "cyls">>, <<"mul", "heads">>, <<"mov", "bx", "ax">>, <<"mov", "si", "dx">>,
  <<"mov", "ax", "bx">>, <<"mul", "spt">>, <<"mov", "total_lo", "ax">>, <<"mov", "di", "dx">>,
  <<"mov", "ax", "si">>, <<"mul", "spt">>, <<"add", "ax", "di">>, <<"mov", "total_hi", "ax">>,
  <<"pop", "di">>, <<"pop", "es">>, <<"clc">>, <<"ret">>,
  <<"label", "gg_err">>, <<"pop", "di">>, <<"pop", "es">>, <<"stc">>, <<"ret">> >>

lba_to_chs == <<
  <<"label", "lba_to_chs">>,
  <<"mov", "ax", "lba_lo">>, <<"mov", "num_lo", "ax">>, <<"mov", "ax", "lba_hi">>, <<"mov", "num_hi", "ax">>,
  <<"mov", "cx", "spt">>, <<"call", "ldiv">>, <<"inc", "ax">>, <<"mov", "cur_s", "al">>,
  <<"mov", "cx", "heads">>, <<"call", "ldiv">>, <<"mov", "cur_h", "al">>,
  <<"mov", "ax", "num_lo">>, <<"mov", "cur_c", "ax">>, <<"ret">> >>

ldiv == <<
  <<"label", "ldiv">>,
  <<"mov", "ax", "num_hi">>, <<"xor", "dx", "dx">>, <<"div", "cx">>, <<"mov", "num_hi", "ax">>,
  <<"mov", "ax", "num_lo">>, <<"div", "cx">>, <<"mov", "num_lo", "ax">>, <<"mov", "ax", "dx">>, <<"ret">> >>

read_sector == <<
  <<"label", "read_sector">>, <<"mov", "trycnt", "READ_TRIES">>,
  <<"label", "rs_try">>,
  <<"mov", "bx", "buf">>, <<"mov", "dx", "cur_c">>, <<"mov", "ch", "dl">>, <<"mov", "cl", "cur_s">>,
  <<"mov", "ax", "cur_c">>, <<"shr", "ax">>, <<"shr", "ax">>, <<"and", "al", "0xC0">>, <<"or", "cl", "al">>,
  <<"mov", "dh", "cur_h">>, <<"mov", "dl", "0x80">>, <<"mov", "ax", "0x0201">>, <<"int13">>, <<"jnc", "rs_ok">>,
  <<"xor", "ah", "ah">>, <<"mov", "dl", "0x80">>, <<"int13">>,
  <<"dec", "trycnt">>, <<"jnz", "rs_try">>,
  <<"mov", "status", "1">>, <<"mov", "di", "buf">>, <<"mov", "cx", "BPS">>, <<"xor", "al", "al">>, <<"stosb">>, <<"ret">>,
  <<"label", "rs_ok">>, <<"mov", "status", "0">>, <<"ret">> >>

Listing == start_code \o range_loop \o get_geom \o lba_to_chs \o ldiv \o read_sector

\* Mutants of Code: an instruction forgotten or, in the last one, inc for add.
Without(i) == SelectSeq(Listing, LAMBDA x : x # i)
CodeNoHighSpt == Without(<<"add", "ax", "di">>)
CodeNoCarry == Without(<<"adc", "lba_hi", "0">>)
CodeNoStub == Without(<<"stosb">>)
CodeInc == [i \in DOMAIN Listing |-> IF Listing[i] = <<"add", "lba_lo", "1">> THEN <<"inc", "lba_lo">> ELSE Listing[i]]

Code == Listing

Total(d) == d.cyls * d.heads * d.spt

Init ==
  /\ \E c \in Cases :
       /\ c[2] <= c[3] /\ c[3] <= Total(c[1])
       /\ drive = c[1] /\ start = c[2] /\ end = c[3]
  /\ mem = [x \in Bytes \cup Words |->
              CASE x = "lba_lo" -> start % Word [] x = "lba_hi" -> start \div Word
                [] x = "end_lo" -> end % Word [] x = "end_hi" -> end \div Word
                [] OTHER -> 0]
  /\ reg = [r \in Regs |-> 0] /\ stack = <<>> /\ flags = {} /\ sure = {} /\ ip = 1 /\ halt = ""
  /\ last = [lba |-> start - 1, try |-> Tries, ok |-> FALSE] /\ buf = "junk"

Next == Step /\ UNCHANGED <<start, end>>

Spec == Init /\ [][Next]_vars /\ WF_vars(Next)

---------------------------------------------------------------------------

\* Module Sweep: the CHS address that lba_to_chs computes and read_sector packs
\* into CX and DX is, on every try, the sector of the range whose turn it is, and
\* the loop of 16-bit compares and adds ends with the last one; no div of ldiv
\* faults on the way, on a drive that reports no sectors per track either.
Up == ip \notin {At("no_geom"), At("no_geom") + 1}
SectorsInOrder == INSTANCE Sweep WITH up <- Up
Sweeps == SectorsInOrder!Spec

\* get_geom unpacks what the BIOS packed: the count of sectors that INFO carries
\* is the drive's.
GeometryExact ==
  (halt = "" /\ ip = At("geom_ok")) =>
     /\ mem["cyls"] = drive.cyls /\ mem["heads"] = drive.heads /\ mem["spt"] = drive.spt
     /\ mem["total_hi"] * Word + mem["total_lo"] = Total(drive)
     /\ stack = <<>>

\* No flag that emu8086.py computes otherwise than an 8086 is read by a jump or an
\* adc: the emulator runs this code as the hardware does.
FlagsTrusted == halt = "" => reads(op) \subseteq sure

\* What send_data is given: the sector's bytes, or zeros and the status of a stub.
BufferMatches ==
  (halt = "" /\ ip = At("send_it")) =>
     /\ buf = IF mem["status"] = 0 THEN "data" ELSE "zeros"
     /\ (mem["status"] = 0) = last.ok
=============================================================================
