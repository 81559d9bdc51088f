------------------------------ MODULE SelfTest ------------------------------
(***************************************************************************)
(* The self-tests of emu8086.py: TX.COM or WR.COM runs in the emulator     *)
(* against a host that is played by the emulated UART.  A byte the program *)
(* sends is handed to uart_out, which collects frames by their length and  *)
(* answers each at once by extending rx, the bytes the program will        *)
(* receive.  Frames are short here; the bytes in them may be any, SOH and  *)
(* ACK among them.                                                         *)
(*                                                                         *)
(* rx holds units: a CMD, a DATA frame, an ACK byte.  The program is tx.S  *)
(* or wr.S as modules Imaging and Restore have it, without timeouts: the   *)
(* word it takes for the tick counter is 0 in the emulator's memory.       *)
(***************************************************************************)
EXTENDS Integers, Sequences, FiniteSets

CONSTANTS Lists,     \* lists of LBAs the tests ask for
          Bads,      \* sets of LBAs the drive fails to write
          LinkTries, \* LINK_TRIES of wr.S and tx.S
          Payload    \* bytes a frame may carry, of either test

SOH == 1
ACK == 6
TypeI == 73
TypeD == 68
TypeE == 69

ASSUME ListAssumption ==
  /\ LinkTries \in Nat \ {0} /\ Payload \in [{"read", "write"} -> SUBSET Nat]
  /\ \A w \in Lists : w \in Seq(Nat)

VARIABLES test,                \* the case: self_test of TX.COM or write_self_test of WR.COM,
          lbas, bad, drop,     \* list, bad sectors, where an ACK is lost
          pc, k,               \* program: where it is, sectors of the list done
          good, failed, tries, \* program: tallies, sends of EOT
          out,                 \* program: the frame being sent
          rx,                  \* received by the program, not yet read
          tx,                  \* bytes sent by the program
          frame,               \* uart_out: bytes of the frame so far
          idx, dropped, eot,   \* the harness's st
          writes               \* sectors written to the emulated drive

case == <<test, lbas, bad, drop>>
program == <<pc, k, good, failed, tries, out>>
harness == <<tx, frame, idx, dropped, eot>>
vars == <<case, program, rx, harness, writes>>

Writer == test = "write"
None == <<>>
Cmd == [type |-> "C"]
Data(i) == [type |-> "D", at |-> i]
Ack == [type |-> "A"]

\* Mutant of need: an INFO frame is taken to be a byte longer than it is.
needLong(t) == CASE t = TypeI -> 6 [] t = TypeD -> 4 [] t = TypeE -> 6 [] OTHER -> 0

\* Lengths of frames: 16, 521 and 12 in the protocol.
need(t) == CASE t = TypeI -> 5 [] t = TypeD -> 4 [] t = TypeE -> 6 [] OTHER -> 0

\* WR walks disjoint ranges; of TX no read fails and no ACK is lost.
Init ==
  /\ test \in {"read", "write"} /\ lbas \in Lists
  /\ Writer => \A i, j \in DOMAIN lbas : i # j => lbas[i] # lbas[j]
  /\ bad \in IF Writer THEN Bads ELSE {{}}
  /\ drop \in IF Writer THEN 0 .. Len(lbas) ELSE {0}
  /\ pc = "tx_info" /\ k = 0 /\ good = 0 /\ failed = 0 /\ tries = 0 /\ out = <<>>
  /\ rx = <<>> /\ tx = <<>> /\ frame = <<>> /\ idx = 0 /\ dropped = FALSE /\ eot = None
  /\ writes = {}

---------------------------------------------------------------------------
(* The host played by uart_out.  idx counts the frames fed, from 1.        *)

feed_next(q) == IF idx < Len(lbas) THEN Append(q, Data(idx + 1)) ELSE q

\* INFO: the worklist, and when writing the first DATA frame with it.
AnswerInfo ==
  /\ IF Writer THEN rx' = (rx \o << Cmd >>) \o (IF lbas = <<>> THEN <<>> ELSE << Data(1) >>) /\ idx' = 1
               ELSE rx' = Append(rx, Cmd) /\ idx' = idx
  /\ UNCHANGED <<dropped, eot>>

\* DATA of the sender: an ACK.
AnswerData ==
  /\ rx' = IF Writer THEN rx ELSE Append(rx, Ack)
  /\ UNCHANGED <<idx, dropped, eot>>

AnswerEot(f) ==
  /\ rx' = Append(rx, Ack)
  /\ eot' = <<f[3], f[4]>>
  /\ UNCHANGED <<idx, dropped>>

\* An ACK of the writer, outside a frame: the next DATA frame, or once, where the
\* test loses an ACK, the same one again.
AnswerAck ==
  /\ IF idx = drop /\ ~dropped
       THEN dropped' = TRUE /\ rx' = Append(rx, Data(idx)) /\ idx' = idx
       ELSE dropped' = dropped /\ rx' = feed_next(rx) /\ idx' = idx + 1
  /\ UNCHANGED eot

NoAnswer == UNCHANGED <<rx, idx, dropped, eot>>

\* uart_out on a data byte: a frame begins with SOH, a byte of unknown type gives
\* it up (the sender's test only), and a complete one is answered.
uart_out(b) ==
  /\ tx' = Append(tx, b)
  /\ IF frame = <<>>
       THEN /\ frame' = IF b = SOH THEN << b >> ELSE <<>>
            /\ IF Writer /\ b = ACK THEN AnswerAck ELSE NoAnswer
       ELSE LET f == Append(frame, b)
                t == f[2]
            IN IF Len(f) < need(t) THEN frame' = f /\ NoAnswer
               ELSE /\ frame' = IF Writer /\ need(t) = 0 THEN f ELSE <<>>
                    /\ CASE t = TypeI -> AnswerInfo
                         [] t = TypeD -> AnswerData
                         [] t = TypeE -> AnswerEot(f)
                         [] OTHER -> NoAnswer

---------------------------------------------------------------------------
(* The program.                                                            *)

\* Bytes of the frame in out go out one at a time.
Send ==
  /\ out # <<>>
  /\ uart_out(out[1])
  /\ out' = Tail(out)
  /\ UNCHANGED <<case, pc, k, good, failed, tries, writes>>

\* tx_info.
SendInfo ==
  /\ pc = "tx_info" /\ out = <<>>
  /\ \E p, q, r \in Payload[test] : out' = << SOH, TypeI, p, q, r >>
  /\ pc' = "recv_command"
  /\ UNCHANGED <<case, k, good, failed, tries, rx, harness, writes>>

\* recv_command; the end of the list goes to send_eot.
RecvCommand ==
  /\ pc = "recv_command" /\ out = <<>> /\ rx # <<>> /\ rx[1] = Cmd
  /\ rx' = Tail(rx)
  /\ pc' = "sector"
  /\ UNCHANGED <<case, k, good, failed, tries, out, harness, writes>>

SendSector ==
  /\ ~Writer /\ pc = "sector" /\ out = <<>> /\ k < Len(lbas)
  /\ \E p \in Payload[test] : out' = << SOH, TypeD, lbas[k + 1], p >>
  /\ pc' = "reply"
  /\ UNCHANGED <<case, k, good, failed, tries, rx, harness, writes>>

SectorAcked ==
  /\ pc = "reply" /\ out = <<>> /\ rx # <<>> /\ rx[1] = Ack
  /\ rx' = Tail(rx)
  /\ k' = k + 1 /\ good' = good + 1 /\ pc' = "sector"
  /\ UNCHANGED <<case, failed, tries, out, harness, writes>>

\* recv_data and write_sector: the expected LBA is written, or fails to be.
WriteSector ==
  /\ Writer /\ pc = "sector" /\ out = <<>> /\ k < Len(lbas)
  /\ rx # <<>> /\ rx[1].type = "D" /\ lbas[rx[1].at] = lbas[k + 1]
  /\ rx' = Tail(rx) /\ k' = k + 1
  /\ IF lbas[k + 1] \in bad
       THEN failed' = failed + 1 /\ UNCHANGED <<good, writes>>
       ELSE good' = good + 1 /\ writes' = writes \cup {lbas[k + 1]} /\ UNCHANGED failed
  /\ out' = << ACK >>
  /\ UNCHANGED <<case, pc, tries, harness>>

\* Mutant of Duplicate: a frame that is not expected is dropped without an answer.
DuplicateSilent ==
  /\ Writer /\ pc = "sector" /\ out = <<>> /\ k < Len(lbas)
  /\ rx # <<>> /\ rx[1].type = "D" /\ lbas[rx[1].at] # lbas[k + 1]
  /\ rx' = Tail(rx) /\ out' = <<>>
  /\ UNCHANGED <<case, pc, k, good, failed, tries, harness, writes>>

\* ds_dup: another LBA is acknowledged and not written.
Duplicate ==
  /\ Writer /\ pc = "sector" /\ out = <<>> /\ k < Len(lbas)
  /\ rx # <<>> /\ rx[1].type = "D" /\ lbas[rx[1].at] # lbas[k + 1]
  /\ rx' = Tail(rx) /\ out' = << ACK >>
  /\ UNCHANGED <<case, pc, k, good, failed, tries, harness, writes>>

SendEot ==
  /\ pc = "sector" /\ out = <<>> /\ k = Len(lbas)
  /\ \E p, q \in Payload[test] : out' = << SOH, TypeE, good, failed, p, q >>
  /\ pc' = "eot"
  /\ UNCHANGED <<case, k, good, failed, tries, rx, harness, writes>>

\* send_eot reads one byte: an ACK, or a byte of a DATA frame that was left over,
\* which may look like one.
EotReply ==
  /\ pc = "eot" /\ out = <<>> /\ rx # <<>>
  /\ \/ pc' = "done" /\ tries' = tries
     \/ /\ rx[1] # Ack
        /\ tries' = tries + 1
        /\ pc' = IF tries' < LinkTries THEN "sector" ELSE "done"
  /\ rx' = IF rx[1] = Ack THEN Tail(rx) ELSE rx
  /\ UNCHANGED <<case, k, good, failed, out, harness, writes>>

Next ==
  \/ Send \/ SendInfo \/ RecvCommand
  \/ SendSector \/ SectorAcked
  \/ WriteSector \/ Duplicate
  \/ SendEot \/ EotReply

Spec == Init /\ [][Next]_vars /\ WF_vars(Next)

---------------------------------------------------------------------------

\* Mutant of _imaged_lbas: a DATA frame is taken to be one byte longer.
_imaged_lbas_long ==
  LET L[i \in Nat] ==
        IF i >= Len(tx) THEN <<>>
        ELSE CASE tx[i] = SOH /\ tx[i + 1] = TypeD /\ i + 2 <= Len(tx) -> << tx[i + 2] >> \o L[i + need(TypeD) + 1]
               [] tx[i] = SOH /\ tx[i + 1] = TypeI -> L[i + need(TypeI)]
               [] tx[i] = SOH /\ tx[i + 1] = TypeE -> L[i + need(TypeE)]
               [] OTHER -> L[i + 1]
  IN L[1]

\* The LBAs of the DATA frames among the bytes sent.
_imaged_lbas ==
  LET L[i \in Nat] ==
        IF i >= Len(tx) THEN <<>>
        ELSE CASE tx[i] = SOH /\ tx[i + 1] = TypeD /\ i + 2 <= Len(tx) -> << tx[i + 2] >> \o L[i + need(TypeD)]
               [] tx[i] = SOH /\ tx[i + 1] = TypeI -> L[i + need(TypeI)]
               [] tx[i] = SOH /\ tx[i + 1] = TypeE -> L[i + need(TypeE)]
               [] OTHER -> L[i + 1]
  IN L[1]

Range(s) == {s[j] : j \in DOMAIN s}
Failures == {j \in DOMAIN lbas : lbas[j] \in bad}

\* What self_test and write_self_test call a PASS.
Passed ==
  IF Writer
    THEN /\ eot = << Len(lbas) - Cardinality(Failures), Cardinality(Failures) >>
         /\ writes = Range(lbas) \ bad
    ELSE _imaged_lbas = lbas

\* self_test and write_self_test pass on a program that does what tx.S and wr.S
\* do, for every list of sectors, wherever a write fails or an ACK is lost, and
\* whatever bytes the frames carry: neither side is left waiting for the other,
\* and the counts and sectors are the expected ones.
TestPasses == <>(pc = "done" /\ Passed)

\* uart_out's collecting of frames by length stays in step with the program: when
\* a frame or byte has gone out, no part of it waits to be taken for the start of
\* the next.
ParserInStep == out = <<>> => frame = <<>>
=============================================================================
