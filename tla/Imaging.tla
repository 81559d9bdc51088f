------------------------------ MODULE Imaging ------------------------------
(***************************************************************************)
(* One capture pass.  TX on the DOS box (main.c, or tx.S) reads the failing *)
(* drive sector by sector and sends each sector to rx.py on the host, over  *)
(* a serial line that damages, loses and invents bytes.                     *)
(*                                                                          *)
(*   TX --- INFO, DATA, EOT frames ---> host     (up)                       *)
(*   TX <-- CMD frame, ACK/NAK bytes --- host    (down)                     *)
(*                                                                          *)
(* The two builds of TX differ in the timeout of the wait for a reply.      *)
(* main.c reads the BIOS tick counter at 0040:006C; tx.S reads 0000:006C,   *)
(* a word of the interrupt vector table that does not tick, so its wait     *)
(* ends only with a byte.  Timer tells the builds apart.                    *)
(*                                                                          *)
(* A sector's contents are abstracted to its LBA, so the image is right at  *)
(* l when image[l] = l.  Frames are units; a damaged one may be seen by the *)
(* host as a bad frame, as noise, or as an INFO frame (rx.py does not check *)
(* the CRC of a re-sent INFO).  Bytes of a CMD are counted, because TX reads*)
(* replies one byte at a time and may meet a CMD there.                     *)
(***************************************************************************)
EXTENDS Ranges

CONSTANTS LinkTries,   \* LINK_TRIES: sends of a frame before TX gives up
          CmdHead,     \* bytes of a CMD frame beside its ranges (6 on the wire)
          RangeBytes,  \* bytes of one range in a CMD frame (8 on the wire)
          Timer,       \* TRUE: main.c's timeout.  FALSE: tx.S, which has none
          FaultKinds,  \* faults the line and the DOS box may show
          MaxFaults,   \* bound: faults in one behaviour
          MaxLine,     \* bound: frames in flight; a further one is overrun
          Modes,       \* command lines of rx.py
          Hole, Fill   \* contents of a never written and of a stubbed sector

ASSUME LinkTriesAssumption == LinkTries \in Nat \ {0}
ASSUME CmdAssumption == CmdHead \in Nat \ {0} /\ RangeBytes \in Nat
ASSUME TimerAssumption == Timer \in BOOLEAN
ASSUME FaultAssumption ==
  /\ FaultKinds \subseteq {"corrupt", "lose", "noise", "handshake", "mimic", "reset", "soh"}
  /\ MaxFaults \in Nat /\ MaxLine \in Nat
ASSUME ModesAssumption == Modes \subseteq {"fresh", "resume", "range"}
ASSUME ContentsAssumption == Hole \notin Sectors /\ Fill \notin Sectors

VARIABLES
  txpc,       \* where TX is
  ranges,     \* TX: worklist received
  ri,         \* TX: index of the range being walked
  lba,        \* TX: current sector
  status,     \* TX: outcome of the read of lba
  buf,        \* TX: sector buffer
  tries,      \* TX: sends of the current frame that were not acknowledged
  good, bad,  \* TX: tallies of the pass
  up,         \* line from TX to the host
  down,       \* line from the host to TX
  hpc,        \* where the host is
  work,       \* host: worklist of the pass
  image,      \* host: the image file
  statusmap,  \* host: the status bytemap; before the open, the map file's
  bad_count,  \* host: running number of BAD sectors
  report,     \* host: tallies received in EOT, or NoReport
  stored,     \* history: sectors written in this pass
  faults      \* faults so far

tx == <<txpc, ranges, ri, lba, status, buf, tries, good, bad>>
host == <<hpc, work, image, statusmap, bad_count, report, stored>>
vars == <<tx, up, down, host, faults>>

Contents == Sectors \cup {Hole, Fill}

TxPcs == {"tx_info", "recv_command", "next_range", "range_loop", "send_data",
          "wait_reply", "send_eot", "eot_reply", "exit", "lost"}

Ended == {"exit", "lost"}

\* TX holds a worklist.
Linked == txpc \notin {"tx_info", "recv_command"}

---------------------------------------------------------------------------
(* What travels on the line. *)

InfoFrame == [type |-> "I"]
Garbled == [type |-> "?"]
DataFrame(l, s, d) == [type |-> "D", lba |-> l, status |-> s, data |-> d]
EotFrame(g, b) == [type |-> "E", good |-> g, bad |-> b]

UpFrames ==
  {InfoFrame, Garbled}
    \cup [type : {"D"}, lba : Sectors, status : {"GOOD", "BAD"}, data : Contents]
    \cup [type : {"E"}, good : Nat, bad : Nat]

Byte(b) == [type |-> b]
CmdBytes(w) == CmdHead + RangeBytes * Len(w)

\* left: bytes of the frame still to arrive; whole: none damaged or read yet.
Cmd(w) == [type |-> "CMD", ranges |-> w, left |-> CmdBytes(w), whole |-> TRUE]

DownItems ==
  {Byte(b) : b \in {"ACK", "NAK", "junk"}}
    \cup [type : {"CMD"}, ranges : Worklist, left : Nat \ {0}, whole : BOOLEAN]

\* The line after a send.  Nobody listens at a side that has ended, and a
\* receiver that is MaxLine frames behind overruns.
ToHost(f) == IF hpc = "closed" \/ Len(up) >= MaxLine THEN up ELSE Append(up, f)
ToTx(i) == IF txpc \in Ended \/ Len(down) >= MaxLine THEN down ELSE Append(down, i)

From(q, k) == SubSeq(q, k, Len(q))

\* A CMD of which all but the last n bytes have been read.
CutTo(c, n) == [c EXCEPT !.left = n, !.whole = FALSE]

\* The line after one byte of it is read, when a CMD is next.
DropCmdByte(q) ==
  IF q[1].left = 1 THEN Tail(q) ELSE [q EXCEPT ![1] = CutTo(q[1], q[1].left - 1)]

\* What flush_input may leave of down: it reads what has arrived, which can
\* end inside a CMD frame.
FlushedDown ==
  LET rests == {From(down, k) : k \in 1 .. Len(down) + 1}
      cuts(q) == {[q EXCEPT ![1] = CutTo(q[1], n)] : n \in 1 .. q[1].left - 1}
  IN rests \cup UNION {cuts(q) : q \in {r \in rests : r # <<>> /\ r[1].type = "CMD"}}

\* What reset_input_buffer, or a read that swallowed the start of the next
\* frames, may leave of up behind the frame at its head; and of a damaged frame
\* the part behind an SOH byte in its data, where that was taken for its start
\* ("soh": sectors contain such bytes).
FlushedUp ==
  LET rests == {From(up, k) : k \in 2 .. Len(up) + 1}
  IN rests \cup {[q EXCEPT ![1] = Garbled] : q \in {r \in rests : r # <<>>}}
           \cup {q \in {up} : "soh" \in FaultKinds /\ q[1] = Garbled}

---------------------------------------------------------------------------
(* Initial states: any image with a map that tells the truth about it. *)

Expected(l, mark) ==
  CASE mark = "GOOD" -> l [] mark = "BAD" -> Fill [] mark = "UNTRIED" -> Hole

NoReport == [good |-> 0, bad |-> 0, seen |-> FALSE]

Init ==
  /\ txpc = "tx_info" /\ ranges = <<>> /\ ri = 1 /\ lba = 0
  /\ status = "GOOD" /\ buf = Fill /\ tries = 0 /\ good = 0 /\ bad = 0
  /\ up = <<>> /\ down = <<>>
  /\ hpc = "info" /\ work = <<>>
  /\ statusmap \in [Sectors -> Marks]
  /\ image = [l \in Sectors |-> Expected(l, statusmap[l])]
  /\ bad_count = 0 /\ report = NoReport /\ stored = {}
  /\ faults = 0

---------------------------------------------------------------------------
(* TX *)

\* tx_info: flush the input, send INFO.
TxInfo ==
  /\ txpc = "tx_info"
  /\ down' \in FlushedDown
  /\ up' = ToHost(InfoFrame)
  /\ txpc' = "recv_command"
  /\ UNCHANGED <<ranges, ri, lba, status, buf, tries, good, bad, host, faults>>

\* recv_command accepts a whole CMD of at most MAXR ranges; main zeroes the
\* tallies and starts with the first range.
AcceptCommand ==
  /\ txpc = "recv_command" /\ down # <<>>
  /\ down[1].type = "CMD" /\ down[1].whole /\ Len(down[1].ranges) <= MaxR
  /\ ranges' = down[1].ranges
  /\ ri' = 1 /\ good' = 0 /\ bad' = 0
  /\ down' = Tail(down)
  /\ txpc' = "next_range"
  /\ UNCHANGED <<lba, status, buf, tries, up, host, faults>>

\* recv_command hunts past bytes that are not SOH, a damaged CMD's included.
HuntCommand ==
  /\ txpc = "recv_command" /\ down # <<>>
  /\ down[1].type = "CMD" => ~down[1].whole
  /\ down' = Tail(down)
  /\ UNCHANGED <<tx, up, host, faults>>

\* recv_command fails on a timeout, or on the type, count or CRC of a damaged
\* CMD, whose count may have made it read on: handshake sends INFO again.
CommandFails ==
  /\ txpc = "recv_command"
  /\ \/ Timer /\ down' = down
     \/ /\ down # <<>> /\ down[1].type = "CMD" /\ ~down[1].whole
        /\ down' \in {DropCmdByte(down)} \cup {From(down, k) : k \in 2 .. Len(down) + 1}
  /\ txpc' = "tx_info"
  /\ UNCHANGED <<ranges, ri, lba, status, buf, tries, good, bad, up, host, faults>>

\* The head of main's outer loop; past the last range the EOT is due.
NextRange ==
  /\ txpc = "next_range"
  /\ IF ri <= Len(ranges)
       THEN lba' = ranges[ri][1] /\ txpc' = "range_loop" /\ tries' = tries
       ELSE lba' = lba /\ txpc' = "send_eot" /\ tries' = 0
  /\ UNCHANGED <<ranges, ri, status, buf, good, bad, up, down, host, faults>>

RangeDone ==
  /\ txpc = "range_loop" /\ lba >= ranges[ri][2]
  /\ ri' = ri + 1 /\ txpc' = "next_range"
  /\ UNCHANGED <<ranges, lba, status, buf, tries, good, bad, up, down, host, faults>>

\* ESC or Ctrl-C, polled before each sector: EOT with the tallies so far.
CheckAbort ==
  /\ txpc = "range_loop" /\ lba < ranges[ri][2]
  /\ txpc' = "send_eot" /\ tries' = 0
  /\ UNCHANGED <<ranges, ri, lba, status, buf, good, bad, up, down, host, faults>>

\* Mutant of ReadSector: the buffer is not stubbed after a failed read.
ReadSectorStale ==
  /\ txpc = "range_loop" /\ lba < ranges[ri][2]
  /\ \/ status' = "GOOD" /\ buf' = lba /\ good' = good + 1 /\ bad' = bad
     \/ status' = "BAD" /\ buf' = buf /\ bad' = bad + 1 /\ good' = good
  /\ txpc' = "send_data" /\ tries' = 0
  /\ UNCHANGED <<ranges, ri, lba, up, down, host, faults>>

\* read_with_retries and what main makes of it: a sector that stays unreadable
\* is stubbed.
ReadSector ==
  /\ txpc = "range_loop" /\ lba < ranges[ri][2]
  /\ \/ status' = "GOOD" /\ buf' = lba /\ good' = good + 1 /\ bad' = bad
     \/ status' = "BAD" /\ buf' = Fill /\ bad' = bad + 1 /\ good' = good
  /\ txpc' = "send_data" /\ tries' = 0
  /\ UNCHANGED <<ranges, ri, lba, up, down, host, faults>>

\* The body of send_data's loop up to the wait.
SendData ==
  /\ txpc = "send_data"
  /\ up' = ToHost(DataFrame(lba, status, buf))
  /\ txpc' = "wait_reply"
  /\ UNCHANGED <<ranges, ri, lba, status, buf, tries, good, bad, down, host, faults>>

\* A byte of a CMD frame that reads as ACK (0x06) can only be one of the count,
\* the ranges or the CRC: SOH and 'C' come first.
MayBeAck(c) == c.left <= CmdBytes(c.ranges) - 2

\* wait_reply: one byte, or a timeout where there is one.
WaitReply(isAck) ==
  \/ Timer /\ ~isAck /\ down' = down
  \/ /\ down # <<>> /\ down[1].type # "CMD"
     /\ isAck = (down[1].type = "ACK")
     /\ down' = Tail(down)
  \/ /\ down # <<>> /\ down[1].type = "CMD"
     /\ isAck => MayBeAck(down[1])
     /\ down' = DropCmdByte(down)

\* send_data returns on ACK, and the loop goes on to the next sector.
DataAcked ==
  /\ txpc = "wait_reply"
  /\ WaitReply(TRUE)
  /\ lba' = lba + 1 /\ txpc' = "range_loop"
  /\ UNCHANGED <<ranges, ri, status, buf, tries, good, bad, up, host, faults>>

\* Mutants of DataRetry: one send too many, no count of the sends, and a retry
\* that reads the sector again.
DataRetryOnceMore ==
  /\ txpc = "wait_reply"
  /\ WaitReply(FALSE)
  /\ tries' = tries + 1
  /\ txpc' = IF tries + 1 <= LinkTries THEN "send_data" ELSE "lost"
  /\ UNCHANGED <<ranges, ri, lba, status, buf, good, bad, up, host, faults>>

DataRetryForever ==
  /\ txpc = "wait_reply"
  /\ WaitReply(FALSE)
  /\ txpc' = "send_data"
  /\ UNCHANGED <<ranges, ri, lba, status, buf, tries, good, bad, up, host, faults>>

DataRetryRereads ==
  /\ txpc = "wait_reply"
  /\ WaitReply(FALSE)
  /\ tries' = tries + 1
  /\ txpc' = IF tries + 1 < LinkTries THEN "range_loop" ELSE "lost"
  /\ UNCHANGED <<ranges, ri, lba, status, buf, good, bad, up, host, faults>>

\* Anything else: send again, or give the link up after LINK_TRIES.
DataRetry ==
  /\ txpc = "wait_reply"
  /\ WaitReply(FALSE)
  /\ tries' = tries + 1
  /\ txpc' = IF tries + 1 < LinkTries THEN "send_data" ELSE "lost"
  /\ UNCHANGED <<ranges, ri, lba, status, buf, good, bad, up, host, faults>>

SendEot ==
  /\ txpc = "send_eot"
  /\ up' = ToHost(EotFrame(good, bad))
  /\ txpc' = "eot_reply"
  /\ UNCHANGED <<ranges, ri, lba, status, buf, tries, good, bad, down, host, faults>>

\* Mutant of EotReply: one send too many.
EotReplyOnceMore ==
  /\ txpc = "eot_reply"
  /\ \E isAck \in BOOLEAN :
       /\ WaitReply(isAck)
       /\ tries' = tries + 1
       /\ txpc' = IF ~isAck /\ tries + 1 <= LinkTries THEN "send_eot" ELSE "exit"
  /\ UNCHANGED <<ranges, ri, lba, status, buf, good, bad, up, host, faults>>

\* send_eot is best effort: TX exits with or without the ACK.
EotReply ==
  /\ txpc = "eot_reply"
  /\ \E isAck \in BOOLEAN :
       /\ WaitReply(isAck)
       /\ tries' = tries + 1
       /\ txpc' = IF ~isAck /\ tries + 1 < LinkTries THEN "send_eot" ELSE "exit"
  /\ UNCHANGED <<ranges, ri, lba, status, buf, good, bad, up, host, faults>>

TxNext ==
  \/ TxInfo \/ AcceptCommand \/ HuntCommand \/ CommandFails
  \/ NextRange \/ RangeDone \/ CheckAbort \/ ReadSector
  \/ SendData \/ DataAcked \/ DataRetry \/ SendEot \/ EotReply
---------------------------------------------------------------------------
(* The host *)

\* The INFO loop drops every frame but a sound INFO.
HostInfo ==
  /\ hpc = "info" /\ up # <<>>
  /\ IF up[1] = InfoFrame
       THEN hpc' = "open" /\ up' = Tail(up)
       ELSE hpc' = "info" /\ up' \in (IF up[1] = Garbled THEN FlushedUp ELSE {Tail(up)})
  /\ UNCHANGED <<tx, down, work, image, statusmap, bad_count, report, stored, faults>>

\* Mutant of OpenImage: the map is loaded although the image starts empty.
OpenImageKeepsMap(mode, exists, mapped) ==
  LET overlay == mode # "fresh" /\ exists
  IN /\ image' = IF overlay THEN image ELSE [l \in Sectors |-> Hole]
     /\ statusmap' = IF mapped THEN statusmap ELSE [l \in Sectors |-> "UNTRIED"]

\* --resume and --range keep an image that exists, and its map if there is one;
\* anything else starts from an empty image of full size.
OpenImage(mode, exists, mapped) ==
  LET overlay == mode # "fresh" /\ exists
  IN /\ image' = IF overlay THEN image ELSE [l \in Sectors |-> Hole]
     /\ statusmap' = IF overlay /\ mapped THEN statusmap
                     ELSE [l \in Sectors |-> "UNTRIED"]

IsWorklist(mode, w, sm) ==
  CASE mode = "fresh" -> w = FreshWorklist
    [] mode = "resume" -> IsResumeWorklist(w, sm)
    [] mode = "range" -> IsRangeSpec(w)

\* Open the image, decide the worklist, send it.
HostOpen ==
  /\ hpc = "open"
  /\ \E mode \in Modes, exists \in BOOLEAN, mapped \in BOOLEAN :
       /\ OpenImage(mode, exists, mapped)
       /\ \E w \in Worklist : /\ IsWorklist(mode, w, statusmap')
                              /\ work' = w
                              /\ down' = ToTx(Cmd(w))
  /\ bad_count' = Cardinality({l \in Sectors : statusmap'[l] = "BAD"})
  /\ stored' = {} /\ hpc' = "data"
  /\ UNCHANGED <<tx, up, report, faults>>

\* A --range that parse_ranges_spec refuses, after the image was opened.
HostRangeError ==
  /\ hpc = "open" /\ "range" \in Modes
  /\ \E exists \in BOOLEAN, mapped \in BOOLEAN : OpenImage("range", exists, mapped)
  /\ hpc' = "closed"
  /\ UNCHANGED <<tx, up, down, work, bad_count, report, stored, faults>>

\* Mutant of BadCountStep: a sector that was BAD already is counted again.
BadCountStepAlways(prev, new) ==
  CASE prev = "BAD" /\ new = "GOOD" -> -1
    [] new = "BAD" -> 1
    [] OTHER -> 0

\* The change of bad_count when a sector's mark goes from prev to new.
BadCountStep(prev, new) ==
  CASE prev = "BAD" /\ new = "GOOD" -> -1
    [] prev # "BAD" /\ new = "BAD" -> 1
    [] OTHER -> 0

\* Mutant of HostData: nothing is written for a BAD sector.
HostDataGoodOnly ==
  /\ hpc = "data" /\ up # <<>> /\ up[1].type = "D" /\ up[1].lba < Total
  /\ LET f == up[1]
     IN /\ image' = IF f.status = "GOOD" THEN [image EXCEPT ![f.lba] = f.data] ELSE image
        /\ statusmap' = [statusmap EXCEPT ![f.lba] = f.status]
        /\ bad_count' = bad_count + BadCountStep(statusmap[f.lba], f.status)
        /\ stored' = stored \cup {f.lba}
  /\ up' = Tail(up) /\ down' = ToTx(Byte("ACK"))
  /\ UNCHANGED <<tx, hpc, work, report, faults>>

\* A sound DATA frame: write the sector, mark it, acknowledge.
HostData ==
  /\ hpc = "data" /\ up # <<>> /\ up[1].type = "D" /\ up[1].lba < Total
  /\ LET f == up[1]
     IN /\ image' = [image EXCEPT ![f.lba] = f.data]
        /\ statusmap' = [statusmap EXCEPT ![f.lba] = f.status]
        /\ bad_count' = bad_count + BadCountStep(statusmap[f.lba], f.status)
        /\ stored' = stored \cup {f.lba}
  /\ up' = Tail(up) /\ down' = ToTx(Byte("ACK"))
  /\ UNCHANGED <<tx, hpc, work, report, faults>>

\* Mutant of HostReject: the frame is dropped but acknowledged.
HostRejectAcks ==
  /\ hpc = "data" /\ up # <<>>
  /\ up[1] # Garbled => up[1].type = "D" /\ up[1].lba >= Total
  /\ up' \in FlushedUp /\ down' = ToTx(Byte("ACK"))
  /\ UNCHANGED <<tx, host, faults>>

\* A frame of bad CRC or unknown type, or a sector off the disk: nak(), which
\* empties the input buffer first.
HostReject ==
  /\ hpc = "data" /\ up # <<>>
  /\ up[1] # Garbled => up[1].type = "D" /\ up[1].lba >= Total
  /\ up' \in FlushedUp /\ down' = ToTx(Byte("NAK"))
  /\ UNCHANGED <<tx, host, faults>>

\* Noise without an SOH, or a frame cut short that runs into the read timeout:
\* the host stays silent.
HostHunt ==
  /\ hpc = "data" /\ up # <<>> /\ up[1] = Garbled
  /\ up' \in FlushedUp
  /\ UNCHANGED <<tx, down, host, faults>>

\* Mutant of HostReInfo: the repeated INFO is passed over.
HostReInfoSilent ==
  /\ hpc = "data" /\ up # <<>> /\ up[1] = InfoFrame
  /\ up' = Tail(up)
  /\ UNCHANGED <<tx, down, host, faults>>

\* INFO again, or (fault "mimic") damage that starts like one, whose CRC is not
\* checked: repeat the worklist.
HostReInfo ==
  /\ hpc = "data" /\ up # <<>>
  /\ \/ up[1] = InfoFrame /\ up' = Tail(up)
     \/ "mimic" \in FaultKinds /\ up[1] = Garbled /\ up' \in FlushedUp
  /\ down' = ToTx(Cmd(work))
  /\ UNCHANGED <<tx, host, faults>>

HostEot ==
  /\ hpc = "data" /\ up # <<>> /\ up[1].type = "E"
  /\ report' = [good |-> up[1].good, bad |-> up[1].bad, seen |-> TRUE]
  /\ up' = Tail(up) /\ down' = ToTx(Byte("ACK"))
  /\ hpc' = "closed"
  /\ UNCHANGED <<tx, work, image, statusmap, bad_count, stored, faults>>

\* Ctrl-C between two frames: the pass ends with what it has.
HostInterrupt ==
  /\ hpc \in {"info", "data"}
  /\ hpc' = "closed"
  /\ UNCHANGED <<tx, up, down, work, image, statusmap, bad_count, report, stored, faults>>

HostNext ==
  \/ HostInfo \/ HostOpen \/ HostRangeError
  \/ HostData \/ HostReject \/ HostHunt \/ HostReInfo \/ HostEot

---------------------------------------------------------------------------
(* The line and the DOS box *)

Fault(kind) == kind \in FaultKinds /\ faults < MaxFaults /\ faults' = faults + 1

\* "corrupt" and "lose" hit the frames and replies of the transfer, and with
\* "handshake" also INFO and CMD.
Exposed(line) ==
  line # <<>> /\ (line[1].type \in {"I", "CMD"} => "handshake" \in FaultKinds)

Damage(item) == IF item.type = "CMD" THEN [item EXCEPT !.whole = FALSE] ELSE Byte("junk")

Corrupt ==
  /\ Fault("corrupt")
  /\ \/ Exposed(up) /\ up' = [up EXCEPT ![1] = Garbled] /\ down' = down
     \/ Exposed(down) /\ down' = [down EXCEPT ![1] = Damage(@)] /\ up' = up
  /\ UNCHANGED <<tx, host>>

Lose ==
  /\ Fault("lose")
  /\ \/ Exposed(up) /\ up' = Tail(up) /\ down' = down
     \/ Exposed(down) /\ down' = Tail(down) /\ up' = up
  /\ UNCHANGED <<tx, host>>

Noise ==
  /\ Fault("noise")
  /\ \/ up' = ToHost(Garbled) /\ down' = down
     \/ down' = ToTx(Byte("junk")) /\ up' = up
  /\ UNCHANGED <<tx, host>>

\* TX is started again, after it ended or after the DOS box was reset.
TxReset ==
  /\ Fault("reset")
  /\ txpc # "tx_info"
  /\ txpc' = "tx_info"
  /\ UNCHANGED <<ranges, ri, lba, status, buf, tries, good, bad, up, down, host>>

Next == TxNext \/ HostNext \/ HostInterrupt \/ Corrupt \/ Lose \/ Noise \/ TxReset

Spec == Init /\ [][Next]_vars

\* Each side keeps running.  rx.py never stops reading its port, and TX's loop
\* never stops: a timeout is one of its steps.  What is left of a damaged frame
\* holds finitely many SOH bytes, so the host gets to its end.
FairSpec ==
  /\ Spec
  /\ WF_vars(TxNext) /\ WF_vars(HostNext)
  /\ SF_vars(HostReject /\ up' # up)

\* The answer to an INFO beats the 2 s timeout of the handshake (the round trip
\* takes milliseconds).
Prompt ==
  txpc = "recv_command" /\ txpc' = "tx_info" =>
    down' # down \/ (up = <<>> /\ down = <<>> /\ hpc # "open")

---------------------------------------------------------------------------
(* Properties *)

ScalarsOK ==
  /\ txpc \in TxPcs /\ ranges \in Worklist /\ ri \in 1 .. MaxR + 1
  /\ lba \in 0 .. Total /\ status \in {"GOOD", "BAD"} /\ buf \in Contents
  /\ tries \in 0 .. LinkTries /\ good \in Nat /\ bad \in Nat
  /\ hpc \in {"info", "open", "data", "closed"} /\ work \in Worklist
  /\ image \in [Sectors -> Contents] /\ statusmap \in [Sectors -> Marks]
  /\ bad_count \in Int /\ stored \subseteq Sectors
  /\ report \in [good : Nat, bad : Nat, seen : BOOLEAN]
  /\ faults \in 0 .. MaxFaults

\* Types of all variables; the retry count stays within LINK_TRIES, the range
\* index within the table and lba on the disk.
TypeOK == ScalarsOK /\ up \in Seq(UpFrames) /\ down \in Seq(DownItems)

\* The map never lies about the image: a sector marked GOOD holds the drive's
\* contents and one marked BAD the stub, whatever the line does to the frames
\* between TX's read and the host's write (rx.py:675-690).
ImageHonest ==
  \A l \in Sectors : /\ statusmap[l] = "GOOD" => image[l] = l
                     /\ statusmap[l] = "BAD" => image[l] = Fill

\* The running bad_count, kept by increments and decrements over resent and
\* re-read sectors (rx.py:689-694), is the number of BAD marks in the map.
BadCountExact ==
  hpc = "data" => bad_count = Cardinality({l \in Sectors : statusmap[l] = "BAD"})

\* The sectors of its worklist that TX has gone past.
Passed ==
  {l \in Sectors : \E i \in DOMAIN ranges :
     /\ l \in Members(ranges[i])
     /\ i < ri \/ (i = ri /\ txpc # "next_range" /\ l < lba)}

\* TX goes past a sector only when the host has stored it (main.c:160, tx.S:538):
\* an ACK is the answer to the frame it waits for, not to an earlier one.
AckedIsStored == Linked => Passed \subseteq stored

\* A pass that ends with EOT and whose ranges do not overlap: TX's tallies are
\* the numbers of sectors the host stored as GOOD and as BAD.  They agree only
\* if no sector was skipped, counted twice or changed after it was counted.
TallyExact ==
  report.seen /\ Disjoint(work) =>
    \A t \in {<<"GOOD", report.good>>, <<"BAD", report.bad>>} :
      t[2] = Cardinality({l \in stored : statusmap[l] = t[1]})

\* When TX has gone through its worklist and the host has taken its EOT, the host
\* has stored every sector asked for: what it rejects is sent again.
PassComplete ==
  report.seen /\ txpc \in {"eot_reply", "exit"} /\ ri > Len(ranges) =>
    Covered(work) \subseteq stored

\* While TX waits for the reply to a DATA frame, no more than one byte is on
\* its way to it.
OneReplyByte ==
  txpc = "wait_reply" => \/ down = <<>>
                         \/ Len(down) = 1 /\ down[1].type # "CMD"

\* A resent frame changes nothing (rx.py:686-690, main.c:145): once stored in
\* this pass, a sector keeps contents and mark, if the ranges do not overlap
\* and TX is not started again.
ResendIdempotent ==
  [][Disjoint(work) /\ "reset" \notin FaultKinds =>
       \A l \in stored : image'[l] = image[l] /\ statusmap'[l] = statusmap[l]]_vars

\* Every pass of TX ends, acknowledged or given up, whatever the host and the
\* line do (main.c:141-185), unless TX is started again.
LinkedEnds == Linked ~> (txpc \in Ended \/ ~Linked)

\* TX's wait for a reply ends (tx.S:305).
ReplyWaitEnds == txpc = "wait_reply" ~> txpc # "wait_reply"

\* The handshake has no lost-ack trap (rx.py:383-388): if from some time on the
\* answers are prompt, and flush_input does not cut into an arriving CMD for ever
\* (a CMD is on the line for milliseconds too), TX gets its worklist, or the host
\* has gone.
HandshakeCompletes ==
  <>[][Prompt]_vars /\ SF_vars(TxInfo /\ down' = <<>>) => <>(Linked \/ hpc = "closed")

\* Why the image can be trusted: what is on the line is true.  Every DATA frame
\* in flight is about a sector of the host's worklist and holds that sector's
\* contents, or the stub, as its status says (rx.py:679-690 takes it at its word);
\* every CMD in flight and TX's own worklist are the host's; before the host has
\* decided on a worklist there are none.
Undecided == hpc \in {"info", "open"}

TrueFrames ==
  {InfoFrame, Garbled} \cup
  (IF Undecided THEN {}
   ELSE [type : {"E"}, good : Nat, bad : Nat] \cup
        {DataFrame(l, s, Expected(l, s)) : l \in Covered(work), s \in {"GOOD", "BAD"}})

CurrentItems ==
  {Byte(b) : b \in {"ACK", "NAK", "junk"}} \cup
  (IF Undecided THEN {}
   ELSE [type : {"CMD"}, ranges : {work}, left : Nat \ {0}, whole : BOOLEAN])

LineTruthful ==
  /\ up \in Seq(TrueFrames) /\ down \in Seq(CurrentItems)
  /\ Linked => ~Undecided /\ ranges = work

\* TX is inside its current range, its buffer holds what it says about the
\* sector it sends, and a frame is never sent more than LINK_TRIES times
\* (main.c:144, 275-303).
TxPosition ==
  /\ Linked => ri <= Len(ranges) + 1
  /\ txpc \in {"range_loop", "send_data", "wait_reply"} =>
       ri <= Len(ranges) /\ ranges[ri][1] <= lba
  /\ txpc \in {"send_data", "wait_reply"} =>
       lba < ranges[ri][2] /\ buf = Expected(lba, status)
  /\ txpc \in {"send_data", "wait_reply", "send_eot", "eot_reply"} => tries < LinkTries

\* The pass implements Rescue: image and map change only by whole, true
\* stores of worklist sectors.
R == INSTANCE Rescue WITH
       phase <- CASE hpc \in {"info", "open"} -> "before"
                  [] hpc = "data" -> "pass"
                  [] hpc = "closed" -> "over"
RescueSpec == R!Spec
=============================================================================
