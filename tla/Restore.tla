------------------------------ MODULE Restore ------------------------------
(***************************************************************************)
(* A restore: rx.py --restore streams an image to WR on the DOS box, which *)
(* writes it to the drive.  The frames are those of a capture, the other   *)
(* way round:                                                              *)
(*                                                                         *)
(*   host --- CMD, DATA frames, reply to EOT ---> WR      (down)           *)
(*   host <-- INFO, EOT frames, ACK/NAK bytes --- WR      (up)             *)
(*                                                                         *)
(* WR is wr.S alone: its recv_ack times on 0000:006C, which does not tick, *)
(* so WR waits for bytes without limit.  The host waits 8 s for a reply.   *)
(*                                                                         *)
(* Frames are units.  A side that reads single bytes and meets a frame     *)
(* takes its first byte and leaves a remainder, which is noise; a byte of  *)
(* noise may read as ACK.                                                  *)
(***************************************************************************)
EXTENDS Ranges

CONSTANTS ImgSectors,  \* whole sectors of the image file
          LinkTries,   \* LINK_TRIES, of host and of WR
          Specs,       \* worklists that --range may ask for
          FaultKinds,  \* faults of the line
          MaxFaults,   \* bound: faults in one behaviour
          MaxLine,     \* bound: frames in flight; a further one is overrun
          Old, Pad     \* contents of the drive before; a sector of zeros

ASSUME ImgAssumption == ImgSectors \in Nat
ASSUME LinkTriesAssumption == LinkTries \in Nat \ {0}
ASSUME SpecsAssumption == \A w \in Specs : IsRangeSpec(w)
ASSUME FaultAssumption == /\ FaultKinds \subseteq {"corrupt", "lose", "noise", "handshake"}
                          /\ MaxFaults \in Nat /\ MaxLine \in Nat
ASSUME ContentAssumption == Old \notin Nat /\ Old # Pad

VARIABLES
  wpc,        \* where WR is
  wranges,    \* WR: worklist received
  wri, wlba,  \* WR: range and sector it expects
  wtries,     \* WR: sends of EOT that were not acknowledged
  good, bad,  \* WR: tallies of writes
  drive,      \* the target drive
  handled,    \* history: sectors WR wrote or failed to write
  aborted,    \* history: ESC was pressed
  down, up,   \* the line
  hpc,        \* where the host is
  work,       \* host: worklist
  ri, lba,    \* host: range and sector being sent
  tries,      \* host: sends of the DATA frame that were not acknowledged
  report,     \* host: tallies received in EOT
  faults

wr == <<wpc, wranges, wri, wlba, wtries, good, bad, drive, handled, aborted>>
host == <<hpc, work, ri, lba, tries, report>>
vars == <<wr, down, up, host, faults>>

\* restore_run pads what the image does not hold.
Content(l) == IF l < ImgSectors THEN l ELSE Pad

InfoFrame == [type |-> "I"]
EotFrame(g, b) == [type |-> "E", good |-> g, bad |-> b]
CmdFrame(w) == [type |-> "C", ranges |-> w]
DataFrame(l, d) == [type |-> "D", lba |-> l, data |-> d]
Byte(b) == [type |-> b]
Garbled == Byte("?")
Replies == {"ACK", "NAK", "?"}

Linked == wpc \notin {"confirm", "tx_info", "recv_command"}
HostEnded == {"done", "lost", "stopped"}

ToHost(f) == IF hpc \in HostEnded \/ Len(up) >= MaxLine THEN up ELSE Append(up, f)

\* WR polls its UART: what arrives while it writes a sector overruns the FIFO of
\* 16 bytes, and the frame is cut short.
Writing == \E i \in DOMAIN down : down[i].type = "D" /\ down[i].lba = wlba

ToWr(f) ==
  IF wpc = "exit" \/ Len(down) >= MaxLine THEN {down}
  ELSE {Append(down, f)} \cup (IF Writing THEN {Append(down, Garbled)} ELSE {})

\* What a flush, or a read that runs past its frame, may leave of a line.
Leftovers(q) ==
  LET rests == {SubSeq(q, k, Len(q)) : k \in 1 .. Len(q) + 1}
  IN rests \cup {[r EXCEPT ![1] = Garbled] : r \in rests \ {<<>>}}

\* One byte off a line: of a frame the first is SOH, and a remainder stays; noise
\* may be one more byte or several.
TakeByte(q, rest, isAck) ==
  /\ q # <<>>
  /\ CASE q[1].type \in {"ACK", "NAK"} -> isAck = (q[1].type = "ACK") /\ rest = Tail(q)
       [] q[1].type = "?" -> rest \in {q, Tail(q)}
       [] OTHER -> ~isAck /\ rest = [q EXCEPT ![1] = Garbled]

Init ==
  /\ wpc = "confirm" /\ wranges = <<>> /\ wri = 1 /\ wlba = 0 /\ wtries = 0
  /\ good = 0 /\ bad = 0
  /\ drive = [l \in Sectors |-> Old] /\ handled = {} /\ aborted = FALSE
  /\ down = <<>> /\ up = <<>>
  /\ hpc = "info" /\ work = <<>> /\ ri = 1 /\ lba = 0 /\ tries = 0
  /\ report = [good |-> 0, bad |-> 0]
  /\ faults = 0

---------------------------------------------------------------------------
(* WR *)

\* Only a capital Y starts the writer.
Confirm ==
  /\ wpc = "confirm"
  /\ wpc' \in {"tx_info", "exit"}
  /\ UNCHANGED <<wranges, wri, wlba, wtries, good, bad, drive, handled, aborted,
                 down, up, host, faults>>

WrInfo ==
  /\ wpc = "tx_info"
  /\ down' \in Leftovers(down)
  /\ up' = ToHost(InfoFrame)
  /\ wpc' = "recv_command"
  /\ UNCHANGED <<wranges, wri, wlba, wtries, good, bad, drive, handled, aborted, host, faults>>

WrAccept ==
  /\ wpc = "recv_command" /\ down # <<>> /\ down[1].type = "C"
  /\ wranges' = down[1].ranges /\ wri' = 1 /\ good' = 0 /\ bad' = 0
  /\ down' = Tail(down)
  /\ wpc' = "next_range"
  /\ UNCHANGED <<wlba, wtries, drive, handled, aborted, up, host, faults>>

\* recv_command passes over noise, or fails in it or on a DATA frame; then
\* handshake sends INFO again.
WrNoCommand ==
  /\ wpc = "recv_command" /\ down # <<>> /\ down[1].type # "C"
  /\ \/ down[1].type # "D" /\ down' = Tail(down) /\ wpc' = wpc
     \/ down' \in Leftovers(down) \ {down} /\ wpc' = "tx_info"
  /\ UNCHANGED <<wranges, wri, wlba, wtries, good, bad, drive, handled, aborted,
                 up, host, faults>>

WrNextRange ==
  /\ wpc = "next_range"
  /\ IF wri <= Len(wranges)
       THEN wlba' = wranges[wri][1] /\ wpc' = "range_loop"
       ELSE wlba' = wlba /\ wpc' = "send_eot"
  /\ UNCHANGED <<wranges, wri, wtries, good, bad, drive, handled, aborted, down, up, host, faults>>

\* Mutant of WrRangeDone: the last sector of a range may be left out.
WrRangeDoneEarly ==
  /\ wpc = "range_loop" /\ wlba + 1 >= wranges[wri][2]
  /\ wri' = wri + 1 /\ wpc' = "next_range"
  /\ UNCHANGED <<wranges, wlba, wtries, good, bad, drive, handled, aborted, down, up, host, faults>>

WrRangeDone ==
  /\ wpc = "range_loop" /\ wlba >= wranges[wri][2]
  /\ wri' = wri + 1 /\ wpc' = "next_range"
  /\ UNCHANGED <<wranges, wlba, wtries, good, bad, drive, handled, aborted, down, up, host, faults>>

\* do_sector polls the keyboard, then waits for a frame; in the wait ESC is not
\* seen, for recv_ack does not time out.
WrDoSector ==
  /\ wpc = "range_loop" /\ wlba < wranges[wri][2]
  /\ \/ wpc' = "send_eot" /\ aborted' = TRUE
     \/ wpc' = "recv_data" /\ aborted' = aborted
  /\ UNCHANGED <<wranges, wri, wlba, wtries, good, bad, drive, handled, down, up, host, faults>>

\* Mutant of WrWrite: the frame's own lba is ignored, as recv_data's comment says.
WrWriteAnyLba ==
  /\ wpc = "recv_data" /\ down # <<>> /\ down[1].type = "D"
  /\ \/ drive' = [drive EXCEPT ![wlba] = down[1].data] /\ good' = good + 1 /\ bad' = bad
     \/ drive' = drive /\ bad' = bad + 1 /\ good' = good
  /\ handled' = handled \cup {wlba}
  /\ wlba' = wlba + 1 /\ wpc' = "range_loop"
  /\ down' = Tail(down) /\ up' = ToHost(Byte("ACK"))
  /\ UNCHANGED <<wranges, wri, wtries, aborted, host, faults>>

\* Mutant of WrWrite: a sector handled before, in another range, is gone past
\* without a write or a count.
WrWriteOnce ==
  /\ wpc = "recv_data" /\ down # <<>> /\ down[1].type = "D" /\ down[1].lba = wlba
  /\ \/ wlba \in handled /\ UNCHANGED <<drive, good, bad>>
     \/ /\ wlba \notin handled
        /\ drive' = [drive EXCEPT ![wlba] = down[1].data] /\ good' = good + 1 /\ bad' = bad
     \/ wlba \notin handled /\ drive' = drive /\ bad' = bad + 1 /\ good' = good
  /\ handled' = handled \cup {wlba}
  /\ wlba' = wlba + 1 /\ wpc' = "range_loop"
  /\ down' = Tail(down) /\ up' = ToHost(Byte("ACK"))
  /\ UNCHANGED <<wranges, wri, wtries, aborted, host, faults>>

\* The frame WR expects: write it, or skip the write after READ_TRIES failures;
\* acknowledge either way.
WrWrite ==
  /\ wpc = "recv_data" /\ down # <<>> /\ down[1].type = "D" /\ down[1].lba = wlba
  /\ \/ drive' = [drive EXCEPT ![wlba] = down[1].data] /\ good' = good + 1 /\ bad' = bad
     \/ drive' = drive /\ bad' = bad + 1 /\ good' = good
  /\ handled' = handled \cup {wlba}
  /\ wlba' = wlba + 1 /\ wpc' = "range_loop"
  /\ down' = Tail(down) /\ up' = ToHost(Byte("ACK"))
  /\ UNCHANGED <<wranges, wri, wtries, aborted, host, faults>>

\* Mutant of WrDup: a repeated frame is counted as written.
WrDupCounts ==
  /\ wpc = "recv_data" /\ down # <<>> /\ down[1].type = "D" /\ down[1].lba # wlba
  /\ down' = Tail(down) /\ up' = ToHost(Byte("ACK"))
  /\ wpc' = "range_loop" /\ good' = good + 1
  /\ UNCHANGED <<wranges, wri, wlba, wtries, bad, drive, handled, aborted, host, faults>>

\* ds_dup: a sound frame for any other sector is acknowledged and dropped.
WrDup ==
  /\ wpc = "recv_data" /\ down # <<>> /\ down[1].type = "D" /\ down[1].lba # wlba
  /\ down' = Tail(down) /\ up' = ToHost(Byte("ACK"))
  /\ wpc' = "range_loop"
  /\ UNCHANGED <<wranges, wri, wlba, wtries, good, bad, drive, handled, aborted, host, faults>>

\* Noise: passed over, or taken for a frame and refused, which may end inside
\* the next frame.
WrReject ==
  /\ wpc = "recv_data" /\ down # <<>> /\ down[1].type # "D"
  /\ \/ down' = Tail(down) /\ up' = up
     \/ down' \in Leftovers(down) \ {<<>>} /\ up' = ToHost(Byte("NAK"))
     \/ down' = Tail(down) /\ up' = ToHost(Byte("NAK"))
  /\ UNCHANGED <<wr, host, faults>>

WrEot ==
  /\ wpc = "send_eot"
  /\ up' = ToHost(EotFrame(good, bad))
  /\ wpc' = "eot_reply"
  /\ UNCHANGED <<wranges, wri, wlba, wtries, good, bad, drive, handled, aborted, down, host, faults>>

WrEotReply ==
  /\ wpc = "eot_reply"
  /\ \E isAck \in BOOLEAN, rest \in Leftovers(down) :
       /\ TakeByte(down, rest, isAck)
       /\ down' = rest
       /\ wtries' = wtries + 1
       /\ wpc' = IF ~isAck /\ wtries + 1 < LinkTries THEN "send_eot" ELSE "exit"
  /\ UNCHANGED <<wranges, wri, wlba, good, bad, drive, handled, aborted, up, host, faults>>

WrNext ==
  \/ WrInfo \/ WrAccept \/ WrNoCommand \/ WrNextRange \/ WrRangeDone \/ WrDoSector
  \/ WrWrite \/ WrDup \/ WrReject \/ WrEot \/ WrEotReply

---------------------------------------------------------------------------
(* The host *)

HostInfo ==
  /\ hpc = "info" /\ up # <<>>
  /\ hpc' = IF up[1] = InfoFrame THEN "prompt" ELSE "info"
  /\ up' = Tail(up)
  /\ UNCHANGED <<wr, down, work, ri, lba, tries, report, faults>>

FullImage == << <<0, IF ImgSectors < Total THEN ImgSectors ELSE Total>> >>

\* YES at the prompt: the worklist is sent, once.
HostStart ==
  /\ hpc = "prompt"
  /\ \E w \in Specs \cup {FullImage} :
       /\ work' = w /\ down' \in ToWr(CmdFrame(w))
       /\ lba' = IF w = <<>> THEN 0 ELSE w[1][1]
  /\ ri' = 1 /\ hpc' = "send"
  /\ UNCHANGED <<wr, up, tries, report, faults>>

\* Anything but YES, a --range that is refused, or Ctrl-C later on.
HostStop ==
  /\ hpc \notin HostEnded
  /\ hpc' = "stopped"
  /\ UNCHANGED <<wr, down, up, work, ri, lba, tries, report, faults>>

HostNextRange ==
  /\ hpc = "send" /\ (ri <= Len(work) => lba >= work[ri][2])
  /\ IF ri < Len(work)
       THEN ri' = ri + 1 /\ lba' = work[ri + 1][1] /\ hpc' = hpc
       ELSE ri' = ri /\ lba' = lba /\ hpc' = "eot"
  /\ UNCHANGED <<wr, down, up, work, tries, report, faults>>

HostSend ==
  /\ hpc = "send" /\ ri <= Len(work) /\ lba < work[ri][2]
  /\ down' \in ToWr(DataFrame(lba, Content(lba)))
  /\ hpc' = "reply"
  /\ UNCHANGED <<wr, up, work, ri, lba, tries, report, faults>>

\* Mutants of HostReply: one send too many, and no count of the sends.
HostReplyOnceMore ==
  /\ hpc = "reply"
  /\ \E isAck \in BOOLEAN, rest \in Leftovers(up) :
       /\ TakeByte(up, rest, isAck) \/ (up = <<>> /\ ~isAck /\ rest = up)
       /\ up' = rest
       /\ IF isAck
            THEN lba' = lba + 1 /\ tries' = 0 /\ hpc' = "send"
            ELSE /\ lba' = lba /\ tries' = tries + 1
                 /\ hpc' = IF tries + 1 <= LinkTries THEN "send" ELSE "lost"
  /\ UNCHANGED <<wr, down, work, ri, report, faults>>

HostReplyForever ==
  /\ hpc = "reply"
  /\ \E isAck \in BOOLEAN, rest \in Leftovers(up) :
       /\ TakeByte(up, rest, isAck) \/ (up = <<>> /\ ~isAck /\ rest = up)
       /\ up' = rest
       /\ hpc' = "send" /\ lba' = IF isAck THEN lba + 1 ELSE lba
  /\ UNCHANGED <<wr, down, work, ri, tries, report, faults>>

\* read_reply: ACK ends the sector; another byte or 8 s of silence sends it
\* again, LINK_TRIES times in all.
HostReply ==
  /\ hpc = "reply"
  /\ \E isAck \in BOOLEAN, rest \in Leftovers(up) :
       /\ TakeByte(up, rest, isAck) \/ (up = <<>> /\ ~isAck /\ rest = up)
       /\ up' = rest
       /\ IF isAck
            THEN lba' = lba + 1 /\ tries' = 0 /\ hpc' = "send"
            ELSE /\ lba' = lba /\ tries' = tries + 1
                 /\ hpc' = IF tries + 1 < LinkTries THEN "send" ELSE "lost"
  /\ UNCHANGED <<wr, down, work, ri, report, faults>>

HostEot ==
  /\ hpc = "eot" /\ up # <<>> /\ up[1].type = "E"
  /\ report' = [good |-> up[1].good, bad |-> up[1].bad]
  /\ up' = Tail(up) /\ down' \in ToWr(Byte("ACK"))
  /\ hpc' = "done"
  /\ UNCHANGED <<wr, work, ri, lba, tries, faults>>

\* Other bytes are passed over; a damaged EOT is refused.
HostSkip ==
  /\ hpc = "eot" /\ up # <<>> /\ up[1].type # "E"
  /\ \/ up' = Tail(up) /\ down' = down
     \/ up[1] = Garbled /\ up' \in Leftovers(Tail(up)) /\ down' \in ToWr(Byte("NAK"))
  /\ UNCHANGED <<wr, host, faults>>

HostNext ==
  HostInfo \/ HostStart \/ HostNextRange \/ HostSend \/ HostReply \/ HostEot \/ HostSkip

---------------------------------------------------------------------------
(* The line *)

Fault(kind) == kind \in FaultKinds /\ faults < MaxFaults /\ faults' = faults + 1

Exposed(q) == q # <<>> /\ (q[1].type \in {"I", "C"} => "handshake" \in FaultKinds)

Corrupt ==
  /\ Fault("corrupt")
  /\ \/ Exposed(up) /\ up' = [up EXCEPT ![1] = Garbled] /\ down' = down
     \/ Exposed(down) /\ down' = [down EXCEPT ![1] = Garbled] /\ up' = up
  /\ UNCHANGED <<wr, host>>

Lose ==
  /\ Fault("lose")
  /\ \/ Exposed(up) /\ up' = Tail(up) /\ down' = down
     \/ Exposed(down) /\ down' = Tail(down) /\ up' = up
  /\ UNCHANGED <<wr, host>>

Noise ==
  /\ Fault("noise")
  /\ \/ up' = ToHost(Garbled) /\ down' = down
     \/ down' \in ToWr(Garbled) /\ up' = up
  /\ UNCHANGED <<wr, host>>

Next == Confirm \/ WrNext \/ HostNext \/ HostStop \/ Corrupt \/ Lose \/ Noise

Spec == Init /\ [][Next]_vars

\* WR and rx.py keep running; nobody has to answer a prompt.
FairSpec == Spec /\ WF_vars(WrNext) /\ WF_vars(HostNext)

---------------------------------------------------------------------------
(* Properties *)

Frames == {InfoFrame, Garbled, Byte("ACK"), Byte("NAK")}
          \cup [type : {"E"}, good : Nat, bad : Nat]
          \cup [type : {"C"}, ranges : Worklist]
          \cup [type : {"D"}, lba : Sectors, data : Sectors \cup {Pad}]

\* The types of restore_run's and wr.S's variables.
TypeOK ==
  /\ wpc \in {"confirm", "tx_info", "recv_command", "next_range", "range_loop", "recv_data",
              "send_eot", "eot_reply", "exit"}
  /\ hpc \in {"info", "prompt", "send", "reply", "eot"} \cup HostEnded
  /\ wranges \in Worklist /\ work \in Worklist
  /\ wri \in 1 .. MaxR + 1 /\ wlba \in 0 .. Total /\ wtries \in 0 .. LinkTries
  /\ ri \in 1 .. MaxR /\ lba \in 0 .. Total /\ tries \in 0 .. LinkTries
  /\ good \in Nat /\ bad \in Nat /\ report \in [good : Nat, bad : Nat]
  /\ drive \in [Sectors -> Sectors \cup {Old, Pad}]
  /\ handled \subseteq Sectors /\ aborted \in BOOLEAN
  /\ \A q \in {up, down} : q \in Seq(Frames) /\ Len(q) <= MaxLine
  /\ faults \in 0 .. MaxFaults

Written == {l \in Sectors : drive[l] # Old}

\* Whatever is lost, cut short, sent twice or acknowledged late, a sector of the
\* drive holds its own content of the image or what it held before, and only
\* sectors the host asked for are touched (do_sector compares rlba with lba).
DriveAligned ==
  \A l \in Written : drive[l] = Content(l) /\ l \in handled /\ handled \subseteq Covered(work)

\* A sector that arrives twice is counted once: WR's tallies are the sectors it
\* wrote and the ones it failed to write (ds_dup leaves good_lo and bad_lo alone).
TalliesExact ==
  Disjoint(wranges) => /\ good = Cardinality(Written)
                       /\ good + bad = Cardinality(handled)

\* "Clone complete" is the truth: unless ESC was pressed, every sector of the
\* worklist was written or tried and the tallies rx.py prints account for it.
CompleteMeansCloned ==
  hpc = "done" /\ ~aborted /\ Disjoint(work) =>
    /\ handled = Covered(work)
    /\ report = [good |-> Cardinality(Written), bad |-> Cardinality(Covered(work) \ Written)]

\* The stream of DATA frames ends, acknowledged or given up after LINK_TRIES
\* sends of one frame, whatever WR does.
StreamEnds == hpc \in {"send", "reply"} ~> hpc \in {"eot"} \cup HostEnded

\* Where WR is in its worklist: what it has not gone past.
Ahead ==
  {p \in (DOMAIN wranges) \X Sectors :
     /\ p[2] \in Members(wranges[p[1]])
     /\ \/ p[1] > wri
        \/ p[1] = wri /\ (wpc = "next_range" \/ p[2] >= wlba)}

Phase ==
  CASE ~Linked -> "idle"
    [] wpc \in {"next_range", "range_loop", "recv_data"} -> "walk"
    [] wpc \in {"send_eot", "eot_reply", "exit"} -> IF hpc = "done" THEN "told" ELSE "over"

C == INSTANCE Clone WITH
       Asked <- Specs \cup {FullImage}, phase <- Phase, left <- Ahead, stopped <- aborted

\* Over any line a restore implements Clone: WR walks the host's worklist in
\* order, handles every place of it once however often its frame comes, writes and
\* counts in one step, and what rx.py prints are the counts WR ended with.
CloneSpec == C!Spec

\* docs/PROTOCOL.md on ACK: "received and written".  Once every sector has been
\* acknowledged to the host and WR has taken all that was sent to it, no sector
\* is left that WR neither wrote nor tried to write.
AckMeansWritten ==
  hpc = "eot" /\ wpc = "recv_data" /\ down = <<>> => Covered(work) \subseteq handled

\* docs/PROTOCOL.md: "if TX never sees the worklist it simply re-sends INFO, and
\* the host, seeing INFO again during its receive loop, re-sends CMD".
CommandArrives == hpc = "send" ~> (Linked \/ hpc = "stopped")
=============================================================================
