------------------------------ MODULE Framing ------------------------------
(***************************************************************************)
(* Frames as bytes: send_data of a sender puts them on the line, and       *)
(* hunt_soh, read_exact and nak of rx.py find them there, after bytes were *)
(* lost, changed or invented.  Module Imaging takes a damaged frame for    *)
(* one unit; here is what the host makes of its bytes.                     *)
(*                                                                         *)
(* Nothing escapes an SOH in a frame's data, and the host looks for the    *)
(* next frame in what is left of a damaged one.  A frame passes its CRC    *)
(* only if it is one that was sent, and no EOT is sent here.  An INFO's    *)
(* CRC is not looked at: a DATA frame whose type byte comes to be 'I' is   *)
(* answered with the whole CMD.  A sender's timeout of 2 s comes only when *)
(* the line is quiet; late replies are Imaging's matter.                   *)
(***************************************************************************)
EXTENDS Integers, Sequences

CONSTANTS Works,     \* lists of frames to send, each a sequence of bytes
          FrameLen,  \* their length, 521
          EotLen,    \* length of an EOT, 12
          InfoLen,   \* length of an INFO, 16
          Cmd,       \* the CMD of this pass: 14 bytes or more, a byte of it may be an ACK
          Timer,     \* the sender's wait for a reply ends (main.c)
          LinkTries, \* LINK_TRIES
          Junk,      \* what a byte may change into
          MaxLag,    \* bound: bytes by which the host is behind the sender
          MaxFaults  \* bound: faults of one behaviour

ASSUME FramingAssumption ==
  /\ FrameLen \in Nat /\ EotLen \in 3 .. FrameLen - 1 /\ InfoLen \in 3 .. FrameLen - 1
  /\ Cmd \in Seq(STRING) /\ Cmd # <<>>
  /\ LinkTries \in Nat \ {0} /\ MaxLag \in Nat \ {0}
  /\ MaxFaults \in Nat /\ Timer \in BOOLEAN /\ Junk \subseteq STRING
  /\ \A w \in Works :
       /\ w \in Seq(Seq(STRING)) /\ w # <<>>
       /\ \A i \in DOMAIN w : Len(w[i]) = FrameLen /\ w[i][1] = "SOH" /\ w[i][2] = "D"

VARIABLES work, txpc, cur, k, tries, \* sender: sector, bytes of it sent, tries
          up, down,                  \* bytes to the host, replies to the sender
          got,                       \* host: bytes since the SOH it found
          stored,
          commanded,                 \* history: a frame was taken for an INFO
          faults

tx == <<work, txpc, cur, k, tries>>
vars == <<tx, up, down, got, stored, commanded, faults>>

Init ==
  /\ work \in Works
  /\ txpc = "read" /\ cur = 1 /\ k = 0 /\ tries = 0
  /\ up = <<>> /\ down = <<>> /\ got = <<>> /\ stored = {}
  /\ commanded = FALSE /\ faults = 0

---------------------------------------------------------------------------
(* The sender.                                                             *)

\* The disk is read, for as long as it takes.
ReadSector ==
  /\ txpc = "read" /\ txpc' = "send" /\ k' = 0 /\ tries' = 0
  /\ UNCHANGED <<work, cur, up, down, got, stored, commanded, faults>>

Byte == work[cur][k + 1]

\* One byte of the frame, and what arrives of it.
Put(arrives) ==
  /\ txpc = "send" /\ Len(up) < MaxLag
  /\ up' = up \o arrives
  /\ k' = k + 1
  /\ txpc' = IF k' = FrameLen THEN "wait" ELSE "send"
  /\ UNCHANGED <<work, cur, tries, down, got, stored, commanded>>

SendByte == Put(<<Byte>>) /\ UNCHANGED faults

Fault == faults < MaxFaults /\ faults' = faults + 1

SendDamaged == Fault /\ \E a \in {<<>>} \cup {<<j>> : j \in Junk} : Put(a)

Noise ==
  /\ Fault /\ \E j \in Junk : up' = Append(up, j)
  /\ UNCHANGED <<tx, down, got, stored, commanded>>

Retry ==
  /\ tries' = tries + 1 /\ k' = 0
  /\ txpc' = IF tries' < LinkTries THEN "send" ELSE "lost"
  /\ UNCHANGED <<work, cur>>

\* Mutant of Reply: any reply will do.
ReplyAny ==
  /\ txpc = "wait" /\ down # <<>> /\ down' = Tail(down)
  /\ txpc' = IF cur < Len(work) THEN "read" ELSE "done"
  /\ cur' = IF cur < Len(work) THEN cur + 1 ELSE cur
  /\ UNCHANGED <<work, k, tries, up, got, stored, commanded, faults>>

Reply ==
  /\ txpc = "wait" /\ down # <<>> /\ down' = Tail(down)
  /\ IF Head(down) = "ACK"
       THEN /\ txpc' = IF cur < Len(work) THEN "read" ELSE "done"
            /\ cur' = IF cur < Len(work) THEN cur + 1 ELSE cur
            /\ UNCHANGED <<work, k, tries>>
       ELSE Retry
  /\ UNCHANGED <<up, got, stored, commanded, faults>>

Timeout ==
  /\ Timer /\ txpc = "wait" /\ up = <<>> /\ down = <<>>
  /\ Retry
  /\ UNCHANGED <<up, down, got, stored, commanded, faults>>

\* A sender that does not poll its UART keeps what it has room for: of replies that
\* follow each other a FIFO loses the last, a single register all but the last.
Overrun ==
  /\ txpc \in {"read", "send"} /\ Len(down) > 1
  /\ \E i \in DOMAIN down :
       down' = SubSeq(down, 1, i - 1) \o SubSeq(down, i + 1, Len(down))
  /\ UNCHANGED <<tx, up, got, stored, commanded, faults>>

---------------------------------------------------------------------------
(* The host's data loop.                                                   *)

\* Mutant of Hunt: a byte that starts no frame is refused.
HuntNaks ==
  /\ got = <<>> /\ up # <<>>
  /\ got' = IF Head(up) = "SOH" THEN <<"SOH">> ELSE <<>>
  /\ down' = IF Head(up) = "SOH" THEN down ELSE Append(down, "NAK")
  /\ up' = Tail(up)
  /\ UNCHANGED <<tx, stored, commanded, faults>>

\* hunt_soh: a byte that starts no frame is passed over.
Hunt ==
  /\ got = <<>> /\ up # <<>>
  /\ got' = IF Head(up) = "SOH" THEN <<"SOH">> ELSE <<>>
  /\ up' = Tail(up)
  /\ UNCHANGED <<tx, down, stored, commanded, faults>>

\* Mutant of Need: two bytes of CRC are expected where one is sent.
NeedLong(g) ==
  CASE g[2] = "D" -> FrameLen + 1
    [] g[2] = "E" -> EotLen
    [] g[2] = "I" -> InfoLen
    [] OTHER -> 2

\* Bytes read of a frame before it is judged: of an unknown type no more than
\* SOH and type.
Need(g) ==
  CASE g[2] = "D" -> FrameLen
    [] g[2] = "E" -> EotLen
    [] g[2] = "I" -> InfoLen
    [] OTHER -> 2

\* What the host has of a frame with the next byte.
Heard == Append(got, Head(up))

\* The last byte of what the host takes for an INFO.
IsInfo == Heard[2] = "I" /\ Len(Heard) >= Need(Heard)

\* reset_input_buffer drops what has arrived, and that may be anything up to all
\* that is on the way.
Rests(q) == {SubSeq(q, i, Len(q)) : i \in 1 .. Len(q) + 1}

\* read_exact: one more byte, and the judgement on the last one.
Take ==
  /\ got # <<>> /\ up # <<>> /\ ~IsInfo
  /\ LET sectors == {i \in DOMAIN work : work[i] = Heard}
     IN IF Len(Heard) < Need(Heard)
          THEN got' = Heard /\ up' = Tail(up) /\ UNCHANGED <<down, stored>>
          ELSE /\ got' = <<>> /\ stored' = stored \cup sectors
               /\ IF sectors # {}
                    THEN up' = Tail(up) /\ down' = Append(down, "ACK")
                    ELSE up' \in Rests(Tail(up)) /\ down' = Append(down, "NAK")
  /\ UNCHANGED <<tx, commanded, faults>>

\* Mutant of Command: the branch falls through to the NAK of the last one.
CommandAndNak ==
  /\ got # <<>> /\ up # <<>> /\ IsInfo
  /\ got' = <<>> /\ up' \in Rests(Tail(up)) /\ down' = down \o Append(Cmd, "NAK")
  /\ commanded' = TRUE
  /\ UNCHANGED <<tx, stored, faults>>

\* An INFO is not checked: its sender is taken to be in its handshake again, and
\* gets the CMD.
Command ==
  /\ got # <<>> /\ up # <<>> /\ IsInfo
  /\ got' = <<>> /\ up' = Tail(up) /\ down' = down \o Cmd
  /\ commanded' = TRUE
  /\ UNCHANGED <<tx, stored, faults>>

\* 3 s without a byte, which a sender whose wait ends after 2 s leaves only while
\* it reads the disk and when it has stopped.
HostTimeout ==
  /\ got # <<>> /\ up = <<>> /\ down = <<>>
  /\ txpc \in {"read", "done", "lost"} \/ (txpc = "wait" /\ ~Timer)
  /\ got' = <<>>
  /\ UNCHANGED <<tx, up, down, stored, commanded, faults>>

Progress ==
  ReadSector \/ SendByte \/ Reply \/ Timeout \/ Hunt \/ Take \/ Command \/ HostTimeout

Next == Progress \/ SendDamaged \/ Noise \/ Overrun

Spec == Init /\ [][Next]_vars /\ WF_vars(Progress)

---------------------------------------------------------------------------

\* Stop and wait: when send_data starts a frame no reply to an earlier one is on
\* the way, so the next byte it reads is about this frame.  hunt_soh and the one
\* NAK of a damaged frame must see to it, whichever byte of it was hit, as long as
\* the host takes no frame for an INFO: that draws a CMD and no NAK.
NoStaleReply == ~commanded /\ txpc = "send" /\ k = 0 => down = <<>>

\* A lost, changed or invented byte costs two resends at most, one to fill up the
\* frame read_exact is stuck in, one that is read from its start, unless it makes
\* the host send its CMD.
TwoResends == ~commanded => tries <= 2 * faults

\* A frame taken for an INFO costs one resend for each byte of the CMD that wait_reply
\* comes to read, and no more: the replies to the resends lag behind, and nothing
\* the host sends makes it send another CMD or a NAK.
CmdResends == commanded => tries <= 2 * (faults - 1) + Len(Cmd)

\* Every sector is stored and the sender comes to the end of its list, one fault
\* of the line or none, unless the fault draws a CMD with an ACK in it or with as
\* many bytes as send_data has tries.
Delivered ==
  <>(\/ txpc = "done" /\ stored = DOMAIN work
     \/ commanded /\ (Len(Cmd) >= LinkTries \/ \E i \in DOMAIN Cmd : Cmd[i] = "ACK"))

\* send_data gives up only if the line took part in every failure: as many faults
\* as tries.
DeadMeansDead == txpc = "lost" => faults >= LinkTries
=============================================================================
