--------------------------- MODULE SelfTestProofs ---------------------------
(***************************************************************************)
(* uart_out finds the frames of the program again, for worklists of any    *)
(* length and frames that carry any bytes.                                 *)
(***************************************************************************)
EXTENDS SelfTest, TLAPS

FrameTypes == {TypeI, TypeD, TypeE}

(* Byte n of the frame that is under way: collected by uart_out already, or  *)
(* still to be sent.                                                         *)
Byte(n) == IF n <= Len(frame) THEN frame[n] ELSE out[n - Len(frame)]

(* What is collected and what is still to be sent make one whole frame; a    *)
(* lone ACK goes out between frames only.                                    *)
OnFrame ==
  \/ out = <<>> /\ frame = <<>>
  \/ out = << ACK >> /\ frame = <<>>
  \/ /\ out # <<>> /\ Byte(1) = SOH /\ Byte(2) \in FrameTypes
     /\ Len(frame) + Len(out) = need(Byte(2))

Typed ==
  /\ test \in {"read", "write"} /\ lbas \in Seq(Nat)
  /\ k \in Nat /\ good \in Nat /\ failed \in Nat
  /\ out \in Seq(Nat) /\ frame \in Seq(Nat)

ParserInv == Typed /\ OnFrame

LEMMA NeedOfFrame ==
  ASSUME NEW t \in FrameTypes
  PROVE need(t) \in 4 .. 6
  BY DEF FrameTypes, need, TypeI, TypeD, TypeE

LEMMA NeedOfEach == need(TypeI) = 5 /\ need(TypeD) = 4 /\ need(TypeE) = 6
  BY DEF need, TypeI, TypeD, TypeE

(* A program that has nothing to send may start a frame. *)
LEMMA FrameStarts ==
  ASSUME frame' = <<>>, NEW t \in FrameTypes,
         out' \in Seq(Nat), out' # <<>>, out'[1] = SOH, out'[2] = t, Len(out') = need(t)
  PROVE OnFrame'
<1>1. Byte(1)' = SOH /\ Byte(2)' = t
  BY DEF Byte
<1>2. Len(frame') + Len(out') = need(t)
  BY NeedOfFrame
<1> QED
  BY <1>1, <1>2 DEF OnFrame

LEMMA SendKeeps ==
  ASSUME ParserInv, Send
  PROVE ParserInv'
<1>1. out \in Seq(Nat) /\ frame \in Seq(Nat) /\ out # <<>> /\ out[1] \in Nat /\ out' = Tail(out)
  BY DEF ParserInv, Typed, Send
<1>2. out' \in Seq(Nat) /\ Len(out') = Len(out) - 1 /\ \A n \in 1 .. Len(out) - 1 : out'[n] = out[n + 1]
  BY <1>1
<1>3. UNCHANGED <<test, lbas, k, good, failed>>
  BY DEF Send, case
<1>4. CASE frame = <<>>
  <2>1. frame' = IF out[1] = SOH THEN << out[1] >> ELSE <<>>
    BY <1>4 DEF Send, uart_out
  <2>2. CASE out = << ACK >>
    <3>1. frame' = <<>>
      BY <2>1, <2>2 DEF ACK, SOH
    <3>2. out' = <<>>
      BY <1>1, <2>2
    <3> QED
      BY <3>1, <3>2, <1>3 DEF ParserInv, Typed, OnFrame
  <2>3. CASE out # << ACK >>
    <3>1. /\ out[1] = SOH /\ out[2] \in FrameTypes
          /\ Len(out) = need(out[2]) /\ Len(out) >= 4
      <4>1. Byte(1) = SOH /\ Byte(2) \in FrameTypes /\ Len(frame) + Len(out) = need(Byte(2))
        BY <1>1, <2>3 DEF ParserInv, OnFrame
      <4>2. Byte(1) = out[1] /\ Byte(2) = out[2] /\ Len(frame) = 0
        BY <1>4 DEF Byte
      <4> QED
        BY <1>1, <4>1, <4>2, NeedOfFrame
    <3>2. frame' = << SOH >>
      BY <2>1, <3>1
    <3>3. out' # <<>> /\ out'[1] = out[2]
      <4>1. Len(out') >= 3 /\ 1 \in 1 .. Len(out) - 1
        BY <1>1, <1>2, <3>1
      <4>2. out'[1] = out[1 + 1]
        BY <1>2, <4>1
      <4> QED
        BY <4>1, <4>2
    <3>4. Byte(1)' = SOH /\ Byte(2)' = out[2]
      BY <3>2, <3>3 DEF Byte
    <3>5. Len(frame') + Len(out') = need(out[2])
      BY <3>1, <3>2, <1>1, <1>2
    <3>6. frame' \in Seq(Nat)
      BY <3>2 DEF SOH
    <3> QED
      BY <1>2, <1>3, <3>1, <3>3, <3>4, <3>5, <3>6 DEF ParserInv, Typed, OnFrame
  <2> QED
    BY <2>2, <2>3
<1>5. CASE frame # <<>>
  <2>0. PICK f, t : f = Append(frame, out[1]) /\ t = Byte(2)
    OBVIOUS
  <2>1. PICK n \in Nat, m \in Nat : n = Len(frame) /\ m = Len(out) /\ n >= 1 /\ m >= 1
    BY <1>1, <1>5
  <2>2. Byte(1) = SOH /\ t \in FrameTypes /\ n + m = need(t) /\ need(t) \in 4 .. 6
    <3>1. Byte(1) = SOH /\ Byte(2) \in FrameTypes /\ n + m = need(Byte(2))
      BY <1>1, <1>5, <2>1 DEF ParserInv, OnFrame
    <3> QED
      BY <2>0, <3>1, NeedOfFrame
  <2>3. f \in Seq(Nat) /\ Len(f) = n + 1
    BY <1>1, <2>0, <2>1
  <2>4. f[1] = SOH /\ f[2] = t
    <3>1. (\A i \in 1 .. n : f[i] = frame[i]) /\ f[n + 1] = out[1]
      BY <1>1, <2>0, <2>1
    <3>2. f[1] = SOH
      BY <2>1, <2>2, <3>1 DEF Byte
    <3>3. CASE n = 1
      <4>1. Byte(2) = out[1]
        BY <2>1, <3>3 DEF Byte
      <4>2. f[2] = out[1]
        BY <3>1, <3>3
      <4> QED
        BY <2>0, <3>2, <4>1, <4>2
    <3>4. CASE n >= 2
      <4>1. Byte(2) = frame[2]
        BY <2>1, <3>4 DEF Byte
      <4>2. f[2] = frame[2]
        BY <3>1, <3>4
      <4> QED
        BY <2>0, <3>2, <4>1, <4>2
    <3>5. n = 1 \/ n >= 2
      BY <2>1
    <3> QED
      BY <3>3, <3>4, <3>5
  <2>5. frame' = IF Len(f) < need(f[2]) THEN f ELSE IF Writer /\ need(f[2]) = 0 THEN f ELSE <<>>
    BY <1>5, <2>0 DEF Send, uart_out
  <2>6. frame' = IF n + 1 < need(t) THEN f ELSE <<>>
    BY <2>2, <2>3, <2>4, <2>5
  <2>7. out' \in Seq(Nat) /\ Len(out') = m - 1
    BY <1>2, <2>1
  <2>8. CASE n + 1 < need(t)
    <3>1. frame' = f
      BY <2>6, <2>8
    <3>2. Len(frame') = n + 1 /\ n + 1 + (m - 1) = need(t) /\ m - 1 # 0
      BY <2>2, <2>3, <2>8, <3>1
    <3>3. Len(frame') + Len(out') = need(t)
      BY <2>7, <3>2
    <3>4. out' # <<>>
      BY <2>7, <3>2
    <3>5. Byte(1)' = SOH /\ Byte(2)' = t
      BY <2>1, <2>4, <3>1, <3>2 DEF Byte
    <3> QED
      BY <1>3, <2>2, <2>3, <2>7, <3>1, <3>3, <3>4, <3>5 DEF ParserInv, Typed, OnFrame
  <2>9. CASE ~(n + 1 < need(t))
    <3>1. frame' = <<>> /\ m = 1
      BY <2>1, <2>2, <2>6, <2>9
    <3>2. out' = <<>>
      BY <2>7, <3>1
    <3> QED
      BY <3>1, <3>2, <1>3 DEF ParserInv, Typed, OnFrame
  <2> QED
    BY <2>8, <2>9
<1> QED
  BY <1>4, <1>5

LEMMA ParserStep == ParserInv /\ [Next]_vars => ParserInv'
<1> SUFFICES ASSUME ParserInv, [Next]_vars PROVE ParserInv'
  OBVIOUS
<1>0. out = <<>> => frame = <<>>
  BY DEF ParserInv, OnFrame
<1>1. Payload[test] \subseteq Nat
  BY ListAssumption DEF ParserInv, Typed
<1>2. CASE Send
  BY <1>2, SendKeeps
<1>3. CASE SendInfo
  <2>1. PICK p, q, r \in Payload[test] : out' = << SOH, TypeI, p, q, r >>
    BY <1>3 DEF SendInfo
  <2>2. out' \in Seq(Nat) /\ out' # <<>> /\ out'[1] = SOH /\ out'[2] = TypeI /\ Len(out') = need(TypeI)
    <3>1. p \in Nat /\ q \in Nat /\ r \in Nat /\ SOH \in Nat /\ TypeI \in Nat
      BY <1>1 DEF SOH, TypeI
    <3> QED
      BY <2>1, <3>1, NeedOfEach
  <2>3. frame' = <<>> /\ UNCHANGED <<test, lbas, k, good, failed>>
    BY <1>0, <1>3 DEF SendInfo, case, harness
  <2>4. OnFrame'
    BY <2>2, <2>3, FrameStarts DEF FrameTypes
  <2> QED
    BY <2>2, <2>3, <2>4 DEF ParserInv, Typed
<1>4. CASE SendSector
  <2>1. PICK p \in Payload[test] : out' = << SOH, TypeD, lbas[k + 1], p >>
    BY <1>4 DEF SendSector
  <2>2. lbas[k + 1] \in Nat
    BY <1>4 DEF SendSector, ParserInv, Typed
  <2>3. out' \in Seq(Nat) /\ out' # <<>> /\ out'[1] = SOH /\ out'[2] = TypeD /\ Len(out') = need(TypeD)
    <3>1. p \in Nat /\ SOH \in Nat /\ TypeD \in Nat
      BY <1>1 DEF SOH, TypeD
    <3> QED
      BY <2>1, <2>2, <3>1, NeedOfEach
  <2>4. frame' = <<>> /\ UNCHANGED <<test, lbas, k, good, failed>>
    BY <1>0, <1>4 DEF SendSector, case, harness
  <2>5. OnFrame'
    BY <2>3, <2>4, FrameStarts DEF FrameTypes
  <2> QED
    BY <2>3, <2>4, <2>5 DEF ParserInv, Typed
<1>5. CASE SendEot
  <2>1. PICK p, q \in Payload[test] : out' = << SOH, TypeE, good, failed, p, q >>
    BY <1>5 DEF SendEot
  <2>2. out' \in Seq(Nat) /\ out' # <<>> /\ out'[1] = SOH /\ out'[2] = TypeE /\ Len(out') = need(TypeE)
    <3>1. /\ p \in Nat /\ q \in Nat /\ SOH \in Nat /\ TypeE \in Nat
          /\ good \in Nat /\ failed \in Nat
      BY <1>1 DEF SOH, TypeE, ParserInv, Typed
    <3> QED
      BY <2>1, <3>1, NeedOfEach
  <2>3. frame' = <<>> /\ UNCHANGED <<test, lbas, k, good, failed>>
    BY <1>0, <1>5 DEF SendEot, case, harness
  <2>4. OnFrame'
    BY <2>2, <2>3, FrameStarts DEF FrameTypes
  <2> QED
    BY <2>2, <2>3, <2>4 DEF ParserInv, Typed
<1>6. CASE WriteSector \/ Duplicate
  <2>1. frame' = <<>> /\ out' = << ACK >> /\ UNCHANGED <<test, lbas>>
    BY <1>0, <1>6 DEF WriteSector, Duplicate, case, harness
  <2>2. k' \in Nat /\ good' \in Nat /\ failed' \in Nat
    <3>1. k \in Nat /\ good \in Nat /\ failed \in Nat
      BY DEF ParserInv, Typed
    <3>2. \/ k' = k + 1 /\ failed' = failed + 1 /\ good' = good
          \/ k' = k + 1 /\ good' = good + 1 /\ failed' = failed
          \/ k' = k /\ good' = good /\ failed' = failed
      BY <1>6, Zenon DEF WriteSector, Duplicate
    <3> QED
      BY <3>1, <3>2
  <2> QED
    BY <2>1, <2>2 DEF ParserInv, Typed, OnFrame, ACK
<1>7. CASE RecvCommand \/ SectorAcked \/ EotReply
  <2>1. frame' = <<>> /\ out' = <<>> /\ UNCHANGED <<test, lbas>>
    BY <1>0, <1>7 DEF RecvCommand, SectorAcked, EotReply, case, harness
  <2>2. k' \in Nat /\ good' \in Nat /\ failed' \in Nat
    BY <1>7 DEF RecvCommand, SectorAcked, EotReply, ParserInv, Typed
  <2> QED
    BY <2>1, <2>2 DEF ParserInv, Typed, OnFrame
<1>8. CASE UNCHANGED vars
  BY <1>8 DEF vars, case, program, harness, ParserInv, Typed, OnFrame, Byte
<1> QED
  BY <1>2, <1>3, <1>4, <1>5, <1>6, <1>7, <1>8 DEF Next

(* uart_out's collecting of frames by length never loses step with TX.COM or *)
(* WR.COM, for every list of sectors and whatever bytes frames carry, SOH    *)
(* and ACK among them: between sends no part of a frame is left over.        *)
THEOREM ParserStaysInStep == Spec => []ParserInStep
<1>1. Init => ParserInv
  BY ListAssumption DEF Init, ParserInv, Typed, OnFrame
<1>2. ParserInv => ParserInStep
  BY DEF ParserInv, OnFrame, ParserInStep
<1> QED
  BY <1>1, <1>2, ParserStep, PTL DEF Spec
=============================================================================
